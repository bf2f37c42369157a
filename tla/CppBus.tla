------------------------------- MODULE CppBus -------------------------------
(***************************************************************************)
(* Access to the chip's memories through the PCIe BARs                     *)
(* (nfpcore/nfp6000_pcie.c) and the areas and the area cache that the rest *)
(* of the driver uses (nfpcore/nfp_cppcore.c, nfpcore/nfp_cpplib.c).       *)
(*                                                                         *)
(* A BAR is a window of the host onto one aligned stretch of one target.   *)
(* An area is acquired by finding it a BAR: one that already shows the     *)
(* area's addresses is shared, else an unused one is pointed at them, else *)
(* the caller sleeps until an area is released.  nfp_cpp_read() and        *)
(* nfp_cpp_write() keep a few areas acquired in a least recently used list *)
(* and hold the list's mutex while they use one.                           *)
(*                                                                         *)
(* A window is what an area wants to see: [tgt, act, tok, off, size] and   *)
(* the widths rd and wr that nfp_target_pushpull() gives its target and    *)
(* action.  A thread has one area of its own, allocated for each use.      *)
(***************************************************************************)
EXTENDS Integers, Sequences, FiniteSets, FiniteSetsExt

CONSTANTS
    Bars,           \* indices of the BARs, sorted by size (bar_cmp)
    BarBits,        \* bitsize of each BAR
    ReservedBars,   \* locked by enable_bars(): MSI-X, XPB, explicit groups
    BulkBits, FixedBits,    \* 40 - 21 and 40 - 16: smallest BAR of each type
    MaxArea,        \* 1 << 24: largest area
    Threads,        \* callers in the kernel
    Caches,         \* entries of the area cache
    CacheSize,      \* the size of each entry
    OtherAreas,     \* areas of other users of this interface
    Windows         \* what the threads want to see

RW == 32            \* NFP_CPP_ACTION_RW
NoBar == -1
EAGAIN == -2
EINVAL == -3
Areas == Threads \cup Caches \cup OtherAreas

ASSUME CppConstants ==
    /\ Bars = 0 .. Cardinality(Bars) - 1 /\ ReservedBars \subseteq Bars
    /\ \A m, n \in Bars : m < n => BarBits[m] <= BarBits[n]
    /\ Threads \cap Caches = {} /\ OtherAreas \cap (Threads \cup Caches) = {}
    /\ MaxArea \in Nat /\ BulkBits \in Nat /\ FixedBits \in Nat

VARIABLES
    bar,            \* [cfg, refcnt]: the BARs and their number of users
    area,           \* [live, win, refcount, kref, bar, pref]: see nfp_cpp_area
    cache,          \* [id, addr] of each entry; id is <<>> when it has no area
    cacheList,      \* area_cache_list, most recently used first
    cacheMutex,     \* the threads inside area_cache_mutex
    thr,            \* [pc, op, win, a, c] of each thread
    woken,          \* sleepers on cpp->waitq that have been woken
    remapFailed     \* history: ioremap() has failed

cppvars == <<bar, area, cache, cacheList, cacheMutex, thr, woken, remapFailed>>

-----------------------------------------------------------------------------
(***************************************************************************)
(* The BARs.                                                               *)
(***************************************************************************)
BarSize(n) == 2 ^ BarBits[n]
Align(x, n) == x - (x % n)

\* The configuration of a BAR that shows window w, or EINVAL.
compute_bar(n, w, width) ==
    LET fixed == w.act \notin {RW, 0}
    IN  IF \/ width \notin {0, 4, 8}
           \/ Align(w.off, BarSize(n)) # Align(w.off + w.size - 1, BarSize(n))
           \/ BarBits[n] < (IF fixed THEN FixedBits ELSE BulkBits)
        THEN [map |-> "einval"]
        ELSE [map |-> IF fixed THEN "fixed" ELSE "bulk",
              tgt |-> w.tgt, tok |-> w.tok, act |-> IF fixed THEN w.act ELSE RW,
              width |-> width, base |-> Align(w.off, BarSize(n))]

\* BAR n of bars shows all of window w with the width and action it wants.
matching_bar(bars, n, w, width) ==
    LET b == bars[n].cfg
    IN  /\ b.map \in {"fixed", "bulk"}
        /\ b.width = width /\ b.tgt = w.tgt /\ b.tok = w.tok
        /\ b.act = (IF b.map = "bulk" /\ w.act = 0 THEN RW ELSE w.act)
        /\ b.base <= w.off /\ b.base + BarSize(n) >= w.off + w.size

find_matching_bar(bars, w, width) == {n \in Bars : matching_bar(bars, n, w, width)}

\* The BARs that could show w, used or not, in the order they are tried.
Suitable(w, width) ==
    {n \in Bars : compute_bar(n, w, width).map # "einval"}

\* Mutant: a BAR in use is taken.
BusyBarTaken(bars, w, width) ==
    IF Suitable(w, width) = {} THEN EINVAL ELSE Min(Suitable(w, width))

find_unused_bar_noblock(bars, w, width) ==
    LET free == {n \in Suitable(w, width) : bars[n].refcnt = 0}
    IN  IF free # {} THEN Min(free)
        ELSE IF Suitable(w, width) = {} THEN EINVAL ELSE EAGAIN

nfp_bar_get(bars, n) == [bars EXCEPT ![n].refcnt = @ + 1]
reconfigure_bar(bars, n, w, width) == [bars EXCEPT ![n].cfg = compute_bar(n, w, width)]

\* The BAR that w gets, and the BARs after w got it.  One step of bar_lock.
nfp_alloc_bar(bars, w, width) ==
    LET match == find_matching_bar(bars, w, width)
        n == IF w.size > MaxArea THEN EINVAL
             ELSE IF match # {} THEN Min(match)
             ELSE find_unused_bar_noblock(bars, w, width)
    IN  [n |-> n,
         bars |-> IF n < 0 THEN bars
                  ELSE nfp_bar_get(IF match # {} THEN bars
                                   ELSE reconfigure_bar(bars, n, w, width), n)]

nfp_bar_put(n) == [bar EXCEPT ![n].refcnt = @ - 1]

\* BAR0.0 is configured for general use, BAR0.1 for the XPB, BAR0.4 and up for
\* explicit access: no window on another target matches one of them, and none
\* is free.  The others are cleared.
enable_bars ==
    [n \in Bars |->
        [refcnt |-> IF n \in ReservedBars THEN 1 ELSE 0,
         cfg |-> IF n \in ReservedBars THEN [map |-> "reserved"]
                 ELSE [map |-> "fixed", tgt |-> 0, tok |-> 0, act |-> 0,
                       width |-> 4, base |-> 0]]]

-----------------------------------------------------------------------------
(***************************************************************************)
(* Areas.  The operators give the new value of one area.                   *)
(***************************************************************************)
NoArea == [live |-> FALSE, win |-> <<>>, width |-> 0,
           refcount |-> 0, kref |-> 0, bar |-> NoBar, pref |-> 0]

\* nfp6000_area_init() refuses a target whose two widths differ.
AreaInitOK(w) == ~(w.rd > 0 /\ w.wr > 0 /\ w.rd # w.wr)
nfp6000_area_init(x, w) ==
    [x EXCEPT !.win = w, !.width = IF w.rd > 0 THEN w.rd ELSE w.wr,
              !.bar = NoBar, !.pref = 0]

nfp_cpp_area_alloc_with_name(w) ==
    nfp6000_area_init([NoArea EXCEPT !.live = TRUE, !.kref = 1], w)

kref_put(x) == IF x.kref = 1 THEN NoArea ELSE [x EXCEPT !.kref = @ - 1]

\* An acquired area keeps its BAR until the last user has released it.
nfp6000_area_release(x) ==
    IF x.pref = 1 THEN [x EXCEPT !.pref = 0, !.bar = NoBar]
    ELSE [x EXCEPT !.pref = Max({0, @ - 1})]

\* What nfp_cpp_area_release() leaves of the area and of the BARs; everyone
\* who waits for a BAR is woken when the last user has gone.
LastUser(a) == area[a].refcount = 1
nfp_cpp_area_release(a) ==
    LET x == [area[a] EXCEPT !.refcount = @ - 1]
    IN  [area |-> kref_put(IF LastUser(a) THEN nfp6000_area_release(x) ELSE x),
         bars |-> IF LastUser(a) /\ area[a].pref = 1
                  THEN nfp_bar_put(area[a].bar) ELSE bar]

Asleep == {t \in Threads : thr[t].pc = "sleep"}
\* Mutant: nobody is woken.
WakeNone(a) == woken

WakeAll(a) == IF LastUser(a) THEN woken \cup Asleep ELSE woken

-----------------------------------------------------------------------------
(***************************************************************************)
(* Acquiring.  __nfp_cpp_area_acquire() counts the caller, tries, and      *)
(* sleeps on cpp->waitq while the answer is EAGAIN.  ioremap() of the part *)
(* of the BAR happens outside bar_lock.                                    *)
(***************************************************************************)
Go(t, pc) == thr' = [thr EXCEPT ![t].pc = pc]
Idle(t) == thr' = [thr EXCEPT ![t] = [@ EXCEPT !.pc = "idle", !.a = t]]

\* The thread's own area, for a mapping or when the cache cannot serve it.
BeginOwn(t, w) ==
    IF AreaInitOK(w)
    THEN /\ area' = [area EXCEPT ![t] = [nfp_cpp_area_alloc_with_name(w)
                                         EXCEPT !.refcount = 1]]
         /\ thr' = [thr EXCEPT ![t] = [@ EXCEPT !.pc = "try", !.a = t]]
    ELSE UNCHANGED area /\ Idle(t)

\* The acquisition has failed: the count is taken back.  A thread that was
\* filling a cache entry leaves the cache and tries an area of its own, the
\* others free their area and return the error.
Fail(t) ==
    LET a == thr[t].a
        x == [area[a] EXCEPT !.refcount = @ - 1, !.bar = NoBar]
    IN  /\ woken' = woken \ {t}
        /\ IF a \in Caches
           THEN /\ cacheMutex' = {}
                /\ area' = [area EXCEPT ![a] = x]
                /\ thr' = [thr EXCEPT ![t] = [@ EXCEPT !.pc = "own", !.a = t]]
           ELSE /\ area' = [area EXCEPT ![a] = kref_put(x)]
                /\ Idle(t) /\ UNCHANGED cacheMutex

\* nfp6000_area_acquire() up to the end of nfp_alloc_bar().
nfp6000_area_acquire(t) ==
    LET a == thr[t].a
        got == nfp_alloc_bar(bar, area[a].win, area[a].width)
    IN  /\ thr[t].pc = "try"
        /\ UNCHANGED <<cache, cacheList, remapFailed>>
        /\ \/ /\ got.n >= 0
              /\ bar' = got.bars /\ area' = [area EXCEPT ![a].bar = got.n]
              /\ Go(t, "remap") /\ UNCHANGED <<cacheMutex, woken>>
           \/ /\ got.n = EAGAIN /\ Go(t, "sleep") /\ woken' = woken \ {t}
              /\ UNCHANGED <<bar, area, cacheMutex>>
           \/ got.n = EINVAL /\ Fail(t) /\ UNCHANGED bar

\* ioremap() succeeds: the area is held, and referred to once more.
Remapped(t) ==
    LET a == thr[t].a
    IN  /\ thr[t].pc = "remap"
        /\ area' = [area EXCEPT ![a].pref = @ + 1, ![a].kref = @ + 1]
        /\ cache' = IF a \in Caches
                    THEN [cache EXCEPT ![a].id = <<area[a].win.tgt, area[a].win.act>>]
                    ELSE cache
        /\ Go(t, "use")
        /\ UNCHANGED <<bar, cacheList, cacheMutex, woken, remapFailed>>

\* ioremap() fails: the BAR is given back, and nobody on cpp->waitq is woken.
RemapFails(t) ==
    /\ thr[t].pc = "remap" /\ remapFailed' = TRUE
    /\ bar' = nfp_bar_put(area[thr[t].a].bar)
    /\ Fail(t) /\ UNCHANGED <<cache, cacheList>>

Wake(t) == /\ thr[t].pc = "sleep" /\ t \in woken
           /\ Go(t, "try") /\ woken' = woken \ {t}
           /\ UNCHANGED <<bar, area, cache, cacheList, cacheMutex, remapFailed>>

\* A signal ends the wait.
Interrupt(t) == /\ thr[t].pc = "sleep" /\ Fail(t)
                /\ UNCHANGED <<bar, cache, cacheList, remapFailed>>

-----------------------------------------------------------------------------
(***************************************************************************)
(* nfp_cpp_map_area(), and nfp_cpp_read() and nfp_cpp_write() for a piece  *)
(* that does not cross NFP_CPP_SAFE_AREA_SIZE.                             *)
(***************************************************************************)
nfp_cpp_map_area(t) ==
    /\ thr[t].pc = "idle"
    /\ \E w \in Windows :
        IF AreaInitOK(w)
        THEN /\ area' = [area EXCEPT ![t] = [nfp_cpp_area_alloc_with_name(w)
                                             EXCEPT !.refcount = 1]]
             /\ thr' = [thr EXCEPT ![t] = [pc |-> "try", op |-> "map", win |-> w, a |-> t]]
        ELSE UNCHANGED <<area, thr>>
    /\ UNCHANGED <<bar, cache, cacheList, cacheMutex, woken, remapFailed>>

Hit(c, w) == /\ cache[c].id = <<w.tgt, w.act>>
             /\ w.off >= cache[c].addr
             /\ w.off + w.size <= cache[c].addr + CacheSize[c]

CacheTail == cacheList[Len(cacheList)]
Fits(c, w) == Align(w.off + w.size - 1, CacheSize[c]) = Align(w.off, CacheSize[c])

\* area_cache_get(): a hit uses the entry's area; a miss evicts the least
\* recently used entry and acquires its area again for the new addresses; a
\* request that the entry cannot hold gets an area of the thread's own.
area_cache_get(t) ==
    /\ thr[t].pc = "idle" /\ cacheMutex = {}
    /\ \E w \in Windows :
        LET hits == {i \in DOMAIN cacheList : Hit(cacheList[i], w)}
            c == CacheTail
            win == [w EXCEPT !.off = Align(@, CacheSize[c]), !.size = CacheSize[c]]
            held == cache[c].id # <<>>
            left == IF held THEN nfp_cpp_area_release(c)
                    ELSE [area |-> area[c], bars |-> bar]
            at(pc, a) == [thr EXCEPT ![t] = [pc |-> pc, op |-> "read", win |-> w, a |-> a]]
        IN  \/ /\ hits # {}
               /\ cacheMutex' = {t}
               /\ thr' = at("use", cacheList[Min(hits)])
               /\ UNCHANGED <<bar, area, cache, woken>>
            \/ /\ hits = {} /\ Fits(c, w)
               /\ bar' = left.bars /\ woken' = IF held THEN WakeAll(c) ELSE woken
               /\ cache' = [cache EXCEPT ![c] = [id |-> <<>>, addr |-> win.off]]
               /\ IF AreaInitOK(w)
                  THEN /\ area' = [area EXCEPT ![c] =
                                    [nfp6000_area_init(left.area, win) EXCEPT !.refcount = 1]]
                       /\ cacheMutex' = {t}
                       /\ thr' = at("try", c)
                  ELSE /\ area' = [area EXCEPT ![c] = left.area]
                       /\ thr' = at("own", t)
                       /\ UNCHANGED cacheMutex
            \/ /\ hits = {} /\ ~Fits(c, w)
               /\ thr' = at("own", t)
               /\ UNCHANGED <<bar, area, cache, cacheMutex, woken>>
    /\ UNCHANGED <<cacheList, remapFailed>>

nfp_cpp_area_alloc_acquire(t) ==
    /\ thr[t].pc = "own" /\ BeginOwn(t, thr[t].win)
    /\ UNCHANGED <<bar, cache, cacheList, cacheMutex, woken, remapFailed>>

\* area_cache_put(): the entry becomes the most recently used.
area_cache_put(t) ==
    /\ thr[t].pc = "use" /\ thr[t].a \in Caches
    /\ cacheList' = <<thr[t].a>> \o SelectSeq(cacheList, LAMBDA c : c # thr[t].a)
    /\ cacheMutex' = {} /\ Idle(t)
    /\ UNCHANGED <<bar, area, cache, woken, remapFailed>>

nfp_cpp_area_release_free(t) ==
    LET left == nfp_cpp_area_release(t)
    IN  /\ thr[t].pc = "use" /\ thr[t].a = t
        /\ bar' = left.bars /\ woken' = WakeAll(t)
        /\ area' = [area EXCEPT ![t] = kref_put(left.area)]
        /\ Idle(t)
        /\ UNCHANGED <<cache, cacheList, cacheMutex, remapFailed>>

-----------------------------------------------------------------------------
\* nfp6000_init() adds the entries of the cache, each with an area that waits
\* for its first addresses.
Placeholder(c) == [tgt |-> 7, act |-> RW, tok |-> 0, off |-> 0,
                   size |-> CacheSize[c], rd |-> 4, wr |-> 4]

CacheInit ==
    /\ cache = [c \in Caches |-> [id |-> <<>>, addr |-> 0]]
    /\ cacheList \in {s \in [1 .. Cardinality(Caches) -> Caches] :
                        \A i, j \in DOMAIN s : i # j => s[i] # s[j]}
    /\ cacheMutex = {} /\ woken = {} /\ remapFailed = FALSE

CppInit ==
    /\ bar = enable_bars
    /\ area = [a \in Areas |-> IF a \in Caches
                               THEN nfp_cpp_area_alloc_with_name(Placeholder(a))
                               ELSE NoArea]
    /\ thr = [t \in Threads |-> [pc |-> "idle", op |-> "map", win |-> <<>>, a |-> t]]
    /\ CacheInit

CppBegin(t) == nfp_cpp_map_area(t) \/ area_cache_get(t)

CppContinue(t) ==
    \/ nfp_cpp_area_alloc_acquire(t)
    \/ nfp6000_area_acquire(t) \/ Remapped(t) \/ RemapFails(t)
    \/ Wake(t) \/ Interrupt(t)
    \/ area_cache_put(t) \/ nfp_cpp_area_release_free(t)

CppNext == \E t \in Threads : CppBegin(t) \/ CppContinue(t)

-----------------------------------------------------------------------------
Users(n) == {a \in Areas : area[a].bar = n}

\* The BARs count their users.
CppTypeOK ==
    /\ \A n \in Bars :
        bar[n].refcnt = Cardinality(Users(n)) + (IF n \in ReservedBars THEN 1 ELSE 0)
    /\ cacheMutex \subseteq Threads /\ woken \subseteq Asleep
    /\ \A a \in Areas : area[a].refcount \in {0, 1}

\* A BAR is never pointed elsewhere while an area looks through it: every
\* area that has a BAR sees its own addresses, with its own width, action and
\* token (nfp_alloc_bar, compute_bar, matching_bar).
BarStaysPut ==
    \A a \in Areas : area[a].bar # NoBar =>
        matching_bar(bar, area[a].bar, area[a].win, area[a].width)

\* An area is freed by its owner and by nobody else: it exists, with one
\* reference for its owner and one for having been acquired, as long as it has
\* a BAR.  Nobody acquires an acquired area again: the two ways of doing so
\* count differently (__nfp_cpp_area_acquire, nfp_cpp_area_acquire_nonblocking).
AreaOutlivesUse ==
    \A a \in Areas :
        /\ area[a].kref = (IF area[a].live THEN 1 ELSE 0) + area[a].pref
        /\ area[a].pref = 1 => area[a].bar # NoBar /\ area[a].refcount = 1

\* A valid cache entry has its area acquired at its addresses, and no two
\* threads are in one entry (area_cache_get, area_cache_put).
CacheIsAcquired ==
    /\ Cardinality(cacheMutex) <= 1
    /\ \A t \in Threads : thr[t].a \in Caches /\ thr[t].pc # "idle" => t \in cacheMutex
    /\ \A c \in Caches : cache[c].id # <<>> =>
        /\ area[c].pref = 1 /\ area[c].win.off = cache[c].addr
        /\ cache[c].id = <<area[c].win.tgt, area[c].win.act>>

\* A thread sleeps only while no BAR could serve it: all that would do are in
\* use and none shows its addresses.  Nobody is forgotten when a BAR becomes
\* free, unless the BAR was given back because ioremap() had failed.
NobodyForgotten ==
    \A t \in Asleep \ woken : ~remapFailed =>
        nfp_alloc_bar(bar, area[thr[t].a].win, area[thr[t].a].width).n = EAGAIN

=============================================================================

------------------------------- MODULE MCDev -------------------------------
(***************************************************************************)
(* Access to the chip: the CPP bus through the PCIe BARs, used by two      *)
(* threads of the kernel (CppBus), then by the character device with       *)
(* mappings of user space (DevCpp), and the commands of the service        *)
(* processor (Nsp).                                                        *)
(*                                                                         *)
(* A behaviour is one of the three.  Of three BARs one is reserved, so     *)
(* that the threads compete for two; with the character device one of      *)
(* them is in use for good, so that there is one to evict for.             *)
(***************************************************************************)
EXTENDS DevCpp, Nsp, TLC

VARIABLE part

MCBarBits == [n \in Bars |-> IF n < 2 THEN 2 ELSE 3]
MCCacheSize == [c \in Caches |-> 2]
W(tgt, act, off, size, rd, wr) ==
    [tgt |-> tgt, act |-> act, tok |-> 0, off |-> off, size |-> size,
     rd |-> rd, wr |-> wr]
\* The fifth does not fit in any BAR; the sixth is read and written with
\* different widths.
MCWindows ==
    {W(7, RW, 0, 1, 4, 4), W(7, RW, 5, 1, 4, 4), W(7, RW, 3, 2, 4, 4),
     W(7, 3, 8, 2, 8, 0), W(6, RW, 0, 9, 4, 4), W(5, 1, 0, 1, 4, 8)}
MCCdevWindows == {W(7, RW, 0, 1, 4, 4), W(7, RW, 5, 1, 4, 4)}

\* The other threads have mapped an area for good (as nfp_net_main.c does for
\* the vNICs), so that one BAR is left for the character device.
Held == W(7, 3, 8, 2, 8, 0)
HeldInit ==
    LET got == nfp_alloc_bar(enable_bars, Held, 8)
        t == CHOOSE x \in Threads \ CdevThreads : TRUE
    IN  /\ bar = got.bars
        /\ area = [a \in Areas |->
                    IF a = t THEN [nfp_cpp_area_alloc_with_name(Held) EXCEPT
                                    !.refcount = 1, !.bar = got.n, !.pref = 1, !.kref = 2]
                    ELSE IF a \in Caches THEN nfp_cpp_area_alloc_with_name(Placeholder(a))
                    ELSE NoArea]
        /\ thr = [x \in Threads |-> [pc |-> IF x = t THEN "use" ELSE "idle", op |-> "map",
                                     win |-> IF x = t THEN Held ELSE <<>>, a |-> x]]
        /\ CacheInit

MCInit ==
    /\ part \in {"cpp", "cdev", "nsp"}
    /\ IF part = "cdev" THEN HeldInit ELSE CppInit
    /\ CdevInit /\ NspInit
    /\ part # "nsp" => minor = 8 /\ dmaOrder = 0 /\ sgOK

MCNext ==
    \/ part = "cpp" /\ CppNext /\ UNCHANGED <<devvars, nspvars, part>>
    \/ part = "cdev" /\ DevNext /\ UNCHANGED <<nspvars, part>>
    \/ part = "nsp" /\ NspNext /\ UNCHANGED <<cppvars, devvars, part>>

MCSpec == MCInit /\ [][MCNext]_<<cppvars, devvars, nspvars, part>>

Sym == Permutations(OtherAreas) \cup Permutations(Vmas)

-----------------------------------------------------------------------------
\* Every BAR counts its users and is never pointed elsewhere while it has
\* one, and an area lives as long as somebody looks through it
\* (nfp6000_pcie.c, nfp_cppcore.c).
BusSound == part # "nsp" => CppTypeOK /\ BarStaysPut /\ AreaOutlivesUse

\* A cached area shows the addresses it is filed under, and nobody sleeps for
\* a BAR while one could be had (area_cache_get, nfp_cpp_area_acquire).
BusUsersServed == part # "nsp" => CacheIsAcquired /\ NobodyForgotten

\* Requests of the character device keep an area acquired exactly while a
\* page of it is mapped, and stay apart (nfp_dev_cpp.c).
MappingsSound == part = "cdev" => AttachedIsAcquired /\ RequestsApart

\* The answer a caller of the service processor takes is the answer to the
\* command it sent, its buffer is not given to another while the processor
\* may write to it, and all DMA chunks are unmapped and freed (nfp_nsp.c).
NspSound == part = "nsp" => AnswerIsMine /\ BufferStays /\ ChunksReturned

=============================================================================

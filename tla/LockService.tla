---------------------------- MODULE LockService ----------------------------
(***************************************************************************)
(* What the locks in NFP memory promise to the threads that use them: a    *)
(* lock is granted to a thread only while nobody has it, returned by the   *)
(* thread that has it, and lost by the threads of a host that stops.       *)
(* Nothing is said about lock words, owner ids or the table of resources;  *)
(* Resource shows how the driver keeps the promise with them.              *)
(*                                                                         *)
(* The promise ends (broken) when a host that comes back releases a lock   *)
(* of another host.                                                        *)
(***************************************************************************)
CONSTANTS
    Threads, Locks,
    Interfaces,     \* the hosts
    Host            \* the host of each thread

VARIABLES
    granted,        \* the locks each thread has
    broken          \* the promise has ended

lsvars == <<granted, broken>>

LsInit == granted = [t \in Threads |-> {}] /\ broken = FALSE

Grant(t, l) ==
    /\ broken \/ \A u \in Threads : l \notin granted[u]
    /\ granted' = [granted EXCEPT ![t] = @ \cup {l}]
    /\ UNCHANGED broken

Return(t, l) ==
    /\ l \in granted[t]
    /\ granted' = [granted EXCEPT ![t] = @ \ {l}]
    /\ UNCHANGED broken

Stop(i) ==
    /\ granted' = [t \in Threads |-> IF Host[t] = i THEN {} ELSE granted[t]]
    /\ UNCHANGED broken

Break == broken' = TRUE /\ UNCHANGED granted

LsNext ==
    \/ \E t \in Threads, l \in Locks : Grant(t, l) \/ Return(t, l)
    \/ \E i \in Interfaces : Stop(i)
    \/ Break

LsSpec == LsInit /\ [][LsNext]_lsvars

=============================================================================

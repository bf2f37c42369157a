------------------------------ MODULE Resource ------------------------------
(***************************************************************************)
(* The lock words in NFP memory (nfp_mutex.c) and the table of resources   *)
(* they protect (nfp_resource.c), shared by several interfaces (hosts or   *)
(* endpoints), each with its own threads.  Entry 0 of the table, Dev, is   *)
(* the lock of the table itself.                                           *)
(*                                                                         *)
(* Every access to device memory is one action.  A host may crash or       *)
(* unload the driver at any time, with its locks held; when it comes back  *)
(* nfp_resource_table_init() reclaims what it finds under its own name.    *)
(***************************************************************************)
EXTENDS Integers, FiniteSets

CONSTANTS
    Threads,        \* threads of all hosts
    Interfaces,     \* interface ids, nfp_cpp_interface()
    NoInterface,    \* owner of a word nobody ever locked
    Host,           \* Host[t]: the interface of thread t
    Leader,         \* Leader[i]: the thread of i that probes the device
    Dev,            \* entry 0 of the table
    Resources,      \* the other entries
    Faults,         \* accesses to device memory may fail
    MaxCrashes      \* bound on the crashes of a run

ASSUME ResourceConstants ==
    /\ Host \in [Threads -> Interfaces]
    /\ Leader \in [Interfaces -> Threads]
    /\ \A i \in Interfaces : Host[Leader[i]] = i
    /\ Dev \notin Resources
    /\ NoInterface \notin Interfaces
    /\ Faults \in BOOLEAN
    /\ MaxCrashes \in Nat

Locks == Resources \cup {Dev}

VARIABLES
    word,       \* lock words: owner id and whether the low bits are 0x000f
    state,      \* state of the driver on each interface
    pc,         \* where each thread is
    cur,        \* the lock a thread is working on
    want,       \* the resource it acquires, Dev during table init
    then,       \* where it goes when it has unlocked cur
    holds,      \* locks whose handle has depth 1
    todo,       \* entries table init has still to reclaim
    crashes

\* History variables.
VARIABLES
    misbust,    \* a reclaim released a word another interface had set
    cut         \* words whose setter stopped before it wrote its owner id

locals == <<pc, cur, want, then>>
vars == <<word, state, locals, holds, todo, crashes, misbust, cut>>

\* nfp_mutex_locked() and nfp_mutex_unlocked()
Locked(i)   == [owner |-> i, locked |-> TRUE]
Unlocked(i) == [owner |-> i, locked |-> FALSE]

PcStates == {"idle", "testset", "own", "busy", "sleep", "find", "held",
             "read", "write", "rc_read", "rc_write"}

Init ==
    /\ word = [l \in Locks |-> Unlocked(NoInterface)]
    /\ state = [i \in Interfaces |-> "down"]
    /\ pc = [t \in Threads |-> "idle"]
    /\ cur = [t \in Threads |-> Dev]
    /\ want = [t \in Threads |-> Dev]
    /\ then = [t \in Threads |-> "idle"]
    /\ holds = [t \in Threads |-> {}]
    /\ todo = [i \in Interfaces |-> {}]
    /\ crashes = 0
    /\ misbust = FALSE /\ cut = {}

\* Thread t has lock l, or has set its word and not yet written its owner id.
Takes(t, l) == l \in holds[t] \/ (cur[t] = l /\ pc[t] = "own")

Goto(t, s) == pc' = [pc EXCEPT ![t] = s]

\* Go on with lock l, at step s.
Work(t, l, s) == Goto(t, s) /\ cur' = [cur EXCEPT ![t] = l]

\* Unlock l, then go on at step s.
Release(t, l, s) == Work(t, l, "read") /\ then' = [then EXCEPT ![t] = s]

\* The thread returns with an error; a failed table init fails the probe.
Fail(t) ==
    /\ Goto(t, "idle")
    /\ state' = [state EXCEPT ![Host[t]] = IF want[t] = Dev THEN "down" ELSE @]

-----------------------------------------------------------------------------
(* nfp_resource_acquire() and nfp_resource_release() *)

\* nfp_resource_acquire(): start to lock the table.
Acquire(t, r) ==
    /\ state[Host[t]] = "up"
    /\ pc[t] = "idle"
    /\ Work(t, Dev, "testset")
    /\ want' = [want EXCEPT ![t] = r]
    /\ UNCHANGED <<word, state, then, holds, todo, crashes, misbust, cut>>

\* Mutant: takes the lock whatever the word was.
WasUnlockedAlways(w) == TRUE

\* nfp_mutex_is_unlocked() of the value test_set_imm returned.
WasUnlocked(w) == ~w.locked

\* test_set_imm of nfp_cpp_mutex_trylock().
TestSet(t) ==
    /\ pc[t] = "testset"
    /\ word' = [word EXCEPT ![cur[t]] = Locked(@.owner)]
    /\ Goto(t, IF WasUnlocked(word[cur[t]]) THEN "own" ELSE "busy")
    /\ UNCHANGED <<state, cur, want, then, holds, todo, crashes, misbust, cut>>

\* What a thread does with the table locked.
WithTable(t) == IF want[t] = Dev THEN "rc_read" ELSE "find"

\* nfp_cpp_mutex_trylock() writes its owner id.  With the table locked it goes
\* on to find its resource, or to reclaim; with the resource, to unlock the table.
WriteOwner(t) ==
    /\ pc[t] = "own"
    /\ word' = [word EXCEPT ![cur[t]] = Locked(Host[t])]
    /\ holds' = [holds EXCEPT ![t] = @ \cup {cur[t]}]
    /\ IF cur[t] # Dev THEN Release(t, Dev, "held")
       ELSE /\ Goto(t, WithTable(t))
            /\ UNCHANGED <<cur, then>>
    /\ UNCHANGED <<state, want, todo, crashes, misbust, cut>>

\* The write of the owner id fails: the word stays set.
WriteOwnerFails(t) ==
    /\ Faults
    /\ pc[t] = "own"
    /\ cut' = cut \cup {cur[t]}
    /\ IF cur[t] # Dev THEN Release(t, Dev, "idle") /\ UNCHANGED state
       ELSE Fail(t) /\ UNCHANGED <<cur, then>>
    /\ UNCHANGED <<word, want, holds, todo, crashes, misbust>>

\* -EBUSY of the table lock: sleep, then try again or give up (signal, timeout).
\* -EBUSY of the resource lock: unlock the table first.
Busy(t) ==
    /\ pc[t] = "busy"
    /\ IF cur[t] # Dev THEN Release(t, Dev, "sleep") /\ UNCHANGED state
       ELSE /\ (Goto(t, "testset") /\ UNCHANGED state) \/ Fail(t)
            /\ UNCHANGED <<cur, then>>
    /\ UNCHANGED <<word, want, holds, todo, crashes, misbust, cut>>

\* The sleep of nfp_resource_acquire(), then another try, or its end.
Sleep(t) ==
    /\ pc[t] = "sleep"
    /\ Work(t, Dev, "testset") \/ Work(t, Dev, "idle")
    /\ UNCHANGED <<word, state, want, then, holds, todo, crashes, misbust, cut>>

\* nfp_cpp_resource_find() finds the entry, or -ENOENT.
Find(t) ==
    /\ pc[t] = "find"
    /\ \/ Work(t, want[t], "testset") /\ UNCHANGED then
       \/ Release(t, Dev, "idle")
    /\ UNCHANGED <<word, state, want, holds, todo, crashes, misbust, cut>>

\* nfp_resource_release()
ReleaseResource(t) ==
    /\ pc[t] = "held"
    /\ Release(t, want[t], "idle")
    /\ UNCHANGED <<word, state, want, holds, todo, crashes, misbust, cut>>

\* Where a thread goes after an unlock; the end of table init brings the host up.
Unlock(t) ==
    /\ Goto(t, then[t])
    /\ holds' = [holds EXCEPT ![t] = @ \ {cur[t]}]
    /\ state' = [state EXCEPT ![Host[t]] =
                   IF want[t] = Dev /\ @ = "init" THEN "up" ELSE @]

\* Mutant: compares with the unlocked word.
MayUnlockNever(t) == word[cur[t]] = Unlocked(Host[t])

\* nfp_cpp_mutex_unlock(): the word must be locked by this interface.
MayUnlock(t) == word[cur[t]] = Locked(Host[t])

\* nfp_cpp_mutex_unlock() reads the word; -EACCES is ignored by the callers.
UnlockRead(t) ==
    /\ pc[t] = "read"
    /\ IF MayUnlock(t)
       THEN Goto(t, "write") /\ UNCHANGED <<state, holds>>
       ELSE Unlock(t)
    /\ UNCHANGED <<word, cur, want, then, todo, crashes, misbust, cut>>

\* nfp_cpp_mutex_unlock() writes the unlocked word.
UnlockWrite(t) ==
    /\ pc[t] = "write"
    /\ word' = [word EXCEPT ![cur[t]] = Unlocked(Host[t])]
    /\ Unlock(t)
    /\ UNCHANGED <<cur, want, then, todo, crashes, misbust, cut>>

-----------------------------------------------------------------------------
(* nfp_resource_table_init() *)

\* The start of table init: reclaim the lock of the table.
TableInit(i) ==
    /\ state[i] = "down"
    /\ state' = [state EXCEPT ![i] = "init"]
    /\ todo' = [todo EXCEPT ![i] = Locks]
    /\ Work(Leader[i], Dev, "rc_read")
    /\ want' = [want EXCEPT ![Leader[i]] = Dev]
    /\ UNCHANGED <<word, then, holds, crashes, misbust, cut>>

\* The next entry to reclaim: the table's own lock first, without holding it.
NextEntry(i) == IF Dev \in todo[i] THEN {Dev} ELSE todo[i]

\* Entry l is done: after the table's lock comes locking it, after the last
\* entry unlocking it.
Reclaimed(t, l) ==
    /\ todo' = [todo EXCEPT ![Host[t]] = @ \ {l}]
    /\ IF l = Dev THEN Work(t, Dev, "testset") /\ UNCHANGED then
       ELSE IF todo[Host[t]] = {l} THEN Release(t, Dev, "idle")
       ELSE Work(t, l, "rc_read") /\ UNCHANGED then

\* Mutant: releases nothing.
ReclaimableNone(t, l) == FALSE

\* The test of nfp_cpp_mutex_reclaim(): locked, and our interface is the owner.
Reclaimable(t, l) == word[l].locked /\ word[l].owner = Host[t]

\* nfp_cpp_mutex_reclaim() reads the word.
ReclaimRead(t) ==
    /\ pc[t] = "rc_read"
    /\ \E l \in NextEntry(Host[t]) :
         IF Reclaimable(t, l)
         THEN Work(t, l, "rc_write") /\ UNCHANGED <<then, todo>>
         ELSE Reclaimed(t, l)
    /\ UNCHANGED <<word, state, want, holds, crashes, misbust, cut>>

TakenByOther(t, l) == \E u \in Threads : Host[u] # Host[t] /\ Takes(u, l)

\* nfp_cpp_mutex_reclaim() busts the lock.
ReclaimWrite(t) ==
    /\ pc[t] = "rc_write"
    /\ word' = [word EXCEPT ![cur[t]] = Unlocked(Host[t])]
    /\ misbust' = (misbust \/ TakenByOther(t, cur[t]))
    /\ Reclaimed(t, cur[t])
    /\ UNCHANGED <<state, want, holds, crashes, cut>>

-----------------------------------------------------------------------------

\* Host i stops: its threads and handles are gone, the lock words stay.
Crash(i) ==
    LET mine == {t \in Threads : Host[t] = i} IN
    /\ crashes < MaxCrashes
    /\ state[i] # "down"
    /\ state' = [state EXCEPT ![i] = "down"]
    /\ pc' = [t \in Threads |-> IF t \in mine THEN "idle" ELSE pc[t]]
    /\ cur' = [t \in Threads |-> IF t \in mine THEN Dev ELSE cur[t]]
    /\ holds' = [t \in Threads |-> IF t \in mine THEN {} ELSE holds[t]]
    /\ todo' = [todo EXCEPT ![i] = {}]
    /\ cut' = cut \cup {cur[t] : t \in {t \in mine : pc[t] = "own"}}
    /\ crashes' = crashes + 1
    /\ UNCHANGED <<word, want, then, misbust>>

ThreadStep(t) ==
    \/ TestSet(t) \/ WriteOwner(t) \/ WriteOwnerFails(t) \/ Busy(t) \/ Sleep(t)
    \/ Find(t) \/ ReleaseResource(t) \/ UnlockRead(t) \/ UnlockWrite(t)
    \/ ReclaimRead(t) \/ ReclaimWrite(t)

Next ==
    \/ \E t \in Threads : ThreadStep(t) \/ \E r \in Resources : Acquire(t, r)
    \/ \E i \in Interfaces : TableInit(i) \/ Crash(i)

Spec == Init /\ [][Next]_vars

\* Runnable threads run, and their device accesses complete.
Fairness == \A t \in Threads : WF_vars(ThreadStep(t))

FairSpec == Spec /\ Fairness

-----------------------------------------------------------------------------
(* Properties. *)

TypeOK ==
    /\ word \in [Locks -> [owner : Interfaces \cup {NoInterface}, locked : BOOLEAN]]
    /\ state \in [Interfaces -> {"down", "init", "up"}]
    /\ pc \in [Threads -> PcStates]
    /\ cur \in [Threads -> Locks]
    /\ want \in [Threads -> Locks]
    /\ \A t \in Threads : pc[t] \in {"find", "sleep", "held"} => want[t] # Dev
    /\ then \in [Threads -> {"idle", "held", "sleep"}]
    /\ holds \in [Threads -> SUBSET Locks]
    /\ todo \in [Interfaces -> SUBSET Locks]
    /\ crashes \in 0 .. MaxCrashes
    /\ misbust \in BOOLEAN
    /\ cut \subseteq Locks

MutualExclusion ==
    \A t, u \in Threads : t # u => holds[t] \cap holds[u] = {}

(* No two threads, of one host or of two, have the same lock, even when    *)
(* hosts crash with locks held and reclaim them when they come back,       *)
(* unless a reclaim has met a word between test_set_imm and its owner.     *)
ExclusiveUnlessMisbust == MutualExclusion \/ misbust

(* "Unlock mutex if held by local endpoint": a reclaim never releases a    *)
(* lock that another interface is taking or has taken.                     *)
ReclaimOnlyOwn == ~misbust

(* Once table init is over no lock of the host is left over from before    *)
(* its crash: each word in its name is held or being taken by a thread,    *)
(* unless one was left without the owner id of the thread that set it.     *)
NothingLeftOver ==
    \A i \in Interfaces, l \in Locks :
        state[i] = "up" /\ word[l] = Locked(i) =>
            \/ misbust \/ cut # {}
            \/ \E t \in Threads : Takes(t, l)

(* The lock of the table is given back again and again, so that no host is *)
(* shut out of all resources by others that wait for one; it stays set     *)
(* only if its owner never comes back, its word was left without the owner *)
(* id of the thread that set it, or a reclaim released another's lock.     *)
TableLockReturns ==
    \/ []<>~word[Dev].locked
    \/ <>[](cut # {} \/ misbust \/ \E i \in Interfaces : word[Dev].owner = i /\ state[i] = "down")

-----------------------------------------------------------------------------
(***************************************************************************)
(* The lock words implement LockService: a thread has the locks whose      *)
(* handle has depth 1, and the promise ends with a reclaim that releases a *)
(* lock another interface is taking.                                       *)
(***************************************************************************)
Abstract == INSTANCE LockService WITH granted <- holds, broken <- misbust

(* Every step of the trylock, unlock and reclaim code is a step of the     *)
(* lock service, or changes nothing that it knows of.                      *)
ImplementsLockService == Abstract!LsSpec

=============================================================================

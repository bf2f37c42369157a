---------------------------- MODULE ReconfigProof ----------------------------
(***************************************************************************)
(* Proofs about Reconfig for any number of callers and any set of bits.    *)
(***************************************************************************)
EXTENDS Reconfig, TLAPS

Inflight == ~Done /\ ~overdue

\* Who may be inside: the holder of the semaphore, or removal, alone.
BarInv ==
    /\ \A c \in Callers : c # Cleaner /\ pc[c] # "idle" => bar_lock = c
    /\ phase = "up" => pc[Cleaner] = "idle"
    /\ phase # "up" => \A c \in Callers : c # Cleaner => pc[c] = "idle"

SyncFlag == reconfig_sync_present <=> \E c \in Callers : pc[c] \in SyncStates

\* A synchronous caller has taken over from the timer.
TakenOver == reconfig_sync_present => ~reconfig_timer_active

\* Unless the handler ran for a re-armed timer, whoever may start a request
\* knows that none is in flight.
InflightInv ==
    ~stale =>
        /\ clobbered = {}
        /\ Inflight =>
             /\ \A c \in Callers :
                   pc[c] \notin {"start_pre", "start", "finish", "leave"}
             /\ ~reconfig_sync_present =>
                   /\ reconfig_timer_active
                   /\ timer_running => timer_pending
        /\ timer_pending =>
             reconfig_timer_active \/ \E c \in Callers : pc[c] = "cancel"

\* What a synchronous caller knows of its own request.
OwnInv ==
    \A c \in Callers :
        /\ pc[c] # "idle" /\ c # Cleaner => req[c] # {}
        /\ pc[c] = "wait_own" =>
             update = req[c] \/ (update = {} /\ ~update_err /\ served = req[c])
        /\ pc[c] = "finish" /\ ret[c] = "ok" =>
             update = {} /\ ~update_err /\ served = req[c]

\* A caller past its deadline found the request given its full time.
LateInv ==
    \A c \in Callers : late[c] => pc[c] \in WaitStates /\ ~Inflight

\* Once removal has collected the posted requests nothing is posted again.
DownInv ==
    phase # "up" /\ pc[Cleaner] # "enter" =>
        reconfig_posted = {} /\ ~reconfig_timer_active

DownPc == pc[Cleaner] = "free" \/ phase = "freed" =>
            /\ phase # "up"
            /\ pc[Cleaner] \in {"free", "idle"}

IInv == TypeOK /\ BarInv /\ SyncFlag /\ TakenOver /\ InflightInv /\ OwnInv
        /\ LateInv /\ DownInv /\ DownPc

-----------------------------------------------------------------------------

USE DEF word, soft, timer, caller, Callers, CheckDone, MayStart, TimerKicks, BarFree,
        PrePosted, WaitResult, SyncKicks

\* TypeOK in three parts: what all share, the locals of callers, and their places.
SharedTypes ==
    /\ update \in SUBSET Bits /\ update_err \in BOOLEAN
    /\ reconfig_posted \in SUBSET Bits
    /\ reconfig_timer_active \in BOOLEAN /\ reconfig_sync_present \in BOOLEAN
    /\ timer_pending \in BOOLEAN /\ timer_running \in BOOLEAN
    /\ bar_lock \in Callers \cup {NoOne}
    /\ phase \in {"up", "down", "freed"}
    /\ overdue \in BOOLEAN /\ stale \in BOOLEAN
    /\ served \in SUBSET Bits /\ clobbered \in SUBSET Bits

LocalTypes ==
    /\ req \in [Callers -> SUBSET Bits] /\ pre \in [Callers -> SUBSET Bits]
    /\ late \in [Callers -> BOOLEAN] /\ ret \in [Callers -> {"ok", "err"}]

PcTypes ==
    /\ pc \in [Callers -> PcStates]
    /\ \A c \in Callers : pc[c] \in PcStatesOf(c)

LEMMA TypesSplit == (SharedTypes /\ LocalTypes /\ PcTypes => TypeOK)'
BY Zenon DEF TypeOK, SharedTypes, LocalTypes, PcTypes

\* Where a wait leads: only a caller that waited for its own request finishes.
LEMMA AfterWaitFacts ==
    ASSUME TypeOK, NEW c \in Callers, pc[c] \in WaitStates
    PROVE  /\ AfterWait(c) \in {"start_pre", "start", "leave", "finish"}
           /\ AfterWait(c) \in PcStatesOf(c)
           /\ AfterWait(c) = "finish" => pc[c] = "wait_own"
BY ReconfigConstants
   DEF AfterWait, AfterEnter, TypeOK, WaitStates, SyncStates, PcStates, PcStatesOf

\* The body of nfp_net_reconfig_post() keeps the types of what it writes.
LEMMA PostBodyType ==
    ASSUME TypeOK, NEW u \in SUBSET Bits, PostBody(u)
    PROVE  /\ update' \in SUBSET Bits /\ update_err' \in BOOLEAN
           /\ reconfig_posted' \in SUBSET Bits
           /\ reconfig_timer_active' \in BOOLEAN
           /\ reconfig_sync_present' \in BOOLEAN
           /\ timer_pending' \in BOOLEAN /\ timer_running' \in BOOLEAN
           /\ overdue' \in BOOLEAN
           /\ served' \in SUBSET Bits
           /\ clobbered' \in SUBSET Bits
<1>1. CASE ~reconfig_sync_present /\ (~reconfig_timer_active \/ Done)
  BY ZenonT(30), <1>1 DEF PostBody, ReconfigStartAsync, ReconfigStart, TypeOK
<1>2. CASE ~(~reconfig_sync_present /\ (~reconfig_timer_active \/ Done))
  BY <1>2 DEF PostBody, TypeOK
<1>. QED  BY <1>1, <1>2

\* The firmware's acknowledgement preserves the invariant.
LEMMA FwAckStep ==
    ASSUME IInv, FwAck
    PROVE  IInv'
<1>. USE ReconfigConstants DEF IInv, FwAck
<1>1. TypeOK'
  <2>1. SharedTypes'
    BY DEF TypeOK, SharedTypes
  <2>2. LocalTypes'
    BY DEF TypeOK, LocalTypes
  <2>3. PcTypes'
    BY ZenonT(30) DEF TypeOK, PcTypes, WaitStates, SyncStates, PcStates, PcStatesOf
  <2>. QED  BY <2>1, <2>2, <2>3, TypesSplit
<1>2. BarInv'
  BY DEF WaitStates, SyncStates, PcStates, PcStatesOf, TypeOK, BarInv
<1>3. SyncFlag'
  BY DEF WaitStates, SyncStates, PcStates, PcStatesOf, TypeOK, BarInv, SyncFlag
<1>4. TakenOver'
  BY DEF TakenOver
<1>5. InflightInv'
  BY DEF WaitStates, SyncStates, TypeOK, BarInv, SyncFlag, TakenOver,
         InflightInv, LateInv, Inflight, Done
<1>6. OwnInv'
  BY DEF WaitStates, SyncStates, TypeOK, BarInv, SyncFlag, OwnInv, Done
<1>7. LateInv'
  BY DEF WaitStates, SyncStates, TypeOK, BarInv, SyncFlag, LateInv, Inflight,
         Done
<1>8. DownInv'
  BY DEF WaitStates, SyncStates, PcStates, PcStatesOf, TypeOK, BarInv,
         DownInv, DownPc
<1>9. DownPc'
  BY DEF WaitStates, SyncStates, PcStates, PcStatesOf, TypeOK, BarInv, DownPc
<1>. QED  BY <1>1, <1>2, <1>3, <1>4, <1>5, <1>6, <1>7, <1>8, <1>9

\* The firmware's error report preserves the invariant.
LEMMA FwErrorStep ==
    ASSUME IInv, FwError
    PROVE  IInv'
<1>. USE ReconfigConstants DEF IInv, FwError
<1>1. TypeOK'
  <2>1. SharedTypes'
    BY DEF TypeOK, SharedTypes
  <2>2. LocalTypes'
    BY DEF TypeOK, LocalTypes
  <2>3. PcTypes'
    BY ZenonT(30) DEF TypeOK, PcTypes, WaitStates, SyncStates, PcStates, PcStatesOf
  <2>. QED  BY <2>1, <2>2, <2>3, TypesSplit
<1>2. BarInv'
  BY DEF WaitStates, SyncStates, PcStates, PcStatesOf, TypeOK, BarInv
<1>3. SyncFlag'
  BY DEF WaitStates, SyncStates, PcStates, PcStatesOf, TypeOK, BarInv, SyncFlag
<1>4. TakenOver'
  BY DEF TakenOver
<1>5. InflightInv'
  BY DEF WaitStates, SyncStates, TypeOK, BarInv, SyncFlag, TakenOver,
         InflightInv, LateInv, Inflight, Done
<1>6. OwnInv'
  BY DEF WaitStates, SyncStates, TypeOK, BarInv, SyncFlag, OwnInv, Done
<1>7. LateInv'
  BY DEF WaitStates, SyncStates, TypeOK, BarInv, SyncFlag, LateInv, Inflight,
         Done
<1>8. DownInv'
  BY DEF WaitStates, SyncStates, PcStates, PcStatesOf, TypeOK, BarInv,
         DownInv, DownPc
<1>9. DownPc'
  BY DEF WaitStates, SyncStates, PcStates, PcStatesOf, TypeOK, BarInv, DownPc
<1>. QED  BY <1>1, <1>2, <1>3, <1>4, <1>5, <1>6, <1>7, <1>8, <1>9

\* Entering the timer handler preserves the invariant.
LEMMA TimerExpireStep ==
    ASSUME IInv, TimerExpire
    PROVE  IInv'
<1>. USE ReconfigConstants DEF IInv, TimerExpire
<1>1. TypeOK'
  <2>1. SharedTypes'
    BY ZenonT(30) DEF TypeOK, SharedTypes
  <2>2. LocalTypes'
    BY DEF TypeOK, LocalTypes
  <2>3. PcTypes'
    BY ZenonT(30) DEF TypeOK, PcTypes, WaitStates, SyncStates, PcStates, PcStatesOf
  <2>. QED  BY <2>1, <2>2, <2>3, TypesSplit
<1>2. BarInv'
  BY DEF WaitStates, SyncStates, PcStates, PcStatesOf, TypeOK, BarInv
<1>3. SyncFlag'
  BY DEF WaitStates, SyncStates, PcStates, PcStatesOf, TypeOK, BarInv, SyncFlag
<1>4. TakenOver'
  BY DEF TakenOver
<1>5. InflightInv'
  BY DEF WaitStates, SyncStates, TypeOK, BarInv, SyncFlag, TakenOver,
         InflightInv, LateInv, Inflight, Done
<1>6. OwnInv'
  BY DEF WaitStates, SyncStates, TypeOK, BarInv, SyncFlag, OwnInv, Done
<1>7. LateInv'
  BY DEF WaitStates, SyncStates, TypeOK, BarInv, SyncFlag, LateInv, Inflight,
         Done
<1>8. DownInv'
  BY DEF WaitStates, SyncStates, PcStates, PcStatesOf, TypeOK, BarInv,
         DownInv, DownPc
<1>9. DownPc'
  BY DEF WaitStates, SyncStates, PcStates, PcStatesOf, TypeOK, BarInv, DownPc
<1>. QED  BY <1>1, <1>2, <1>3, <1>4, <1>5, <1>6, <1>7, <1>8, <1>9

\* nfp_net_reconfig_timer() preserves the invariant.
LEMMA ReconfigTimerStep ==
    ASSUME IInv, ReconfigTimer
    PROVE  IInv'
<1>. USE ReconfigConstants DEF IInv, ReconfigTimer, ReconfigStartAsync, ReconfigStart
<1>1. TypeOK'
  <2>1. SharedTypes'
    BY ZenonT(30) DEF TypeOK, SharedTypes
  <2>2. LocalTypes'
    BY DEF TypeOK, LocalTypes
  <2>3. PcTypes'
    BY DEF TypeOK, PcTypes, WaitStates, SyncStates, PcStates, PcStatesOf
  <2>. QED  BY <2>1, <2>2, <2>3, TypesSplit
<1>2. BarInv'
  BY DEF WaitStates, SyncStates, PcStates, PcStatesOf, TypeOK, BarInv
<1>3. SyncFlag'
  BY DEF WaitStates, SyncStates, PcStates, PcStatesOf, TypeOK, BarInv, SyncFlag
<1>4. TakenOver'
  BY DEF TakenOver
<1>5. InflightInv'
  BY DEF WaitStates, SyncStates, TypeOK, BarInv, SyncFlag, TakenOver,
         InflightInv, LateInv, Inflight, Done
<1>6. OwnInv'
  BY DEF WaitStates, SyncStates, TypeOK, BarInv, SyncFlag, OwnInv, Done
<1>7. LateInv'
  BY DEF WaitStates, SyncStates, TypeOK, BarInv, SyncFlag, LateInv, Inflight,
         Done
<1>8. DownInv'
  BY DEF WaitStates, SyncStates, PcStates, PcStatesOf, TypeOK, BarInv,
         DownInv, DownPc
<1>9. DownPc'
  BY DEF WaitStates, SyncStates, PcStates, PcStatesOf, TypeOK, BarInv, DownPc
<1>. QED  BY <1>1, <1>2, <1>3, <1>4, <1>5, <1>6, <1>7, <1>8, <1>9

\* nfp_net_reconfig_post() preserves the invariant.
LEMMA ReconfigPostStep ==
    ASSUME IInv, NEW b \in Bits, ReconfigPost({b})
    PROVE  IInv'
<1>. USE ReconfigConstants DEF IInv, ReconfigPost, PostBody, ReconfigStartAsync, ReconfigStart
<1>1. TypeOK'
  <2>1. {b} \in SUBSET Bits
    OBVIOUS
  <2>. HIDE DEF PostBody
  <2>. QED  BY <2>1, PostBodyType DEF TypeOK
<1>2. BarInv'
  BY DEF WaitStates, SyncStates, PcStates, PcStatesOf, TypeOK, BarInv
<1>3. SyncFlag'
  BY DEF WaitStates, SyncStates, PcStates, PcStatesOf, TypeOK, BarInv, SyncFlag
<1>4. TakenOver'
  BY ZenonT(30) DEF TakenOver
<1>5. InflightInv'
  BY DEF WaitStates, SyncStates, TypeOK, BarInv, SyncFlag, TakenOver,
         InflightInv, LateInv, Inflight, Done
<1>6. OwnInv'
  BY DEF WaitStates, SyncStates, TypeOK, BarInv, SyncFlag, OwnInv, Done
<1>7. LateInv'
  BY DEF WaitStates, SyncStates, TypeOK, BarInv, SyncFlag, LateInv, Inflight,
         Done
<1>8. DownInv'
  BY DEF WaitStates, SyncStates, PcStates, PcStatesOf, TypeOK, BarInv,
         DownInv, DownPc
<1>9. DownPc'
  BY DEF WaitStates, SyncStates, PcStates, PcStatesOf, TypeOK, BarInv, DownPc
<1>. QED  BY <1>1, <1>2, <1>3, <1>4, <1>5, <1>6, <1>7, <1>8, <1>9

\* nn_ctrl_bar_lock() preserves the invariant.
LEMMA BarLockStep ==
    ASSUME IInv, NEW c \in Callers, NEW b \in Bits, BarLock(c, {b})
    PROVE  IInv'
<1>. USE ReconfigConstants DEF IInv, BarLock, Goto
<1>1. TypeOK'
  <2>1. SharedTypes'
    BY DEF TypeOK, SharedTypes
  <2>2. LocalTypes'
    BY DEF TypeOK, LocalTypes
  <2>3. PcTypes'
    BY DEF TypeOK, PcTypes, WaitStates, SyncStates, PcStates, PcStatesOf
  <2>. QED  BY <2>1, <2>2, <2>3, TypesSplit
<1>2. BarInv'
  BY DEF WaitStates, SyncStates, PcStates, PcStatesOf, TypeOK, BarInv
<1>3. SyncFlag'
  BY DEF WaitStates, SyncStates, PcStates, PcStatesOf, TypeOK, BarInv, SyncFlag
<1>4. TakenOver'
  BY DEF TakenOver
<1>5. InflightInv'
  BY DEF WaitStates, SyncStates, TypeOK, BarInv, SyncFlag, TakenOver,
         InflightInv, LateInv, Inflight, Done
<1>6. OwnInv'
  BY DEF WaitStates, SyncStates, TypeOK, BarInv, SyncFlag, OwnInv, Done
<1>7. LateInv'
  BY DEF WaitStates, SyncStates, TypeOK, BarInv, SyncFlag, LateInv, Inflight,
         Done
<1>8. DownInv'
  BY DEF WaitStates, SyncStates, PcStates, PcStatesOf, TypeOK, BarInv,
         DownInv, DownPc
<1>9. DownPc'
  BY DEF WaitStates, SyncStates, PcStates, PcStatesOf, TypeOK, BarInv, DownPc
<1>. QED  BY <1>1, <1>2, <1>3, <1>4, <1>5, <1>6, <1>7, <1>8, <1>9

\* nn_ctrl_bar_trylock() preserves the invariant.
LEMMA BarTrylockStep ==
    ASSUME IInv, NEW c \in Callers, NEW b \in Bits, BarTrylock(c, {b})
    PROVE  IInv'
<1>. USE ReconfigConstants DEF IInv, BarTrylock, Goto
<1>1. TypeOK'
  <2>1. SharedTypes'
    BY DEF TypeOK, SharedTypes
  <2>2. LocalTypes'
    BY DEF TypeOK, LocalTypes
  <2>3. PcTypes'
    BY ZenonT(30) DEF TypeOK, PcTypes, WaitStates, SyncStates, PcStates, PcStatesOf
  <2>. QED  BY <2>1, <2>2, <2>3, TypesSplit
<1>2. BarInv'
  BY DEF WaitStates, SyncStates, PcStates, PcStatesOf, TypeOK, BarInv
<1>3. SyncFlag'
  BY DEF WaitStates, SyncStates, PcStates, PcStatesOf, TypeOK, BarInv, SyncFlag
<1>4. TakenOver'
  BY DEF TakenOver
<1>5. InflightInv'
  BY DEF WaitStates, SyncStates, TypeOK, BarInv, SyncFlag, TakenOver,
         InflightInv, LateInv, Inflight, Done
<1>6. OwnInv'
  BY DEF WaitStates, SyncStates, TypeOK, BarInv, SyncFlag, OwnInv, Done
<1>7. LateInv'
  BY DEF WaitStates, SyncStates, TypeOK, BarInv, SyncFlag, LateInv, Inflight,
         Done
<1>8. DownInv'
  BY DEF WaitStates, SyncStates, PcStates, PcStatesOf, TypeOK, BarInv,
         DownInv, DownPc
<1>9. DownPc'
  BY DEF WaitStates, SyncStates, PcStates, PcStatesOf, TypeOK, BarInv, DownPc
<1>. QED  BY <1>1, <1>2, <1>3, <1>4, <1>5, <1>6, <1>7, <1>8, <1>9

\* nfp_net_mbox_reconfig_post() preserves the invariant.
LEMMA MboxReconfigPostStep ==
    ASSUME IInv, NEW c \in Callers, MboxReconfigPost(c)
    PROVE  IInv'
<1>. USE ReconfigConstants DEF IInv, MboxReconfigPost, PostBody, ReconfigStartAsync, ReconfigStart, Goto
<1>1. TypeOK'
  <2>1. req[c] \in SUBSET Bits
    BY DEF TypeOK
  <2>. HIDE DEF PostBody
  <2>. QED  BY ZenonT(30), <2>1, PostBodyType DEF WaitStates, SyncStates, PcStates, PcStatesOf, TypeOK
<1>2. BarInv'
  BY DEF WaitStates, SyncStates, PcStates, PcStatesOf, TypeOK, BarInv
<1>3. SyncFlag'
  BY DEF WaitStates, SyncStates, PcStates, PcStatesOf, TypeOK, BarInv, SyncFlag
<1>4. TakenOver'
  BY ZenonT(30) DEF TakenOver
<1>5. InflightInv'
  BY DEF WaitStates, SyncStates, TypeOK, BarInv, SyncFlag, TakenOver,
         InflightInv, LateInv, Inflight, Done
<1>6. OwnInv'
  BY DEF WaitStates, SyncStates, TypeOK, BarInv, SyncFlag, OwnInv, Done
<1>7. LateInv'
  BY DEF WaitStates, SyncStates, TypeOK, BarInv, SyncFlag, LateInv, Inflight,
         Done
<1>8. DownInv'
  BY DEF WaitStates, SyncStates, PcStates, PcStatesOf, TypeOK, BarInv,
         DownInv, DownPc
<1>9. DownPc'
  BY DEF WaitStates, SyncStates, PcStates, PcStatesOf, TypeOK, BarInv, DownPc
<1>. QED  BY <1>1, <1>2, <1>3, <1>4, <1>5, <1>6, <1>7, <1>8, <1>9

\* nfp_net_reconfig_sync_enter() preserves the invariant.
LEMMA SyncEnterStep ==
    ASSUME IInv, NEW c \in Callers, SyncEnter(c)
    PROVE  IInv'
<1>. USE ReconfigConstants DEF IInv, SyncEnter, AfterEnter, Goto
<1>1. TypeOK'
  <2>1. pc'[c] \in PcStatesOf(c) /\ pc'[c] \in PcStates
    BY DEF WaitStates, SyncStates, PcStates, PcStatesOf, TypeOK
  <2>2. pc' \in [Callers -> PcStates] /\ \A d \in Callers : pc'[d] \in PcStatesOf(d)
    BY <2>1 DEF TypeOK
  <2>. QED  BY ZenonT(30), <2>2 DEF TypeOK
<1>2. BarInv'
  BY DEF WaitStates, SyncStates, PcStates, PcStatesOf, TypeOK, BarInv
<1>3. SyncFlag'
  BY DEF WaitStates, SyncStates, PcStates, PcStatesOf, TypeOK, BarInv, SyncFlag
<1>4. TakenOver'
  BY DEF TakenOver
<1>5. InflightInv'
  BY DEF WaitStates, SyncStates, TypeOK, BarInv, SyncFlag, TakenOver,
         InflightInv, LateInv, Inflight, Done
<1>6. OwnInv'
  BY DEF WaitStates, SyncStates, TypeOK, BarInv, SyncFlag, OwnInv, Done
<1>7. LateInv'
  BY DEF WaitStates, SyncStates, TypeOK, BarInv, SyncFlag, LateInv, Inflight,
         Done
<1>8. DownInv'
  BY DEF WaitStates, SyncStates, PcStates, PcStatesOf, TypeOK, BarInv,
         DownInv, DownPc
<1>9. DownPc'
  BY DEF WaitStates, SyncStates, PcStates, PcStatesOf, TypeOK, BarInv, DownPc
<1>. QED  BY <1>1, <1>2, <1>3, <1>4, <1>5, <1>6, <1>7, <1>8, <1>9

\* timer_delete_sync() preserves the invariant.
LEMMA TimerDeleteSyncStep ==
    ASSUME IInv, NEW c \in Callers, TimerDeleteSync(c)
    PROVE  IInv'
<1>. USE ReconfigConstants DEF IInv, TimerDeleteSync, Goto
<1>1. TypeOK'
  <2>1. SharedTypes'
    BY ZenonT(30) DEF TypeOK, SharedTypes
  <2>2. LocalTypes'
    BY DEF TypeOK, LocalTypes
  <2>3. PcTypes'
    BY ZenonT(30) DEF TypeOK, PcTypes, WaitStates, SyncStates, PcStates, PcStatesOf
  <2>. QED  BY <2>1, <2>2, <2>3, TypesSplit
<1>2. BarInv'
  BY DEF WaitStates, SyncStates, PcStates, PcStatesOf, TypeOK, BarInv
<1>3. SyncFlag'
  BY DEF WaitStates, SyncStates, PcStates, PcStatesOf, TypeOK, BarInv, SyncFlag
<1>4. TakenOver'
  BY DEF TakenOver
<1>5. InflightInv'
  BY ZenonT(30) DEF WaitStates, SyncStates, TypeOK, BarInv, SyncFlag, TakenOver,
         InflightInv, LateInv, Inflight, Done
<1>6. OwnInv'
  BY DEF WaitStates, SyncStates, TypeOK, BarInv, SyncFlag, OwnInv, Done
<1>7. LateInv'
  BY DEF WaitStates, SyncStates, TypeOK, BarInv, SyncFlag, LateInv, Inflight,
         Done
<1>8. DownInv'
  BY DEF WaitStates, SyncStates, PcStates, PcStatesOf, TypeOK, BarInv,
         DownInv, DownPc
<1>9. DownPc'
  BY DEF WaitStates, SyncStates, PcStates, PcStatesOf, TypeOK, BarInv, DownPc
<1>. QED  BY <1>1, <1>2, <1>3, <1>4, <1>5, <1>6, <1>7, <1>8, <1>9

\* An answered wait preserves the invariant.
LEMMA WaitDoneStep ==
    ASSUME IInv, NEW c \in Callers, WaitDone(c)
    PROVE  IInv'
<1>. USE ReconfigConstants DEF IInv, WaitDone, AfterWait, AfterEnter, Goto
<1>1. TypeOK'
  <2>. HIDE DEF AfterWait
  <2>1. AfterWait(c) \in PcStatesOf(c) /\ AfterWait(c) \in PcStates
    BY AfterWaitFacts DEF WaitStates, SyncStates, PcStates
  <2>2. pc' \in [Callers -> PcStates] /\ \A d \in Callers : pc'[d] \in PcStatesOf(d)
    BY <2>1 DEF TypeOK
  <2>3. SharedTypes'
    BY DEF TypeOK, SharedTypes
  <2>4. LocalTypes'
    BY DEF TypeOK, LocalTypes
  <2>. QED  BY <2>2, <2>3, <2>4, TypesSplit DEF PcTypes
<1>2. BarInv'
  BY DEF WaitStates, SyncStates, PcStates, PcStatesOf, TypeOK, BarInv
<1>3. SyncFlag'
  BY DEF WaitStates, SyncStates, PcStates, PcStatesOf, TypeOK, BarInv, SyncFlag
<1>4. TakenOver'
  BY DEF TakenOver
<1>5. InflightInv'
  <2>. HIDE DEF AfterWait
  <2>. QED  BY ZenonT(30), AfterWaitFacts
    DEF WaitStates, SyncStates, TypeOK, BarInv, SyncFlag, TakenOver,
         InflightInv, LateInv, Inflight, Done
<1>6. OwnInv'
  <2>. HIDE DEF AfterWait
  <2>1. pc'[c] # "wait_own" /\ pc[c] # "idle" /\ req' = req
    BY ZenonT(30), AfterWaitFacts DEF WaitStates, TypeOK
  <2>2. ASSUME pc'[c] = "finish", ret'[c] = "ok"
        PROVE  update' = {} /\ ~update_err' /\ served' = req[c]
    <3>1. pc[c] = "wait_own" /\ ~update_err /\ update = {}
      BY ZenonT(30), <2>2, AfterWaitFacts DEF Done, TypeOK
    <3>2. c # Cleaner
      BY ZenonT(30), <3>1 DEF TypeOK, PcStatesOf, PcStates
    <3>. QED  BY ZenonT(30), <3>1, <3>2, <2>1 DEF OwnInv
  <2>3. \A d \in Callers : d # c => pc'[d] = pc[d] /\ ret'[d] = ret[d]
    BY DEF TypeOK
  <2>. QED  BY ZenonT(60), <2>1, <2>2, <2>3 DEF OwnInv
<1>7. LateInv'
  BY DEF WaitStates, SyncStates, TypeOK, BarInv, SyncFlag, LateInv, Inflight,
         Done
<1>8. DownInv'
  BY DEF WaitStates, SyncStates, PcStates, PcStatesOf, TypeOK, BarInv,
         DownInv, DownPc
<1>9. DownPc'
  BY DEF WaitStates, SyncStates, PcStates, PcStatesOf, TypeOK, BarInv, DownPc
<1>. QED  BY <1>1, <1>2, <1>3, <1>4, <1>5, <1>6, <1>7, <1>8, <1>9

\* A deadline reached preserves the invariant.
LEMMA WaitDeadlineStep ==
    ASSUME IInv, NEW c \in Callers, WaitDeadline(c)
    PROVE  IInv'
<1>. USE ReconfigConstants DEF IInv, WaitDeadline
<1>1. TypeOK'
  <2>1. SharedTypes'
    BY DEF TypeOK, SharedTypes
  <2>2. LocalTypes'
    BY DEF TypeOK, LocalTypes
  <2>3. PcTypes'
    BY ZenonT(30) DEF TypeOK, PcTypes, WaitStates, SyncStates, PcStates, PcStatesOf
  <2>. QED  BY <2>1, <2>2, <2>3, TypesSplit
<1>2. BarInv'
  BY DEF WaitStates, SyncStates, PcStates, PcStatesOf, TypeOK, BarInv
<1>3. SyncFlag'
  BY DEF WaitStates, SyncStates, PcStates, PcStatesOf, TypeOK, BarInv, SyncFlag
<1>4. TakenOver'
  BY DEF TakenOver
<1>5. InflightInv'
  BY ZenonT(30) DEF WaitStates, SyncStates, TypeOK, BarInv, SyncFlag, TakenOver,
         InflightInv, LateInv, Inflight, Done
<1>6. OwnInv'
  BY ZenonT(30) DEF WaitStates, SyncStates, TypeOK, BarInv, SyncFlag, OwnInv, Done
<1>7. LateInv'
  BY DEF WaitStates, SyncStates, TypeOK, BarInv, SyncFlag, LateInv, Inflight,
         Done
<1>8. DownInv'
  BY DEF WaitStates, SyncStates, PcStates, PcStatesOf, TypeOK, BarInv,
         DownInv, DownPc
<1>9. DownPc'
  BY DEF WaitStates, SyncStates, PcStates, PcStatesOf, TypeOK, BarInv, DownPc
<1>. QED  BY <1>1, <1>2, <1>3, <1>4, <1>5, <1>6, <1>7, <1>8, <1>9

\* A timed-out wait preserves the invariant.
LEMMA WaitLastCheckStep ==
    ASSUME IInv, NEW c \in Callers, WaitLastCheck(c)
    PROVE  IInv'
<1>. USE ReconfigConstants DEF IInv, WaitLastCheck, AfterWait, AfterEnter, Goto
<1>1. TypeOK'
  <2>. HIDE DEF AfterWait
  <2>1. AfterWait(c) \in PcStatesOf(c) /\ AfterWait(c) \in PcStates
    BY AfterWaitFacts DEF WaitStates, SyncStates, PcStates
  <2>2. pc' \in [Callers -> PcStates] /\ \A d \in Callers : pc'[d] \in PcStatesOf(d)
    BY <2>1 DEF TypeOK
  <2>3. SharedTypes'
    BY DEF TypeOK, SharedTypes
  <2>4. LocalTypes'
    BY DEF TypeOK, LocalTypes
  <2>. QED  BY <2>2, <2>3, <2>4, TypesSplit DEF PcTypes
<1>2. BarInv'
  BY DEF WaitStates, SyncStates, PcStates, PcStatesOf, TypeOK, BarInv
<1>3. SyncFlag'
  BY DEF WaitStates, SyncStates, PcStates, PcStatesOf, TypeOK, BarInv, SyncFlag
<1>4. TakenOver'
  BY DEF TakenOver
<1>5. InflightInv'
  <2>. HIDE DEF AfterWait
  <2>. QED  BY ZenonT(30), AfterWaitFacts
    DEF WaitStates, SyncStates, TypeOK, BarInv, SyncFlag, TakenOver,
         InflightInv, LateInv, Inflight, Done
<1>6. OwnInv'
  <2>. HIDE DEF AfterWait
  <2>. QED  BY AfterWaitFacts
    DEF WaitStates, SyncStates, TypeOK, BarInv, SyncFlag, OwnInv, Done
<1>7. LateInv'
  BY DEF WaitStates, SyncStates, TypeOK, BarInv, SyncFlag, LateInv, Inflight,
         Done
<1>8. DownInv'
  BY DEF WaitStates, SyncStates, PcStates, PcStatesOf, TypeOK, BarInv,
         DownInv, DownPc
<1>9. DownPc'
  BY DEF WaitStates, SyncStates, PcStates, PcStatesOf, TypeOK, BarInv, DownPc
<1>. QED  BY <1>1, <1>2, <1>3, <1>4, <1>5, <1>6, <1>7, <1>8, <1>9

\* Running the pre-posted requests preserves the invariant.
LEMMA StartPrePostedStep ==
    ASSUME IInv, NEW c \in Callers, StartPrePosted(c)
    PROVE  IInv'
<1>. USE ReconfigConstants DEF IInv, StartPrePosted, ReconfigStart, Goto
<1>1. TypeOK'
  <2>1. SharedTypes'
    BY ZenonT(30) DEF TypeOK, SharedTypes
  <2>2. LocalTypes'
    BY DEF TypeOK, LocalTypes
  <2>3. PcTypes'
    BY DEF TypeOK, PcTypes, WaitStates, SyncStates, PcStates, PcStatesOf
  <2>. QED  BY <2>1, <2>2, <2>3, TypesSplit
<1>2. BarInv'
  BY DEF WaitStates, SyncStates, PcStates, PcStatesOf, TypeOK, BarInv
<1>3. SyncFlag'
  BY DEF WaitStates, SyncStates, PcStates, PcStatesOf, TypeOK, BarInv, SyncFlag
<1>4. TakenOver'
  BY DEF TakenOver
<1>5. InflightInv'
  BY DEF WaitStates, SyncStates, TypeOK, BarInv, SyncFlag, TakenOver,
         InflightInv, LateInv, Inflight, Done
<1>6. OwnInv'
  BY DEF WaitStates, SyncStates, TypeOK, BarInv, SyncFlag, OwnInv, Done
<1>7. LateInv'
  BY DEF WaitStates, SyncStates, TypeOK, BarInv, SyncFlag, LateInv, Inflight,
         Done
<1>8. DownInv'
  BY DEF WaitStates, SyncStates, PcStates, PcStatesOf, TypeOK, BarInv,
         DownInv, DownPc
<1>9. DownPc'
  BY DEF WaitStates, SyncStates, PcStates, PcStatesOf, TypeOK, BarInv, DownPc
<1>. QED  BY <1>1, <1>2, <1>3, <1>4, <1>5, <1>6, <1>7, <1>8, <1>9

\* Starting the caller's request preserves the invariant.
LEMMA StartOwnStep ==
    ASSUME IInv, NEW c \in Callers, StartOwn(c)
    PROVE  IInv'
<1>. USE ReconfigConstants DEF IInv, StartOwn, ReconfigStart, Goto
<1>1. TypeOK'
  <2>1. SharedTypes'
    BY ZenonT(30) DEF TypeOK, SharedTypes
  <2>2. LocalTypes'
    BY DEF TypeOK, LocalTypes
  <2>3. PcTypes'
    BY DEF TypeOK, PcTypes, WaitStates, SyncStates, PcStates, PcStatesOf
  <2>. QED  BY <2>1, <2>2, <2>3, TypesSplit
<1>2. BarInv'
  BY DEF WaitStates, SyncStates, PcStates, PcStatesOf, TypeOK, BarInv
<1>3. SyncFlag'
  BY DEF WaitStates, SyncStates, PcStates, PcStatesOf, TypeOK, BarInv, SyncFlag
<1>4. TakenOver'
  BY DEF TakenOver
<1>5. InflightInv'
  BY DEF WaitStates, SyncStates, TypeOK, BarInv, SyncFlag, TakenOver,
         InflightInv, LateInv, Inflight, Done
<1>6. OwnInv'
  BY DEF WaitStates, SyncStates, TypeOK, BarInv, SyncFlag, OwnInv, Done
<1>7. LateInv'
  BY DEF WaitStates, SyncStates, TypeOK, BarInv, SyncFlag, LateInv, Inflight,
         Done
<1>8. DownInv'
  BY DEF WaitStates, SyncStates, PcStates, PcStatesOf, TypeOK, BarInv,
         DownInv, DownPc
<1>9. DownPc'
  BY DEF WaitStates, SyncStates, PcStates, PcStatesOf, TypeOK, BarInv, DownPc
<1>. QED  BY <1>1, <1>2, <1>3, <1>4, <1>5, <1>6, <1>7, <1>8, <1>9

\* The end of __nfp_net_reconfig() preserves the invariant.
LEMMA SyncFinishStep ==
    ASSUME IInv, NEW c \in Callers, SyncFinish(c)
    PROVE  IInv'
<1>. USE ReconfigConstants DEF IInv, SyncFinish, ReconfigStartAsync, ReconfigStart, Goto
<1>1. TypeOK'
  <2>1. SharedTypes'
    BY ZenonT(30) DEF TypeOK, SharedTypes
  <2>2. LocalTypes'
    BY DEF TypeOK, LocalTypes
  <2>3. PcTypes'
    BY DEF TypeOK, PcTypes, WaitStates, SyncStates, PcStates, PcStatesOf
  <2>. QED  BY <2>1, <2>2, <2>3, TypesSplit
<1>2. BarInv'
  BY DEF WaitStates, SyncStates, PcStates, PcStatesOf, TypeOK, BarInv
<1>3. SyncFlag'
  BY DEF WaitStates, SyncStates, PcStates, PcStatesOf, TypeOK, BarInv, SyncFlag
<1>4. TakenOver'
  BY DEF TakenOver
<1>5. InflightInv'
  BY DEF WaitStates, SyncStates, TypeOK, BarInv, SyncFlag, TakenOver,
         InflightInv, LateInv, Inflight, Done
<1>6. OwnInv'
  BY DEF WaitStates, SyncStates, TypeOK, BarInv, SyncFlag, OwnInv, Done
<1>7. LateInv'
  BY DEF WaitStates, SyncStates, TypeOK, BarInv, SyncFlag, LateInv, Inflight,
         Done
<1>8. DownInv'
  BY DEF WaitStates, SyncStates, PcStates, PcStatesOf, TypeOK, BarInv,
         DownInv, DownPc
<1>9. DownPc'
  BY DEF WaitStates, SyncStates, PcStates, PcStatesOf, TypeOK, BarInv, DownPc
<1>. QED  BY <1>1, <1>2, <1>3, <1>4, <1>5, <1>6, <1>7, <1>8, <1>9

\* The end of nfp_net_reconfig_wait_posted() preserves the invariant.
LEMMA WaitPostedLeaveStep ==
    ASSUME IInv, NEW c \in Callers, WaitPostedLeave(c)
    PROVE  IInv'
<1>. USE ReconfigConstants DEF IInv, WaitPostedLeave, Goto
<1>1. TypeOK'
  <2>1. SharedTypes'
    BY ZenonT(30) DEF TypeOK, SharedTypes
  <2>2. LocalTypes'
    BY DEF TypeOK, LocalTypes
  <2>3. PcTypes'
    BY ZenonT(30) DEF TypeOK, PcTypes, WaitStates, SyncStates, PcStates, PcStatesOf
  <2>. QED  BY <2>1, <2>2, <2>3, TypesSplit
<1>2. BarInv'
  BY DEF WaitStates, SyncStates, PcStates, PcStatesOf, TypeOK, BarInv
<1>3. SyncFlag'
  BY DEF WaitStates, SyncStates, PcStates, PcStatesOf, TypeOK, BarInv, SyncFlag
<1>4. TakenOver'
  BY DEF TakenOver
<1>5. InflightInv'
  BY DEF WaitStates, SyncStates, TypeOK, BarInv, SyncFlag, TakenOver,
         InflightInv, LateInv, Inflight, Done
<1>6. OwnInv'
  BY DEF WaitStates, SyncStates, TypeOK, BarInv, SyncFlag, OwnInv, Done
<1>7. LateInv'
  BY DEF WaitStates, SyncStates, TypeOK, BarInv, SyncFlag, LateInv, Inflight,
         Done
<1>8. DownInv'
  BY DEF WaitStates, SyncStates, PcStates, PcStatesOf, TypeOK, BarInv,
         DownInv, DownPc
<1>9. DownPc'
  BY DEF WaitStates, SyncStates, PcStates, PcStatesOf, TypeOK, BarInv, DownPc
<1>. QED  BY <1>1, <1>2, <1>3, <1>4, <1>5, <1>6, <1>7, <1>8, <1>9

\* nn_ctrl_bar_unlock() preserves the invariant.
LEMMA BarUnlockStep ==
    ASSUME IInv, NEW c \in Callers, BarUnlock(c)
    PROVE  IInv'
<1>. USE ReconfigConstants DEF IInv, BarUnlock, Goto
<1>1. TypeOK'
  <2>1. SharedTypes'
    BY DEF TypeOK, SharedTypes
  <2>2. LocalTypes'
    BY DEF TypeOK, LocalTypes
  <2>3. PcTypes'
    BY ZenonT(30) DEF TypeOK, PcTypes, WaitStates, SyncStates, PcStates, PcStatesOf
  <2>. QED  BY <2>1, <2>2, <2>3, TypesSplit
<1>2. BarInv'
  BY DEF WaitStates, SyncStates, PcStates, PcStatesOf, TypeOK, BarInv
<1>3. SyncFlag'
  BY DEF WaitStates, SyncStates, PcStates, PcStatesOf, TypeOK, BarInv, SyncFlag
<1>4. TakenOver'
  BY DEF TakenOver
<1>5. InflightInv'
  BY DEF WaitStates, SyncStates, TypeOK, BarInv, SyncFlag, TakenOver,
         InflightInv, LateInv, Inflight, Done
<1>6. OwnInv'
  BY DEF WaitStates, SyncStates, TypeOK, BarInv, SyncFlag, OwnInv, Done
<1>7. LateInv'
  BY DEF WaitStates, SyncStates, TypeOK, BarInv, SyncFlag, LateInv, Inflight,
         Done
<1>8. DownInv'
  BY DEF WaitStates, SyncStates, PcStates, PcStatesOf, TypeOK, BarInv,
         DownInv, DownPc
<1>9. DownPc'
  BY DEF WaitStates, SyncStates, PcStates, PcStatesOf, TypeOK, BarInv, DownPc
<1>. QED  BY <1>1, <1>2, <1>3, <1>4, <1>5, <1>6, <1>7, <1>8, <1>9

\* nfp_net_clean() preserves the invariant.
LEMMA NetCleanStep ==
    ASSUME IInv, NetClean
    PROVE  IInv'
<1>. USE ReconfigConstants DEF IInv, NetClean, Goto
<1>1. TypeOK'
  <2>1. SharedTypes'
    BY DEF TypeOK, SharedTypes
  <2>2. LocalTypes'
    BY DEF TypeOK, LocalTypes
  <2>3. PcTypes'
    BY DEF TypeOK, PcTypes, WaitStates, SyncStates, PcStates, PcStatesOf
  <2>. QED  BY <2>1, <2>2, <2>3, TypesSplit
<1>2. BarInv'
  BY DEF WaitStates, SyncStates, PcStates, PcStatesOf, TypeOK, BarInv
<1>3. SyncFlag'
  BY DEF WaitStates, SyncStates, PcStates, PcStatesOf, TypeOK, BarInv, SyncFlag
<1>4. TakenOver'
  BY DEF TakenOver
<1>5. InflightInv'
  BY DEF WaitStates, SyncStates, TypeOK, BarInv, SyncFlag, TakenOver,
         InflightInv, LateInv, Inflight, Done
<1>6. OwnInv'
  BY DEF WaitStates, SyncStates, TypeOK, BarInv, SyncFlag, OwnInv, Done
<1>7. LateInv'
  BY DEF WaitStates, SyncStates, TypeOK, BarInv, SyncFlag, LateInv, Inflight,
         Done
<1>8. DownInv'
  BY DEF WaitStates, SyncStates, PcStates, PcStatesOf, TypeOK, BarInv,
         DownInv, DownPc
<1>9. DownPc'
  BY DEF WaitStates, SyncStates, PcStates, PcStatesOf, TypeOK, BarInv, DownPc
<1>. QED  BY <1>1, <1>2, <1>3, <1>4, <1>5, <1>6, <1>7, <1>8, <1>9

\* nfp_net_free() preserves the invariant.
LEMMA NetFreeStep ==
    ASSUME IInv, NetFree
    PROVE  IInv'
<1>. USE ReconfigConstants DEF IInv, NetFree, Goto
<1>1. TypeOK'
  <2>1. SharedTypes'
    BY DEF TypeOK, SharedTypes
  <2>2. LocalTypes'
    BY DEF TypeOK, LocalTypes
  <2>3. PcTypes'
    BY DEF TypeOK, PcTypes, WaitStates, SyncStates, PcStates, PcStatesOf
  <2>. QED  BY <2>1, <2>2, <2>3, TypesSplit
<1>2. BarInv'
  BY DEF WaitStates, SyncStates, PcStates, PcStatesOf, TypeOK, BarInv
<1>3. SyncFlag'
  BY DEF WaitStates, SyncStates, PcStates, PcStatesOf, TypeOK, BarInv, SyncFlag
<1>4. TakenOver'
  BY DEF TakenOver
<1>5. InflightInv'
  BY DEF WaitStates, SyncStates, TypeOK, BarInv, SyncFlag, TakenOver,
         InflightInv, LateInv, Inflight, Done
<1>6. OwnInv'
  BY DEF WaitStates, SyncStates, TypeOK, BarInv, SyncFlag, OwnInv, Done
<1>7. LateInv'
  BY DEF WaitStates, SyncStates, TypeOK, BarInv, SyncFlag, LateInv, Inflight,
         Done
<1>8. DownInv'
  BY DEF WaitStates, SyncStates, PcStates, PcStatesOf, TypeOK, BarInv,
         DownInv, DownPc
<1>9. DownPc'
  BY DEF WaitStates, SyncStates, PcStates, PcStatesOf, TypeOK, BarInv, DownPc
<1>. QED  BY <1>1, <1>2, <1>3, <1>4, <1>5, <1>6, <1>7, <1>8, <1>9

-----------------------------------------------------------------------------

\* A freshly allocated vNIC satisfies the invariant.
LEMMA InitIInv == Init => IInv
BY ZenonT(60), ReconfigConstants
   DEF Init, IInv, TypeOK, BarInv, SyncFlag, TakenOver, InflightInv, OwnInv,
       LateInv, DownInv, DownPc, Inflight, Done, WaitStates, SyncStates,
       PcStates, PcStatesOf

\* So does a step that changes nothing.
LEMMA StutterIInv ==
    ASSUME IInv, UNCHANGED vars
    PROVE  IInv'
<1>. USE DEF vars, IInv
<1>1. TypeOK'
  <2>1. SharedTypes'
    BY DEF TypeOK, SharedTypes
  <2>2. LocalTypes'
    BY DEF TypeOK, LocalTypes
  <2>3. PcTypes'
    BY DEF TypeOK, PcTypes
  <2>. QED  BY <2>1, <2>2, <2>3, TypesSplit
<1>2. BarInv' /\ SyncFlag' /\ TakenOver'
  BY Zenon DEF BarInv, SyncFlag, TakenOver
<1>3. InflightInv'
  BY Zenon DEF InflightInv, Inflight, Done
<1>4. OwnInv' /\ LateInv'
  BY Zenon DEF OwnInv, LateInv, Inflight, Done
<1>5. DownInv' /\ DownPc'
  BY Zenon DEF DownInv, DownPc
<1>. QED  BY <1>1, <1>2, <1>3, <1>4, <1>5

\* Every step of a synchronous caller preserves the invariant.
LEMMA CallerStepIInv ==
    ASSUME IInv, NEW c \in Callers, CallerStep(c)
    PROVE  IInv'
BY MboxReconfigPostStep, SyncEnterStep, TimerDeleteSyncStep, WaitDoneStep,
   WaitDeadlineStep, WaitLastCheckStep, StartPrePostedStep, StartOwnStep,
   SyncFinishStep, WaitPostedLeaveStep, BarUnlockStep
   DEF CallerStep

\* Every step of the protocol preserves the invariant.
LEMMA NextIInv == IInv /\ [Next]_vars => IInv'
<1>. SUFFICES ASSUME IInv, [Next]_vars PROVE IInv'
  OBVIOUS
<1>1. CASE FwAck \/ FwError \/ TimerExpire \/ ReconfigTimer
  BY <1>1, FwAckStep, FwErrorStep, TimerExpireStep, ReconfigTimerStep
<1>2. ASSUME NEW b \in Bits, ReconfigPost({b}) PROVE IInv'
  BY <1>2, ReconfigPostStep
<1>3. ASSUME NEW c \in Callers, NEW b \in Bits,
             BarLock(c, {b}) \/ BarTrylock(c, {b})
      PROVE  IInv'
  BY <1>3, BarLockStep, BarTrylockStep
<1>4. ASSUME NEW c \in Callers, CallerStep(c) PROVE IInv'
  BY <1>4, CallerStepIInv
<1>5. CASE NetClean \/ NetFree
  BY <1>5, NetCleanStep, NetFreeStep
<1>6. CASE UNCHANGED vars
  BY <1>6, StutterIInv
<1>. QED  BY ZenonT(30), <1>1, <1>2, <1>3, <1>4, <1>5, <1>6 DEF Next

(* The inductive invariant holds in every reachable state of the protocol. *)
THEOREM Invariance == Spec => []IInv
BY InitIInv, NextIInv, PTL DEF Spec

(* Every variable keeps its type and every caller stays in the code paths  *)
(* of its kind.                                                            *)
THEOREM TypeCorrect == Spec => []TypeOK
<1>1. IInv => TypeOK
  BY DEF IInv
<1>. QED  BY <1>1, Invariance, PTL

(* The WARN_ON of nfp_net_reconfig_sync_enter() never fires, for any       *)
(* number of synchronous callers.                                          *)
THEOREM SyncIsExclusive == Spec => []SyncExclusive
<1>1. IInv => SyncExclusive
  BY ReconfigConstants DEF IInv, BarInv, SyncFlag, SyncExclusive, SyncStates,
     WaitStates, TypeOK
<1>. QED  BY <1>1, Invariance, PTL

(* The only way to overwrite an unanswered request is the timer handler    *)
(* that runs for a timer a post has re-armed.                              *)
THEOREM ClobberNeedsStaleTimer == Spec => []ClobberOnlyAfterStaleTimer
<1>1. IInv => ClobberOnlyAfterStaleTimer
  BY DEF IInv, InflightInv, ClobberOnlyAfterStaleTimer
<1>. QED  BY <1>1, Invariance, PTL

(* A synchronous reconfiguration that returns 0 was acknowledged by the    *)
(* firmware, bit for bit.                                                  *)
THEOREM SyncOkIsServed == Spec => []SyncOkMeansServed
<1>1. IInv => SyncOkMeansServed
  BY DEF IInv, OwnInv, SyncOkMeansServed
<1>. QED  BY <1>1, Invariance, PTL

(* nfp_net_clean() leaves no posted request, and no timer but a re-armed   *)
(* one whose handler ran too early.                                        *)
THEOREM RemovalLeavesNothing == Spec => []FreeLeavesNothing
<1>1. IInv => FreeLeavesNothing
  <2>. SUFFICES ASSUME IInv, phase = "freed"
                PROVE  reconfig_posted = {} /\ (~timer_pending \/ stale)
    BY DEF FreeLeavesNothing
  <2>1. pc[Cleaner] \in {"free", "idle"}
    BY DEF IInv, DownPc
  <2>2. reconfig_posted = {} /\ ~reconfig_timer_active
    BY <2>1 DEF IInv, DownInv
  <2>3. \A c \in Callers : pc[c] # "cancel"
    BY <2>1 DEF IInv, BarInv
  <2>. QED  BY <2>2, <2>3 DEF IInv, InflightInv, TypeOK
<1>. QED  BY <1>1, Invariance, PTL

(* While a synchronous caller waits for a request it started, only the     *)
(* firmware changes the update word.                                       *)
THEOREM SyncOwnsUpdateWord == Spec => SyncOwnsWord
<1>1. ASSUME IInv, Next, NEW c \in Callers,
             pc[c] \in {"wait_pre", "wait_own"}, pc'[c] = pc[c]
      PROVE  update' \in {update, {}}
  <2>. USE <1>1
  <2>1. reconfig_sync_present
    BY DEF IInv, SyncFlag, SyncStates, WaitStates
  <2>2. \A d \in Callers : d # c => pc[d] = "idle"
    BY ReconfigConstants DEF IInv, BarInv, TypeOK
  <2>3. CASE FwAck \/ FwError \/ TimerExpire \/ ReconfigTimer \/ NetClean \/ NetFree
    BY ZenonT(30), <2>1, <2>3 DEF FwAck, FwError, TimerExpire, ReconfigTimer, NetClean, NetFree
  <2>4. ASSUME NEW b \in Bits, ReconfigPost({b}) PROVE update' = update
    BY <2>1, <2>4 DEF ReconfigPost, PostBody
  <2>5. ASSUME NEW d \in Callers, NEW b \in Bits,
               BarLock(d, {b}) \/ BarTrylock(d, {b})
        PROVE  update' = update
    BY ZenonT(30), <2>5 DEF BarLock, BarTrylock
  <2>6. ASSUME NEW d \in Callers, CallerStep(d) PROVE update' = update
    <3>1. CASE d = c
      <4>1. WaitDone(c) \/ WaitDeadline(c) \/ WaitLastCheck(c)
        BY ZenonT(30), <2>6, <3>1 DEF CallerStep, MboxReconfigPost, SyncEnter,
           TimerDeleteSync, StartPrePosted, StartOwn, SyncFinish,
           WaitPostedLeave, BarUnlock
      <4>. QED  BY <4>1 DEF WaitDone, WaitDeadline, WaitLastCheck
    <3>2. CASE d # c
      BY ZenonT(30), <2>2, <2>6, <3>2 DEF CallerStep, MboxReconfigPost, SyncEnter,
         TimerDeleteSync, WaitDone, WaitDeadline, WaitLastCheck, WaitStates,
         StartPrePosted, StartOwn, SyncFinish, WaitPostedLeave, BarUnlock
    <3>. QED  BY <3>1, <3>2
  <2>. QED  BY ZenonT(30), <2>3, <2>4, <2>5, <2>6 DEF Next
<1>2. IInv /\ [Next]_vars =>
        [\A c \in Callers :
           pc[c] \in {"wait_pre", "wait_own"} /\ pc'[c] = pc[c]
              => update' \in {update, {}}]_vars
  BY <1>1
<1>. QED  BY <1>2, Invariance, PTL DEF Spec, SyncOwnsWord

\* One step keeps a runner for what is posted, unless a worker that waited for
\* posts is about to leave.
LEMMA PostedHasRunnerStep ==
    ASSUME \A c \in Waits : pc[c] # "leave",
           IInv, PostedHasRunner, [Next]_vars
    PROVE  PostedHasRunner'
<1>. USE DEF PostedHasRunner
<1>1. CASE FwAck \/ FwError \/ TimerExpire \/ NetClean \/ NetFree \/ UNCHANGED vars
  BY <1>1 DEF FwAck, FwError, TimerExpire, NetClean, NetFree, vars
<1>2. CASE ReconfigTimer
  BY <1>2 DEF ReconfigTimer, ReconfigStartAsync
<1>3. ASSUME NEW b \in Bits, ReconfigPost({b}) PROVE PostedHasRunner'
  BY <1>3 DEF ReconfigPost, PostBody, ReconfigStartAsync
<1>4. ASSUME NEW c \in Callers, NEW b \in Bits,
             BarLock(c, {b}) \/ BarTrylock(c, {b})
      PROVE  PostedHasRunner'
  BY <1>4 DEF BarLock, BarTrylock
<1>5. ASSUME NEW c \in Callers, CallerStep(c) PROVE PostedHasRunner'
  <2>1. CASE WaitPostedLeave(c)
    <3>1. c = Cleaner /\ pc[Cleaner] = "leave"
      BY ZenonT(30), <2>1 DEF WaitPostedLeave, IInv, TypeOK, PcStatesOf, Callers
    <3>2. reconfig_posted = {}
      BY <3>1 DEF IInv, BarInv, DownInv
    <3>. QED  BY <2>1, <3>2 DEF WaitPostedLeave
  <2>2. CASE ~WaitPostedLeave(c)
    BY ZenonT(30), <1>5, <2>2 DEF CallerStep, MboxReconfigPost, PostBody, SyncEnter,
       TimerDeleteSync, WaitDone, WaitDeadline, WaitLastCheck, StartPrePosted,
       StartOwn, SyncFinish, BarUnlock, ReconfigStartAsync, ReconfigStart
  <2>. QED  BY <2>1, <2>2
<1>. QED  BY ZenonT(30), <1>1, <1>2, <1>3, <1>4, <1>5 DEF Next

(* Whoever leaves posted requests without a runner is a mailbox worker at  *)
(* the end of nfp_net_reconfig_wait_posted().                              *)
THEOREM OnlyWaitersLeaveOrphans == Spec => OnlyWaitersOrphan
<1>1. IInv /\ [Next]_vars =>
        [PostedHasRunner /\ ~PostedHasRunner'
            => \E c \in Waits : pc[c] = "leave"]_vars
  BY PostedHasRunnerStep
<1>. QED  BY <1>1, Invariance, PTL DEF Spec, OnlyWaitersOrphan

(* Where no mailbox worker uses nfp_net_reconfig_wait_posted(), a posted    *)
(* request always has a synchronous caller or the timer to run it.         *)
THEOREM PostedIsNeverOrphaned ==
    ASSUME Waits = {}
    PROVE  Spec => []PostedHasRunner
<1>1. Init => PostedHasRunner
  BY DEF Init, PostedHasRunner
<1>2. IInv /\ PostedHasRunner /\ [Next]_vars => PostedHasRunner'
  BY PostedHasRunnerStep
<1>. QED  BY <1>1, <1>2, Invariance, PTL DEF Spec

-----------------------------------------------------------------------------
(* The two exclusion properties together, as the model checker's run       *)
(* states them: nfp_net_reconfig_sync_enter() and the update word.         *)
THEOREM UpdatesAreExclusive == Spec => []UpdatesExclusive
<1>1. SyncExclusive /\ ClobberOnlyAfterStaleTimer => UpdatesExclusive
  BY DEF UpdatesExclusive
<1>. QED  BY <1>1, SyncIsExclusive, ClobberNeedsStaleTimer, PTL

(* What the return of nfp_net_reconfig() and of nfp_net_clean() means.     *)
THEOREM ReturnsAreSound == Spec => []ReturnsSound
<1>1. SyncOkMeansServed /\ FreeLeavesNothing => ReturnsSound
  BY DEF ReturnsSound
<1>. QED  BY <1>1, SyncOkIsServed, RemovalLeavesNothing, PTL

(* What no step of the update protocol does.                               *)
THEOREM StepsKeepWord == Spec => WordSteps
BY SyncOwnsUpdateWord, OnlyWaitersLeaveOrphans, PTL DEF WordSteps

=============================================================================

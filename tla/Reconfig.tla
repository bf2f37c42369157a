------------------------------ MODULE Reconfig ------------------------------
(***************************************************************************)
(* The firmware reconfiguration protocol of a vNIC (nfp_net_common.c).     *)
(*                                                                         *)
(* The driver asks the firmware to reload part of the control BAR by       *)
(* writing a set of request bits to the update word NFP_NET_CFG_UPDATE and *)
(* pinging a queue.  The firmware answers by zeroing the word, or by       *)
(* setting its error bit.  There are synchronous callers, which hold the   *)
(* control BAR semaphore and poll the word, and posted (asynchronous)      *)
(* requests, made from atomic context, whose result a timer reads later.   *)
(*                                                                         *)
(* Every section under reconfig_lock is one action.  Time is abstracted:   *)
(* a pending timer may expire, and a poll may reach its deadline, at any   *)
(* moment; the history variable overdue remembers that the request in      *)
(* flight has been given its full time.                                    *)
(***************************************************************************)
EXTENDS FiniteSets

CONSTANTS
    Bits,       \* the update bits, NFP_NET_CFG_UPDATE_*
    Syncs,      \* threads that call nfp_net_reconfig()
    Waits,      \* mailbox workers: post, then nfp_net_reconfig_wait_posted()
    Cleaner,    \* the thread that removes the vNIC, nfp_net_clean()
    NoOne       \* nobody holds the control BAR semaphore

Callers == Syncs \cup Waits \cup {Cleaner}

ASSUME ReconfigConstants ==
    /\ Syncs \cap Waits = {}
    /\ Cleaner \notin Syncs \cup Waits
    /\ NoOne \notin Callers

VARIABLES
    update,                 \* request bits in NFP_NET_CFG_UPDATE
    update_err,             \* NFP_NET_CFG_UPDATE_ERR
    reconfig_posted,        \* nn->reconfig_posted
    reconfig_timer_active,  \* nn->reconfig_timer_active
    reconfig_sync_present,  \* nn->reconfig_sync_present
    timer_pending,          \* reconfig_timer is queued
    timer_running,          \* its handler was entered, reconfig_lock not taken
    bar_lock,               \* holder of the control BAR semaphore
    pc,                     \* where each caller is
    req,                    \* the update a caller asked for
    pre,                    \* pre_posted_requests of sync_enter
    late,                   \* the caller's deadline passed during its sleep
    ret,                    \* result of the caller's last wait
    phase                   \* life of the vNIC: up, down, freed

\* History variables, read by no guard.
VARIABLES
    overdue,    \* the request in flight was given its full time
    served,     \* the last request the firmware acknowledged
    clobbered,  \* bits overwritten while the firmware still had time to answer
    stale       \* the timer handler ran although the timer had been re-armed

word   == <<update, update_err>>
soft   == <<reconfig_posted, reconfig_timer_active, reconfig_sync_present>>
timer  == <<timer_pending, timer_running>>
caller == <<pc, req, pre, late, ret>>
vars   == <<word, soft, timer, bar_lock, caller, phase,
            overdue, served, clobbered, stale>>

\* What a caller does once nfp_net_reconfig_sync_enter() returned.
AfterEnter(c) == IF c \in Syncs THEN "start" ELSE "leave"

WaitStates == {"wait_cancelled", "wait_pre", "wait_own"}

\* Between the two critical sections that set and clear sync_present.
SyncStates == WaitStates \cup {"cancel", "start_pre", "start", "finish", "leave"}

PcStates == SyncStates \cup {"idle", "post", "enter", "unlock", "free"}

\* Only the users of nfp_net_reconfig() start a request of their own, only the
\* mailbox workers post one, only removal frees, and it holds no semaphore.
PcStatesOf(c) ==
    IF c \in Syncs THEN PcStates \ {"post", "leave", "free"}
    ELSE PcStates \ ({"start", "wait_own", "finish"} \cup
                     IF c = Cleaner THEN {"post", "unlock"} ELSE {"free"})

-----------------------------------------------------------------------------

Init ==
    /\ update = {} /\ update_err = FALSE
    /\ reconfig_posted = {}
    /\ reconfig_timer_active = FALSE
    /\ reconfig_sync_present = FALSE
    /\ timer_pending = FALSE /\ timer_running = FALSE
    /\ bar_lock = NoOne
    /\ pc = [c \in Callers |-> "idle"]
    /\ req = [c \in Callers |-> {}]
    /\ pre = [c \in Callers |-> {}]
    /\ late = [c \in Callers |-> FALSE]
    /\ ret = [c \in Callers |-> "ok"]
    /\ phase = "up"
    /\ overdue = FALSE /\ served = {} /\ clobbered = {} /\ stale = FALSE

\* nfp_net_reconfig_check_done(): acknowledged, failed, or given up.
CheckDone(last_check) == update = {} \/ update_err \/ last_check

Done == CheckDone(FALSE)

\* nfp_net_reconfig_start(): write the update word and ping the firmware.
ReconfigStart(u) ==
    /\ update' = u
    /\ update_err' = FALSE
    /\ overdue' = FALSE
    /\ clobbered' = clobbered \cup (IF Done \/ overdue THEN {} ELSE update)
    /\ UNCHANGED served

\* nfp_net_reconfig_start_async(): adds the posted bits, arms the timer.
ReconfigStartAsync(u) ==
    /\ ReconfigStart(u \cup reconfig_posted)
    /\ reconfig_posted' = {}
    /\ reconfig_timer_active' = TRUE
    /\ timer_pending' = TRUE

-----------------------------------------------------------------------------
(* The firmware, external. *)

FwAck ==
    /\ ~Done
    /\ update' = {}
    /\ served' = update
    /\ UNCHANGED <<update_err, soft, timer, bar_lock, caller, phase,
                   overdue, clobbered, stale>>

FwError ==
    /\ ~Done
    /\ update_err' = TRUE
    /\ UNCHANGED <<update, soft, timer, bar_lock, caller, phase,
                   overdue, served, clobbered, stale>>

-----------------------------------------------------------------------------
(* Posted requests and the timer. *)

\* Mutant: start without looking for a request in flight.
MayStartNoBusyCheck == ~reconfig_sync_present

\* The conditions of nfp_net_reconfig_post() for starting at once.
MayStart == ~reconfig_sync_present /\ (~reconfig_timer_active \/ Done)

\* The body of nfp_net_reconfig_post(), under reconfig_lock.
PostBody(u) ==
    IF MayStart
    THEN /\ ReconfigStartAsync(u)
         /\ UNCHANGED <<reconfig_sync_present, timer_running>>
    ELSE /\ reconfig_posted' = reconfig_posted \cup u
         /\ UNCHANGED <<word, reconfig_timer_active, reconfig_sync_present,
                        timer, overdue, served, clobbered>>

\* A post from atomic context: nfp_net_set_rx_mode(), nfp_net_set_vxlan_port().
ReconfigPost(u) ==
    /\ phase = "up"
    /\ PostBody(u)
    /\ UNCHANGED <<bar_lock, caller, phase, stale>>

\* The timer core dequeues the timer and enters its handler.
TimerExpire ==
    /\ timer_pending
    /\ ~timer_running
    /\ timer_pending' = FALSE
    /\ timer_running' = TRUE
    /\ overdue' = TRUE
    /\ UNCHANGED <<word, soft, bar_lock, caller, phase, served, clobbered, stale>>

\* Mutant: the handler forgets the requests posted meanwhile.
TimerKicksNever == FALSE

\* The handler runs posted requests unless a synchronous caller takes over.
TimerKicks == ~reconfig_sync_present /\ reconfig_posted # {}

\* nfp_net_reconfig_timer(), once it has reconfig_lock.
ReconfigTimer ==
    /\ timer_running
    /\ timer_running' = FALSE
    /\ stale' = (stale \/ timer_pending)
    /\ IF TimerKicks
       THEN ReconfigStartAsync({})
       ELSE /\ reconfig_timer_active' = FALSE
            /\ UNCHANGED <<word, reconfig_posted, timer_pending,
                           overdue, served, clobbered>>
    /\ UNCHANGED <<reconfig_sync_present, bar_lock, caller, phase>>

-----------------------------------------------------------------------------
(* Synchronous callers. *)

Goto(c, s) == pc' = [pc EXCEPT ![c] = s]

\* The control BAR semaphore can be taken.
BarFree == bar_lock = NoOne

\* nn_ctrl_bar_lock() in nfp_net_reconfig().
BarLock(c, u) ==
    /\ c \in Syncs
    /\ phase = "up"
    /\ pc[c] = "idle"
    /\ BarFree
    /\ bar_lock' = c
    /\ req' = [req EXCEPT ![c] = u]
    /\ Goto(c, "enter")
    /\ UNCHANGED <<word, soft, timer, pre, late, ret, phase,
                   overdue, served, clobbered, stale>>

\* nn_ctrl_bar_trylock() in nfp_ccm_mbox_post().
BarTrylock(c, u) ==
    /\ c \in Waits
    /\ phase = "up"
    /\ pc[c] = "idle"
    /\ BarFree
    /\ bar_lock' = c
    /\ req' = [req EXCEPT ![c] = u]
    /\ Goto(c, "post")
    /\ UNCHANGED <<word, soft, timer, pre, late, ret, phase,
                   overdue, served, clobbered, stale>>

\* nfp_net_mbox_reconfig_post() of the posted mailbox message.
MboxReconfigPost(c) ==
    /\ pc[c] = "post"
    /\ PostBody(req[c])
    /\ Goto(c, "enter")
    /\ UNCHANGED <<bar_lock, req, pre, late, ret, phase, stale>>

\* pre_posted_requests, taken out of reconfig_posted.
PrePosted == reconfig_posted

\* The critical section of nfp_net_reconfig_sync_enter().
SyncEnter(c) ==
    /\ pc[c] = "enter"
    /\ reconfig_sync_present' = TRUE
    /\ reconfig_timer_active' = FALSE
    /\ pre' = [pre EXCEPT ![c] = PrePosted]
    /\ reconfig_posted' = reconfig_posted \ PrePosted
    /\ Goto(c, IF reconfig_timer_active THEN "cancel"
               ELSE IF PrePosted # {} THEN "start_pre"
               ELSE AfterEnter(c))
    /\ UNCHANGED <<word, timer, bar_lock, req, late, ret, phase,
                   overdue, served, clobbered, stale>>

\* timer_delete_sync(): waits for a running handler.
TimerDeleteSync(c) ==
    /\ pc[c] = "cancel"
    /\ ~timer_running
    /\ timer_pending' = FALSE
    /\ Goto(c, "wait_cancelled")
    /\ UNCHANGED <<word, soft, timer_running, bar_lock, req, pre, late, ret,
                   phase, overdue, served, clobbered, stale>>

\* Where a caller goes when nfp_net_reconfig_wait() returns.
AfterWait(c) ==
    CASE pc[c] = "wait_cancelled" /\ pre[c] # {} -> "start_pre"
      [] pc[c] = "wait_cancelled" /\ pre[c] = {} -> AfterEnter(c)
      [] pc[c] = "wait_pre" -> AfterEnter(c)
      [] OTHER -> "finish"

\* Mutant: does not look at the error bit.
WaitResultNoErr == "ok"

\* The return value of nfp_net_reconfig_wait() when it did not time out.
WaitResult == IF update_err THEN "err" ELSE "ok"

\* nfp_net_reconfig_wait() sees the request acknowledged or failed in time.
WaitDone(c) ==
    /\ pc[c] \in WaitStates
    /\ ~late[c]
    /\ Done
    /\ ret' = [ret EXCEPT ![c] = WaitResult]
    /\ Goto(c, AfterWait(c))
    /\ UNCHANGED <<word, soft, timer, bar_lock, req, pre, late, phase,
                   overdue, served, clobbered, stale>>

\* A poll finds the request pending and the deadline passes while it sleeps.
WaitDeadline(c) ==
    /\ pc[c] \in WaitStates
    /\ ~late[c]
    /\ ~Done
    /\ late' = [late EXCEPT ![c] = TRUE]
    /\ overdue' = TRUE
    /\ UNCHANGED <<word, soft, timer, bar_lock, pc, req, pre, ret, phase,
                   served, clobbered, stale>>

\* The last check of __nfp_net_reconfig_wait(): timed out, whatever it reads.
WaitLastCheck(c) ==
    /\ pc[c] \in WaitStates
    /\ late[c]
    /\ CheckDone(TRUE)
    /\ late' = [late EXCEPT ![c] = FALSE]
    /\ ret' = [ret EXCEPT ![c] = "err"]
    /\ Goto(c, AfterWait(c))
    /\ UNCHANGED <<word, soft, timer, bar_lock, req, pre, phase,
                   overdue, served, clobbered, stale>>

\* sync_enter() runs the requests posted before it.
StartPrePosted(c) ==
    /\ pc[c] = "start_pre"
    /\ ReconfigStart(pre[c])
    /\ Goto(c, "wait_pre")
    /\ UNCHANGED <<soft, timer, bar_lock, req, pre, late, ret, phase, stale>>

\* __nfp_net_reconfig() starts its own request.
StartOwn(c) ==
    /\ pc[c] = "start"
    /\ ReconfigStart(req[c])
    /\ Goto(c, "wait_own")
    /\ UNCHANGED <<soft, timer, bar_lock, req, pre, late, ret, phase, stale>>

\* Mutant: forgets the requests posted meanwhile.
SyncKicksNever == FALSE

\* "Sync caller will kick off async reconf when it's done".
SyncKicks == reconfig_posted # {}

\* The closing critical section of __nfp_net_reconfig().
SyncFinish(c) ==
    /\ pc[c] = "finish"
    /\ reconfig_sync_present' = FALSE
    /\ IF SyncKicks
       THEN ReconfigStartAsync({})
       ELSE UNCHANGED <<word, reconfig_posted, reconfig_timer_active,
                        timer_pending, overdue, served, clobbered>>
    /\ Goto(c, "unlock")
    /\ UNCHANGED <<timer_running, bar_lock, req, pre, late, ret, phase, stale>>

\* The closing critical section of nfp_net_reconfig_wait_posted().
WaitPostedLeave(c) ==
    /\ pc[c] = "leave"
    /\ reconfig_sync_present' = FALSE
    /\ Goto(c, IF c = Cleaner THEN "free" ELSE "unlock")
    /\ UNCHANGED <<word, reconfig_posted, reconfig_timer_active, timer, bar_lock,
                   req, pre, late, ret, phase, overdue, served, clobbered, stale>>

\* nn_ctrl_bar_unlock(); the locals of the call go out of scope.
BarUnlock(c) ==
    /\ pc[c] = "unlock"
    /\ bar_lock' = NoOne
    /\ Goto(c, "idle")
    /\ req' = [req EXCEPT ![c] = {}]
    /\ pre' = [pre EXCEPT ![c] = {}]
    /\ ret' = [ret EXCEPT ![c] = "ok"]
    /\ UNCHANGED <<word, soft, timer, late, phase,
                   overdue, served, clobbered, stale>>

-----------------------------------------------------------------------------
(* Removal. *)

\* nfp_net_clean(): unregister_netdev(), drained work queues: no user is left.
NetClean ==
    /\ phase = "up"
    /\ \A c \in Callers : pc[c] = "idle"
    /\ phase' = "down"
    /\ Goto(Cleaner, "enter")
    /\ UNCHANGED <<word, soft, timer, bar_lock, req, pre, late, ret,
                   overdue, served, clobbered, stale>>

\* nfp_net_free().
NetFree ==
    /\ pc[Cleaner] = "free"
    /\ phase' = "freed"
    /\ Goto(Cleaner, "idle")
    /\ UNCHANGED <<word, soft, timer, bar_lock, req, pre, late, ret,
                   overdue, served, clobbered, stale>>

-----------------------------------------------------------------------------

CallerStep(c) ==
    \/ MboxReconfigPost(c)
    \/ SyncEnter(c)
    \/ TimerDeleteSync(c)
    \/ WaitDone(c)
    \/ WaitDeadline(c)
    \/ WaitLastCheck(c)
    \/ StartPrePosted(c)
    \/ StartOwn(c)
    \/ SyncFinish(c)
    \/ WaitPostedLeave(c)
    \/ BarUnlock(c)

Next ==
    \/ FwAck
    \/ FwError
    \/ TimerExpire
    \/ ReconfigTimer
    \/ \E b \in Bits : ReconfigPost({b})
    \/ \E c \in Callers, b \in Bits : BarLock(c, {b}) \/ BarTrylock(c, {b})
    \/ \E c \in Callers : CallerStep(c)
    \/ NetClean
    \/ NetFree

Spec == Init /\ [][Next]_vars

(***************************************************************************)
(* The kernel runs expired timers and runnable threads.  As the control    *)
(* BAR semaphore is held from a caller's first step to its last, no two    *)
(* callers can run at a time.  Nothing is assumed of the firmware, of the  *)
(* sources of requests, or of the removal of the device.                   *)
(***************************************************************************)
Fairness ==
    /\ WF_vars(TimerExpire \/ ReconfigTimer)
    /\ WF_vars(NetFree \/ \E c \in Callers : CallerStep(c))

FairSpec == Spec /\ Fairness

-----------------------------------------------------------------------------
(* Properties. *)

TypeOK ==
    /\ update \in SUBSET Bits
    /\ update_err \in BOOLEAN
    /\ reconfig_posted \in SUBSET Bits
    /\ reconfig_timer_active \in BOOLEAN
    /\ reconfig_sync_present \in BOOLEAN
    /\ timer_pending \in BOOLEAN
    /\ timer_running \in BOOLEAN
    /\ bar_lock \in Callers \cup {NoOne}
    /\ pc \in [Callers -> PcStates]
    /\ \A c \in Callers : pc[c] \in PcStatesOf(c)
    /\ req \in [Callers -> SUBSET Bits]
    /\ pre \in [Callers -> SUBSET Bits]
    /\ late \in [Callers -> BOOLEAN]
    /\ ret \in [Callers -> {"ok", "err"}]
    /\ phase \in {"up", "down", "freed"}
    /\ overdue \in BOOLEAN
    /\ served \in SUBSET Bits
    /\ clobbered \in SUBSET Bits
    /\ stale \in BOOLEAN

(* The WARN_ON in nfp_net_reconfig_sync_enter() never fires: when a caller *)
(* enters, no other is inside, and sync_present says so exactly.           *)
SyncExclusive ==
    /\ \A c, d \in Callers :
          pc[c] \in SyncStates /\ pc[d] \in SyncStates => c = d
    /\ reconfig_sync_present <=> \E c \in Callers : pc[c] \in SyncStates

(* A request is written over while the firmware may still answer the      *)
(* previous one only after the timer handler ran for a timer that a post   *)
(* had already re-armed.                                                   *)
ClobberOnlyAfterStaleTimer == clobbered # {} => stale

(* "Reconfiguration will be kicked off whenever reconfiguration machinery *)
(* is idle": no request is ever written over an unanswered one.            *)
NoClobber == clobbered = {}

(* "Sync caller will kick off async reconf when it's done": requests are  *)
(* only left in reconfig_posted while a synchronous caller or an active    *)
(* timer is there to run them.                                             *)
PostedHasRunner ==
    reconfig_posted # {} => reconfig_sync_present \/ reconfig_timer_active

(* Nobody leaves them without one but a mailbox worker that has waited for *)
(* posted requests, nfp_net_reconfig_wait_posted().                        *)
OnlyWaitersOrphan ==
    [][PostedHasRunner /\ ~PostedHasRunner'
          => \E c \in Waits : pc[c] = "leave"]_vars

(* A synchronous reconfiguration that reports success was acknowledged by *)
(* the firmware for exactly the bits it asked for.                         *)
SyncOkMeansServed ==
    \A c \in Syncs : pc[c] = "finish" /\ ret[c] = "ok" => served = req[c]

(* While a synchronous caller waits for its own request nobody else writes*)
(* the update word: it only changes by the firmware's answer.              *)
SyncOwnsWord ==
    [][\A c \in Callers :
         pc[c] \in {"wait_pre", "wait_own"} /\ pc'[c] = pc[c]
            => update' \in {update, {}}]_vars

(* Removal leaves no request behind, and no timer behind either unless the*)
(* handler ran for a re-armed timer.                                       *)
FreeLeavesNothing ==
    phase = "freed" =>
        /\ reconfig_posted = {}
        /\ ~timer_pending \/ stale

(* Posted requests that have a runner are eventually taken out of         *)
(* reconfig_posted, all at once, and handed to the firmware, whatever the  *)
(* firmware does with them, unless a mailbox worker leaves first.          *)
PostedEventuallyStarted ==
    reconfig_posted # {} /\ PostedHasRunner
        ~> reconfig_posted = {} \/ \E c \in Waits : pc[c] = "leave"

(* A caller that has the control BAR always gives it back, even when the  *)
(* firmware never answers.                                                 *)
CallersReturn ==
    (\E c \in Callers : pc[c] # "idle") ~> (\A c \in Callers : pc[c] = "idle")

-----------------------------------------------------------------------------
(* One update at a time: no two synchronous callers are inside, and a     *)
(* request is written over an unanswered one only after a stale timer.     *)
UpdatesExclusive == SyncExclusive /\ ClobberOnlyAfterStaleTimer

(* What a return means: success means that the firmware served exactly    *)
(* the request, the end of removal that nothing is left to do.             *)
ReturnsSound == SyncOkMeansServed /\ FreeLeavesNothing

(* What no step does: write the update word under a caller that waits for *)
(* its own request, or leave posted requests without a runner, except for  *)
(* a mailbox worker on its way out.                                        *)
WordSteps == SyncOwnsWord /\ OnlyWaitersOrphan

(* Posted requests are started and callers return, whatever the firmware  *)
(* does.                                                                   *)
ReconfigProgress == PostedEventuallyStarted /\ CallersReturn

=============================================================================

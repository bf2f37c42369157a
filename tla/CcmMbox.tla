------------------------------ MODULE CcmMbox ------------------------------
(***************************************************************************)
(* Control messages through the vNIC mailbox (ccm_mbox.c).  Threads put    *)
(* their message into one queue; the thread whose message is first copies  *)
(* a batch into the mailbox, runs the reconfiguration and completes the    *)
(* batch.  Posted messages, which nobody waits for, are run by two work    *)
(* items: wait_work when the post found the control BAR free, runq_work    *)
(* otherwise.                                                              *)
(*                                                                         *)
(* Every section under the queue's spin lock is one action.  A message     *)
(* bears the name of the thread or of the post that sent it.               *)
(***************************************************************************)
EXTENDS Integers, Sequences, SequencesExt

CONSTANTS
    Callers,    \* threads in __nfp_ccm_mbox_communicate()
    Posts,      \* messages sent with nfp_ccm_mbox_post()
    WaitWork, RunqWork,     \* the two work items
    Other,      \* any other user of the control BAR
    NoOne,
    Size,       \* Size[m]: mailbox space for request and reply of m
    Space,      \* mailbox space for one batch
    BatchLimit, \* NFP_CCM_MBOX_BATCH_LIMIT
    MaxQlen     \* NFP_CCM_MAX_QLEN

Msgs    == Callers \cup Posts
Works   == {WaitWork, RunqWork}
Runners == Callers \cup Works

ASSUME MboxConstants ==
    /\ Callers \cap Posts = {} /\ Msgs \cap Works = {}
    /\ Other \notin Runners /\ NoOne \notin Runners \cup {Other}
    /\ Space \in Nat /\ Size \in [Msgs -> 1 .. Space]
    /\ BatchLimit \in Nat \ {0, 1} /\ MaxQlen \in Nat

VARIABLES
    queue,      \* mbox_cmsg.queue
    st,         \* cb->state of each message, "none" when it does not exist
    err,        \* cb->err of the callers' messages
    frees,      \* how often the skb of a caller's message was freed
    pc,         \* where each thread and work item is
    last,       \* last message of the batch a runner works on
    timed_out,  \* the caller's wait has timed out
    ret,        \* what the caller's last call returned, "ok" during one
    asleep,     \* callers that sleep on mbox_cmsg.wq
    pending,    \* queued work items
    bar,        \* holder of the control BAR semaphore
    phase       \* "up", "closing", "freed"

msgs == <<queue, st, err, frees>>
vars == <<msgs, pc, last, timed_out, ret, asleep, pending, bar, phase>>

PcStates == {"idle", "wait", "relock", "waitdone", "barlock", "reconfig", "wake"}

Init ==
    /\ queue = <<>>
    /\ st = [m \in Msgs |-> "none"]
    /\ err = [c \in Callers |-> "0"]
    /\ frees = [c \in Callers |-> 0]
    /\ pc = [r \in Runners |-> "idle"]
    /\ last = [r \in Runners |-> NoOne]
    /\ timed_out = [c \in Callers |-> FALSE]
    /\ ret = [c \in Callers |-> "ok"]
    /\ asleep = {} /\ pending = {}
    /\ bar = NoOne /\ phase = "up"

IsFirst(q, m) == q # <<>> /\ q[1] = m
Pos(q, m) == CHOOSE i \in DOMAIN q : q[i] = m
UpTo(q, m) == {q[i] : i \in 1 .. Pos(q, m)}

-----------------------------------------------------------------------------
(* Batches. *)

\* Space the first k messages take.
SpaceFor(q, k) ==
    LET sum[i \in 0 .. k] == IF i = 0 THEN 0 ELSE sum[i - 1] + Size[q[i]]
    IN  sum[k]

\* The loop of nfp_ccm_mbox_run_queue_unlock(): the first message always fits.
BatchLen(q) ==
    CHOOSE k \in 1 .. Len(q) :
        /\ k = 1 \/ (SpaceFor(q, k) <= Space /\ k <= BatchLimit)
        /\ \A j \in k + 1 .. Len(q) : SpaceFor(q, j) > Space \/ j > BatchLimit

\* The messages nfp_ccm_mbox_set_busy() marks.
TakenAlong(q) == {q[i] : i \in 2 .. BatchLen(q)}

\* nfp_ccm_mbox_run_queue_unlock() up to spin_unlock_bh().
StartRun(r, q, s) ==
    /\ LET taken == TakenAlong(q) IN
       st' = [m \in Msgs |-> IF m \in taken THEN "busy" ELSE s[m]]
    /\ last' = [last EXCEPT ![r] = q[BatchLen(q)]]
    /\ pc' = [pc EXCEPT ![r] = "barlock"]

\* nfp_ccm_mbox_mark_next_runner(): the first message, marked NEXT ...
NextRunner(q) == IF q = <<>> THEN {} ELSE {q[1]}

\* ... and runq_work, when that message is posted.
NextWork(q) == IF NextRunner(q) \cap Posts # {} THEN {RunqWork} ELSE {}

\* The loops that dequeue up to the last message of the batch.
Rest(q, m) == SubSeq(q, Pos(q, m) + 1, Len(q))

\* Take the batch off the queue with the given results, mark the next runner;
\* the messages in gone are freed.
Complete(r, results, gone) ==
    LET batch == UpTo(queue, last[r])
        q == Rest(queue, last[r])
    IN  /\ queue' = q
        /\ err' = [c \in Callers |-> IF c \in batch THEN results[c] ELSE err[c]]
        /\ st' = [m \in Msgs |-> IF m \in gone THEN "none"
                                 ELSE IF m \in batch THEN "done"
                                 ELSE IF m \in NextRunner(q) THEN "next" ELSE st[m]]
        /\ pending' = pending \cup NextWork(q)
        /\ UNCHANGED frees

\* nn_ctrl_bar_lock() of the runner, and nfp_ccm_mbox_copy_in().
BarLock(r) ==
    /\ pc[r] = "barlock"
    /\ bar = NoOne
    /\ bar' = r
    /\ pc' = [pc EXCEPT ![r] = "reconfig"]
    /\ UNCHANGED <<msgs, last, timed_out, ret, asleep, pending, phase>>

\* The mailbox command succeeds; nfp_ccm_mbox_copy_out() finds good replies for
\* some of the batch.  Errors found while parsing become -ENOENT like the rest.
CopyOut(r) ==
    LET batch == UpTo(queue, last[r]) IN
    /\ pc[r] = "reconfig"
    /\ \E found \in SUBSET batch :
         Complete(r, [m \in batch |-> IF m \in found THEN "0" ELSE "enoent"],
                  batch \cap Posts)
    /\ pc' = [pc EXCEPT ![r] = "wake"]
    /\ UNCHANGED <<last, timed_out, ret, asleep, bar, phase>>

\* The mailbox command fails: nfp_ccm_mbox_mark_all_err().
MarkAllErr(r) ==
    /\ pc[r] = "reconfig"
    /\ Complete(r, [m \in Msgs |-> "eio"], {})
    /\ pc' = [pc EXCEPT ![r] = "wake"]
    /\ UNCHANGED <<last, timed_out, ret, asleep, bar, phase>>

\* The call of c is over.
Gone(c) ==
    /\ pc' = [pc EXCEPT ![c] = "idle"]
    /\ st' = [st EXCEPT ![c] = "none"]
    /\ err' = [err EXCEPT ![c] = "0"]
    /\ timed_out' = [timed_out EXCEPT ![c] = FALSE]

\* nfp_ccm_mbox_skb_return() frees the skb on error and then reads cb->err
\* from it, which may be anything by now; extra frees are its caller's.
SkbReturn(c, extra) ==
    /\ IF err[c] = "0"
       THEN ret' = [ret EXCEPT ![c] = "ok"] /\ UNCHANGED frees
       ELSE \E res \in {"ok", "err"} :
              /\ ret' = [ret EXCEPT ![c] = res]
              /\ frees' = [frees EXCEPT ![c] = @ + 1 + IF res = "err" THEN extra ELSE 0]
    /\ Gone(c)

\* Mutant: the runner does not wake anybody.
SleepersLeftAll == asleep

\* wake_up_all()
SleepersLeft == {}

\* The runner gives the BAR back and wakes the waiters; a caller returns.
WakeAll(r) ==
    /\ pc[r] = "wake"
    /\ bar' = NoOne
    /\ asleep' = SleepersLeft
    /\ last' = [last EXCEPT ![r] = NoOne]
    /\ IF r \in Callers THEN SkbReturn(r, 0)
       ELSE pc' = [pc EXCEPT ![r] = "idle"] /\ UNCHANGED <<st, err, timed_out, frees, ret>>
    /\ UNCHANGED <<queue, pending, phase>>

-----------------------------------------------------------------------------
(* __nfp_ccm_mbox_communicate() *)

\* The message is queued (a critical one whatever the length of the queue);
\* its sender runs the queue if it is the first.
Communicate(c) ==
    LET q == Append(queue, c)
        s == [st EXCEPT ![c] = "queued"]
    IN  /\ phase = "up" /\ pc[c] = "idle"
        /\ queue' = q
        /\ frees' = [frees EXCEPT ![c] = 0]
        /\ ret' = [ret EXCEPT ![c] = "ok"]
        /\ IF IsFirst(q, c) THEN StartRun(c, q, s)
           ELSE st' = s /\ pc' = [pc EXCEPT ![c] = "wait"] /\ UNCHANGED last
        /\ UNCHANGED <<err, timed_out, asleep, pending, bar, phase>>

\* The message does not fit, or the queue is too long and it is not critical.
CommunicateFails(c) ==
    /\ phase = "up" /\ pc[c] = "idle"
    /\ frees' = [frees EXCEPT ![c] = 1]
    /\ ret' = [ret EXCEPT ![c] = "err"]
    /\ UNCHANGED <<queue, st, err, pc, last, timed_out, asleep, pending, bar, phase>>

\* wait_event_timeout() looks at the message: done, ours to run, or sleep on.
WaitCheck(c) ==
    /\ pc[c] = "wait" /\ c \notin asleep
    /\ CASE st[c] = "done" ->
              SkbReturn(c, 0) /\ UNCHANGED asleep
         [] st[c] = "next" ->
              /\ pc' = [pc EXCEPT ![c] = "relock"]
              /\ UNCHANGED <<st, err, frees, timed_out, ret, asleep>>
         [] OTHER ->
              asleep' = asleep \cup {c} /\ UNCHANGED <<st, err, frees, pc, timed_out, ret>>
    /\ UNCHANGED <<queue, last, pending, bar, phase>>

\* wait_event_timeout() returns 0.
WaitTimeout(c) ==
    /\ pc[c] = "wait"
    /\ st[c] \notin {"done", "next"}
    /\ pc' = [pc EXCEPT ![c] = "relock"]
    /\ timed_out' = [timed_out EXCEPT ![c] = TRUE]
    /\ asleep' = asleep \ {c}
    /\ UNCHANGED <<msgs, last, ret, pending, bar, phase>>

\* Mutant: forgets that a runner may own the message.
InProgressNever(c) == FALSE

\* nfp_ccm_mbox_in_progress()
InProgress(c) == st[c] \in {"busy", "done"}

\* With the lock again, and the message now first: run the queue.
RelockRun(c) ==
    /\ pc[c] = "relock"
    /\ IsFirst(queue, c)
    /\ StartRun(c, queue, st)
    /\ UNCHANGED <<queue, err, frees, timed_out, ret, asleep, pending, bar, phase>>

\* nfp_ccm_mbox_unlink_unlock(): wait for the runner that has the message.
RelockInProgress(c) ==
    /\ pc[c] = "relock"
    /\ ~IsFirst(queue, c) /\ InProgress(c)
    /\ pc' = [pc EXCEPT ![c] = "waitdone"]
    /\ UNCHANGED <<msgs, last, timed_out, ret, asleep, pending, bar, phase>>

\* nfp_ccm_mbox_unlink_unlock(): leave the queue with -ETIMEDOUT.
Unlink(c) ==
    LET q == SelectSeq(queue, LAMBDA m : m # c)
        was_first == st[c] = "next"
    IN  /\ pc[c] = "relock"
        /\ ~IsFirst(queue, c) /\ ~InProgress(c)
        /\ queue' = q
        /\ st' = [m \in Msgs |-> IF m = c THEN "none"
                                 ELSE IF was_first /\ m \in NextRunner(q) THEN "next"
                                 ELSE st[m]]
        /\ pending' = IF was_first THEN pending \cup NextWork(q) ELSE pending
        /\ asleep' = IF was_first THEN {} ELSE asleep
        /\ frees' = [frees EXCEPT ![c] = @ + 1]
        /\ ret' = [ret EXCEPT ![c] = "err"]
        /\ pc' = [pc EXCEPT ![c] = "idle"]
        /\ timed_out' = [timed_out EXCEPT ![c] = FALSE]
        /\ UNCHANGED <<err, last, bar, phase>>

\* wait_event() of nfp_ccm_mbox_unlink_unlock(); its caller frees the skb of a
\* message that failed once more.
WaitDone(c) ==
    /\ pc[c] = "waitdone" /\ c \notin asleep
    /\ IF st[c] = "done"
       THEN SkbReturn(c, 1) /\ UNCHANGED asleep
       ELSE asleep' = asleep \cup {c} /\ UNCHANGED <<st, err, frees, pc, timed_out, ret>>
    /\ UNCHANGED <<queue, last, pending, bar, phase>>

-----------------------------------------------------------------------------
(* nfp_ccm_mbox_post() and the work items *)

\* A post that finds its message first and the BAR free starts the mailbox
\* command itself; first with the BAR taken, it leaves it to runq_work.
Post(p) ==
    LET q == Append(queue, p)
        first == IsFirst(q, p)
        direct == first /\ bar = NoOne
    IN  /\ phase = "up" /\ st[p] = "none"
        /\ Len(queue) < MaxQlen
        /\ queue' = q
        /\ st' = [st EXCEPT ![p] = IF first /\ ~direct THEN "next" ELSE "queued"]
        /\ bar' = IF direct THEN WaitWork ELSE bar
        /\ pending' = pending \cup
                        CASE direct -> {WaitWork}
                          [] first /\ ~direct -> {RunqWork}
                          [] OTHER -> {}
        /\ UNCHANGED <<err, frees, pc, last, timed_out, ret, asleep, phase>>

\* nfp_ccm_mbox_post_runq_work() starts, or its WARN_ON fires and it returns.
RunqStart ==
    /\ RunqWork \in pending /\ pc[RunqWork] = "idle"
    /\ pending' = pending \ {RunqWork}
    /\ IF queue # <<>> /\ queue[1] \in Posts /\ st[queue[1]] = "next"
       THEN StartRun(RunqWork, queue, st)
       ELSE UNCHANGED <<st, last, pc>>
    /\ UNCHANGED <<queue, err, frees, timed_out, ret, asleep, bar, phase>>

\* nfp_ccm_mbox_post_wait_work() starts: it completes the first message.
WaitStart ==
    /\ WaitWork \in pending /\ pc[WaitWork] = "idle"
    /\ pending' = pending \ {WaitWork}
    /\ IF queue # <<>> /\ queue[1] \in Posts
       THEN /\ pc' = [pc EXCEPT ![WaitWork] = "reconfig"]
            /\ last' = [last EXCEPT ![WaitWork] = queue[1]]
       ELSE pc' = [pc EXCEPT ![WaitWork] = "wake"] /\ UNCHANGED last
    /\ UNCHANGED <<msgs, timed_out, ret, asleep, bar, phase>>

-----------------------------------------------------------------------------
(* Other users of the BAR, and removal *)

OtherLock ==
    /\ bar = NoOne /\ bar' = Other
    /\ UNCHANGED <<msgs, pc, last, timed_out, ret, asleep, pending, phase>>

OtherUnlock ==
    /\ bar = Other /\ bar' = NoOne
    /\ UNCHANGED <<msgs, pc, last, timed_out, ret, asleep, pending, phase>>

\* The netdev is unregistered: no new messages.
Unregister ==
    /\ phase = "up" /\ phase' = "closing"
    /\ UNCHANGED <<msgs, pc, last, timed_out, ret, asleep, pending, bar>>

\* nfp_ccm_mbox_clean() drains the work queue, nfp_ccm_mbox_free() follows.
Clean ==
    /\ phase = "closing"
    /\ \A r \in Runners : pc[r] = "idle"
    /\ pending = {}
    /\ phase' = "freed"
    /\ UNCHANGED <<msgs, pc, last, timed_out, ret, asleep, pending, bar>>

\* What the runner that has the BAR does.
RunnerStep(r) == CopyOut(r) \/ MarkAllErr(r) \/ WakeAll(r)

CallerStep(c) ==
    \/ WaitCheck(c) \/ WaitTimeout(c) \/ WaitDone(c)
    \/ RelockRun(c) \/ RelockInProgress(c) \/ Unlink(c)

Next ==
    \/ \E r \in Runners : BarLock(r) \/ RunnerStep(r)
    \/ \E c \in Callers : Communicate(c) \/ CommunicateFails(c) \/ CallerStep(c)
    \/ \E p \in Posts : Post(p)
    \/ RunqStart \/ WaitStart \/ OtherLock \/ OtherUnlock \/ Unregister \/ Clean

Spec == Init /\ [][Next]_vars

(***************************************************************************)
(* Runnable threads and queued work run, waits time out, mailbox commands  *)
(* return (see Reconfig), and the semaphore serves its waiters in turn.    *)
(***************************************************************************)
Fairness ==
    /\ SF_vars(\E r \in Runners : BarLock(r))
    /\ WF_vars(\E r \in Runners : RunnerStep(r))
    /\ \A c \in Callers : WF_vars(CallerStep(c))
    /\ WF_vars(RunqStart) /\ WF_vars(WaitStart) /\ WF_vars(OtherUnlock)
    /\ WF_vars(Clean)

FairSpec == Spec /\ Fairness

-----------------------------------------------------------------------------
(* Properties. *)

TypeOK ==
    /\ queue \in Seq(Msgs) /\ IsInjective(queue)
    /\ st \in [Msgs -> {"none", "queued", "next", "busy", "done"}]
    /\ err \in [Callers -> {"0", "eio", "enoent"}]
    /\ frees \in [Callers -> 0 .. 2]
    /\ pc \in [Runners -> PcStates]
    /\ last \in [Runners -> Msgs \cup {NoOne}]
    /\ timed_out \in [Callers -> BOOLEAN]
    /\ ret \in [Callers -> {"ok", "err"}]
    /\ asleep \subseteq Callers
    /\ pending \subseteq Works
    /\ bar \in Runners \cup {Other, NoOne}
    /\ phase \in {"up", "closing", "freed"}

Active(r) == pc[r] \in {"barlock", "reconfig"}

(* "Now we own all skb's marked in progress": one runner at a time, its    *)
(* batch is still the head of the queue when the firmware is done, and the *)
(* messages marked busy are exactly those it took along, whichever senders *)
(* time out meanwhile; the loops that dequeue up to last find it.          *)
RunnerOwnsBatch ==
    /\ \A r, s \in Runners : Active(r) /\ Active(s) => r = s
    /\ \A r \in Runners : Active(r) => last[r] \in ToSet(queue)
    /\ {m \in Msgs : st[m] = "busy"} =
         UNION {UpTo(queue, last[r]) \ {queue[1]} : r \in {r \in Runners : Active(r)}}

(* The first message always has somebody to run it: its sender, awake or   *)
(* about to be woken, or a work item; and the WARN_ONs of the work items   *)
(* and of a sender that was told to run never fire.                        *)
FirstHasRunner ==
    /\ queue # <<>> =>
         LET m == queue[1] IN
         \/ m \in Callers /\ Active(m)
         \/ /\ m \in Callers /\ st[m] = "next" /\ pc[m] \in {"wait", "relock"}
            /\ m \in asleep => \E r \in Runners : pc[r] = "wake"
         \/ m \in Posts /\ (Active(RunqWork) \/ Active(WaitWork))
         \/ m \in Posts /\ st[m] = "next" /\ RunqWork \in pending
         \/ m \in Posts /\ st[m] = "queued" /\ WaitWork \in pending /\ bar = WaitWork
    /\ RunqWork \in pending => st[queue[1]] = "next" /\ queue[1] \in Posts
    /\ WaitWork \in pending => queue[1] \in Posts
    /\ \A c \in Callers : pc[c] = "relock" /\ ~timed_out[c] => IsFirst(queue, c)

(* No skb is freed while it is in the queue, so that a runner never copies *)
(* a freed request or into one; and nothing is left in the queue when it   *)
(* is freed, which nfp_ccm_mbox_free() warns about.                        *)
QueuedIsAlive ==
    /\ \A m \in ToSet(queue) : st[m] # "none" /\ (m \in Callers => frees[m] = 0)
    /\ phase = "freed" => queue = <<>>

(* "If a thread is waiting it either gets its message completed (response  *)
(* is copied into the same skb as the request), or becomes the first in    *)
(* queue": a call that returns 0 has its skb, with the reply; one that     *)
(* fails has freed it, once.                                               *)
ReturnContract ==
    \A c \in Callers :
        /\ ret[c] = "ok" => frees[c] = 0
        /\ ret[c] = "err" => frees[c] = 1

(* Every call returns, whatever the firmware answers and whoever else uses *)
(* the control BAR.                                                        *)
CallersReturn == \A c \in Callers : pc[c] # "idle" ~> pc[c] = "idle"

(* Every posted message is completed: removal does not wait forever.       *)
DrainEnds == phase = "closing" ~> phase = "freed"

(* Nobody but the runner that marked it takes a batch off the queue, the   *)
(* queue never waits without a runner, and no message is freed while       *)
(* queued.                                                                 *)
BatchesOwned == TypeOK /\ RunnerOwnsBatch /\ FirstHasRunner /\ QueuedIsAlive

(* Calls return and removal ends.                                          *)
MboxProgress == CallersReturn /\ DrainEnds

=============================================================================

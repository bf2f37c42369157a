--------------------------------- MODULE Qos ---------------------------------
(***************************************************************************)
(* Rate limiters of VF ports and meters of police actions of the flower    *)
(* app (flower/qos_conf.c).  Both are counted in qos_rate_limiters, and    *)
(* while that is not zero a delayed work asks the firmware for statistics. *)
(* Limiters are changed under nfp_fl_lock, meters under meter_stats_lock;  *)
(* the work takes the latter too, and whoever brings the counter to zero   *)
(* waits for the work.                                                     *)
(*                                                                         *)
(* A limiter is named by its port.  qos_rate_limiters++ is a load and a    *)
(* store; TC has at most one limiter on a port and does not change one     *)
(* meter from two sides at a time.                                         *)
(***************************************************************************)
EXTENDS Integers, Sequences, FiniteSets, SequencesExt

CONSTANTS
    VfPorts,        \* ports that may have a limiter
    Meters,         \* meter ids
    QosThreads,     \* threads that call into the driver
    MaxQosOps,      \* bound: limiters and meters installed and removed
    MaxPkts,        \* bound: packets a limiter or meter counts
    MaxReplies      \* bound: replies under way when the work starts

ASSUME QosConstants == MaxQosOps \in Nat /\ MaxPkts \in Nat /\ MaxReplies \in Nat

Nobody == "nobody"
Things == VfPorts \cup Meters

VARIABLES
    installed,      \* ports with a limiter (qos_table.netdev_port_id), meters in the table
    count,          \* qos_rate_limiters
    pending,        \* qos_stats_work is queued
    worker,         \* update_stats_cache(): "idle", "lock", "resched"
    fl_lock, meter_lock,
    qpc,            \* what each thread does: [pc, what, n]
    table,          \* the counters of the driver: [curr, prev, update]
    fwcount,        \* the counters of the firmware
    reply,          \* statistics messages under way, in order: [of, pkts, late]
    qhist           \* [overlap, late, negative, ops]

qosvars == <<installed, count, pending, worker, fl_lock, meter_lock, qpc, table, fwcount, reply, qhist>>

Calm == [pc |-> "idle", what |-> Nobody, n |-> 0]
NoStats == [curr |-> 0, prev |-> 0, update |-> FALSE]

nfp_flower_qos_init ==
    /\ installed = {} /\ count = 0 /\ pending = FALSE /\ worker = "idle"
    /\ fl_lock = Nobody /\ meter_lock = Nobody
    /\ qpc = [t \in QosThreads |-> Calm]
    /\ table = [x \in Things |-> NoStats] /\ fwcount = [x \in Things |-> 0]
    /\ reply = <<>> /\ qhist = [overlap |-> FALSE, late |-> FALSE, negative |-> FALSE, ops |-> 0]

LockOf(x) == IF x \in VfPorts THEN fl_lock ELSE meter_lock
Take(x, t) == IF x \in VfPorts THEN fl_lock = Nobody /\ fl_lock' = t /\ UNCHANGED meter_lock
              ELSE meter_lock = Nobody /\ meter_lock' = t /\ UNCHANGED fl_lock
Drop(x) == IF x \in VfPorts THEN fl_lock' = Nobody /\ UNCHANGED meter_lock
           ELSE meter_lock' = Nobody /\ UNCHANGED fl_lock
Goto(t, pc) == qpc' = [qpc EXCEPT ![t].pc = pc]
Done(t, x) == qpc' = [qpc EXCEPT ![t] = Calm] /\ Drop(x)
Cancelling == \E t \in QosThreads : qpc[t].pc = "cancel"

\* Operations that started before the others ended, under the two locks.
Overlaps(x) ==
    \E t \in QosThreads : qpc[t].pc # "idle" /\ (qpc[t].what \in VfPorts) # (x \in VfPorts)

Starts(t, x, pc) ==
    /\ qpc[t].pc = "idle" /\ qhist.ops < MaxQosOps
    /\ \A u \in QosThreads : qpc[u].what # x
    /\ qpc' = [qpc EXCEPT ![t] = [pc |-> pc, what |-> x, n |-> 0]]
    /\ qhist' = [qhist EXCEPT !.ops = @ + 1, !.overlap = @ \/ Overlaps(x)]
    /\ UNCHANGED <<installed, count, pending, worker, fl_lock, meter_lock, table, fwcount, reply>>

-----------------------------------------------------------------------------
(***************************************************************************)
(* Installing.  A meter that exists is only given new rates.               *)
(***************************************************************************)
\* TC's commands for a port's limiter, and for a meter.
nfp_flower_setup_qos_offload(t, x) ==
    x \in VfPorts /\ Starts(t, x, IF x \in installed THEN "remove" ELSE "install")
nfp_setup_tc_act_offload(t, x) ==
    x \in Meters /\ (Starts(t, x, "install") \/ (x \in installed /\ Starts(t, x, "remove")))

nfp_flower_install_rate_limiter(t) ==
    /\ qpc[t].pc = "install" /\ qpc[t].what \in VfPorts
    /\ Take(qpc[t].what, t)
    /\ installed' = installed \cup {qpc[t].what}
    /\ Goto(t, "load") /\ UNCHANGED <<count, pending, worker, table, fwcount, reply, qhist>>

\* The entry may not be had: nothing is installed.
nfp_flower_add_meter_entry(t) ==
    /\ qpc[t].pc = "install" /\ qpc[t].what \in Meters
    /\ meter_lock = Nobody
    /\ \/ UNCHANGED <<installed, fl_lock, meter_lock, table>> /\ qpc' = [qpc EXCEPT ![t] = Calm]
       \/ /\ qpc[t].what \notin installed
          /\ installed' = installed \cup {qpc[t].what} /\ Take(qpc[t].what, t)
          /\ table' = [table EXCEPT ![qpc[t].what] = NoStats] /\ Goto(t, "load")
    /\ UNCHANGED <<count, pending, worker, fwcount, reply, qhist>>

LoadCount(t) ==
    /\ qpc[t].pc \in {"load", "unload"}
    /\ qpc' = [qpc EXCEPT ![t].pc = IF @ = "load" THEN "store" ELSE "unstore", ![t].n = count]
    /\ UNCHANGED <<installed, count, pending, worker, fl_lock, meter_lock, table, fwcount, reply, qhist>>

IsSecond(n) == n = 2
IsFirst(n) == n = 1

\* The first one starts the work, unless that is being cancelled.
CountUp(t) ==
    /\ qpc[t].pc = "store"
    /\ count' = qpc[t].n + 1
    /\ pending' = (pending \/ (IsFirst(count') /\ ~Cancelling))
    /\ Done(t, qpc[t].what)
    /\ UNCHANGED <<installed, worker, table, fwcount, reply, qhist>>

-----------------------------------------------------------------------------
(***************************************************************************)
(* Removing.  The firmware is told to forget the counters.                 *)
(***************************************************************************)
TableCleared(x) == [table EXCEPT ![x] = NoStats]

ForgetsIn(x) ==
    /\ fwcount' = [fwcount EXCEPT ![x] = 0]
    /\ reply' = [i \in DOMAIN reply |-> [reply[i] EXCEPT !.late = @ \/ reply[i].of = x]]

nfp_flower_remove_rate_limiter(t) ==
    /\ qpc[t].pc = "remove" /\ qpc[t].what \in VfPorts
    /\ Take(qpc[t].what, t)
    /\ installed' = installed \ {qpc[t].what}
    /\ table' = TableCleared(qpc[t].what)
    /\ Goto(t, "unload")
    /\ UNCHANGED <<count, pending, worker, fwcount, reply, qhist>>

\* nfp_act_remove_actions() sends its message first, without the lock.
nfp_act_remove_actions(t) ==
    /\ qpc[t].pc = "remove" /\ qpc[t].what \in Meters
    /\ \/ ForgetsIn(qpc[t].what) /\ Goto(t, "delete")
       \/ UNCHANGED <<fwcount, reply>> /\ qpc' = [qpc EXCEPT ![t] = Calm]
    /\ UNCHANGED <<installed, count, pending, worker, fl_lock, meter_lock, table, qhist>>

nfp_flower_del_meter_entry(t) ==
    /\ qpc[t].pc = "delete" /\ Take(qpc[t].what, t)
    /\ installed' = installed \ {qpc[t].what}
    /\ Goto(t, "unload")
    /\ UNCHANGED <<count, pending, worker, table, fwcount, reply, qhist>>

CountDown(t) ==
    /\ qpc[t].pc = "unstore"
    /\ count' = qpc[t].n - 1
    /\ IF count' = 0 THEN Goto(t, "cancel") /\ pending' = FALSE ELSE Goto(t, "removed") /\ UNCHANGED pending
    /\ UNCHANGED <<installed, worker, fl_lock, meter_lock, table, fwcount, reply, qhist>>

\* cancel_delayed_work_sync() returns when the work does not run.
CancelReturns(t) ==
    /\ qpc[t].pc = "cancel" /\ worker = "idle"
    /\ Goto(t, "removed")
    /\ UNCHANGED <<installed, count, pending, worker, fl_lock, meter_lock, table, fwcount, reply, qhist>>

\* The message to the firmware may not be had.
Removed(t) ==
    /\ qpc[t].pc = "removed"
    /\ \/ qpc[t].what \in VfPorts /\ ForgetsIn(qpc[t].what)
       \/ UNCHANGED <<fwcount, reply>>
    /\ Done(t, qpc[t].what)
    /\ UNCHANGED <<installed, count, pending, worker, table, qhist>>

-----------------------------------------------------------------------------
(***************************************************************************)
(* The work, and the firmware's replies.                                   *)
(***************************************************************************)
Asked(set) == SetToSeq({[of |-> x, pkts |-> fwcount[x], late |-> FALSE] : x \in set \cap installed})

nfp_flower_stats_rlim_request_all ==
    /\ pending /\ worker = "idle" /\ Len(reply) <= MaxReplies /\ pending' = FALSE /\ worker' = "lock"
    /\ reply' = reply \o Asked(VfPorts)
    /\ UNCHANGED <<installed, count, fl_lock, meter_lock, qpc, table, fwcount, qhist>>

nfp_flower_stats_meter_request_all ==
    /\ worker = "lock" /\ meter_lock = Nobody /\ worker' = "resched"
    /\ reply' = reply \o Asked(Meters)
    /\ UNCHANGED <<installed, count, pending, fl_lock, meter_lock, qpc, table, fwcount, qhist>>

update_stats_cache ==
    /\ worker = "resched" /\ worker' = "idle" /\ pending' = ~Cancelling
    /\ UNCHANGED <<installed, count, fl_lock, meter_lock, qpc, table, fwcount, reply, qhist>>

FirmwareCountsPkt(x) ==
    /\ x \in installed /\ fwcount[x] < MaxPkts /\ \A t \in QosThreads : qpc[t].what # x
    /\ fwcount' = [fwcount EXCEPT ![x] = @ + 1]
    /\ UNCHANGED <<installed, count, pending, worker, fl_lock, meter_lock, qpc, table, reply, qhist>>

\* nfp_flower_stats_rlim_reply(), nfp_act_stats_reply()
StatsReply ==
    /\ reply # <<>> /\ reply' = Tail(reply)
    /\ Head(reply).of \in VfPorts \/ meter_lock = Nobody
    /\ LET r == Head(reply) IN
       table' = IF r.of \in Meters /\ r.of \notin installed THEN table
                ELSE [table EXCEPT ![r.of] = [curr |-> r.pkts, update |-> TRUE,
                                              prev |-> IF @.update THEN @.prev ELSE r.pkts]]
    /\ qhist' = [qhist EXCEPT !.late = @ \/ Head(reply).late \/ Head(reply).of \notin installed]
    /\ UNCHANGED <<installed, count, pending, worker, fl_lock, meter_lock, qpc, fwcount>>

\* nfp_flower_stats_rate_limiter(), nfp_act_stats_actions(): a limiter's
\* difference is not checked, a meter's is.
StatsReported(x) ==
    /\ x \in installed /\ LockOf(x) = Nobody
    /\ table' = [table EXCEPT ![x].prev = table[x].curr]
    /\ qhist' = [qhist EXCEPT !.negative = @ \/ (x \in VfPorts /\ table[x].curr < table[x].prev)]
    /\ UNCHANGED <<installed, count, pending, worker, fl_lock, meter_lock, qpc, fwcount, reply>>

QosStep(t) ==
    \/ \E x \in Things : nfp_flower_setup_qos_offload(t, x) \/ nfp_setup_tc_act_offload(t, x)
    \/ nfp_flower_install_rate_limiter(t) \/ nfp_flower_add_meter_entry(t)
    \/ LoadCount(t) \/ CountUp(t) \/ CountDown(t) \/ CancelReturns(t) \/ Removed(t)
    \/ nfp_flower_remove_rate_limiter(t) \/ nfp_act_remove_actions(t) \/ nfp_flower_del_meter_entry(t)

QosNext ==
    \/ \E t \in QosThreads : QosStep(t)
    \/ nfp_flower_stats_rlim_request_all \/ nfp_flower_stats_meter_request_all \/ update_stats_cache
    \/ \E x \in Things : FirmwareCountsPkt(x) \/ StatsReported(x)
    \/ StatsReply

-----------------------------------------------------------------------------
(***************************************************************************)
(* Properties.                                                             *)
(***************************************************************************)
\* While nobody is changing anything, the counter is the number of limiters
\* and meters, and the work is queued or running exactly when it is not zero
\* (qos_conf.c:312, 356, 635, 657), unless operations under the two locks
\* overlapped.
PolledWhileCounted ==
    (\A t \in QosThreads : qpc[t].pc = "idle") /\ ~qhist.overlap =>
        /\ count = Cardinality(installed)
        /\ (pending \/ worker # "idle") <=> count > 0

Holder(l) == IF l = Nobody THEN {} ELSE {l}
\* Whom a thread or the work waits for.
WaitsFor(t) ==
    CASE qpc[t].pc \in {"install", "remove"} /\ qpc[t].what \in VfPorts -> Holder(fl_lock)
      [] qpc[t].pc \in {"install", "delete"} /\ qpc[t].what \in Meters -> Holder(meter_lock)
      [] qpc[t].pc = "cancel" /\ worker # "idle" -> {"work"}
      [] OTHER -> {}
WorkWaitsFor == IF worker = "lock" THEN Holder(meter_lock) ELSE {}

\* Only one thing is ever waited for in a circle: a meter's removal that has
\* the lock the work needs and waits for the work (qos_conf.c:658, 720).
OneCircle ==
    WorkWaitsFor # {} => \E t \in WorkWaitsFor :
        \/ WaitsFor(t) = {} \* it will release the lock
        \/ qpc[t].pc = "cancel" /\ qpc[t].what \in Meters

\* What TC is told of a limiter never goes below zero, where the unsigned
\* difference of curr and prev would be huge, except after a reply that came
\* when its limiter was gone (qos_conf.c:398, 529).
NeverNegative == qhist.negative => qhist.late

=============================================================================

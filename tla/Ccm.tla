-------------------------------- MODULE Ccm --------------------------------
(***************************************************************************)
(* Request-reply control messages (ccm.c): tag allocation, the queue of    *)
(* received replies, and callers that wait, time out or are interrupted.   *)
(*                                                                         *)
(* Every section under the control vNIC lock (nfp_ctrl_lock) is one        *)
(* action.  A message carries, besides its tag, the caller it is for; the  *)
(* label becomes None when that caller has given up, and age then counts   *)
(* the tags allocated since.  The firmware answers at any time, but no     *)
(* later than MaxLag allocations after the caller gave up.                 *)
(***************************************************************************)
EXTENDS Integers, Sequences, FiniteSets

CONSTANTS
    Callers,    \* threads in nfp_ccm_communicate()
    None,       \* the caller of a message nobody waits for any more
    Tags,       \* number of tags, U16_MAX + 1
    MaxLag,     \* longest delay of a reply after its caller gave up
    MaxLate     \* bound on the messages that are late at the same time

\* NFP_CCM_TAG_ALLOC_SPAN
Span == (Tags - 1) \div 4

ASSUME CcmConstants ==
    /\ None \notin Callers
    /\ Tags \in Nat \ {0, 1} /\ MaxLate \in Nat
    /\ MaxLag \in 0 .. Tags - Span - 1

VARIABLES
    tag_allocator,      \* bitmap of the tags in use
    tag_alloc_next,     \* next tag to allocate
    tag_alloc_last,     \* next tag to be freed
    replies,            \* received replies waiting to be consumed
    wire,               \* requests and replies the firmware still has
    tag,                \* tag a caller waits for, -1 when it waits for none
    result,             \* outcome of the caller's last request
    answered_for        \* whose reply the caller received

ccm  == <<tag_allocator, tag_alloc_next, tag_alloc_last>>
ccmvars == <<ccm, replies, wire, tag, result, answered_for>>

TagIds == 0 .. Tags - 1
Messages == [tag : TagIds, for : Callers \cup {None}, age : 0 .. MaxLag]
Waiting(t) == tag[t] # -1

CcmInit ==
    /\ tag_allocator = {}
    /\ tag_alloc_next = 0 /\ tag_alloc_last = 0
    /\ replies = <<>> /\ wire = {}
    /\ tag = [t \in Callers |-> -1]
    /\ result = [t \in Callers |-> "none"]
    /\ answered_for = [t \in Callers |-> None]

-----------------------------------------------------------------------------
(* Tags. *)

UsedTags == (tag_alloc_next - tag_alloc_last) % Tags

\* Mutant: compares without the wrap of the 16 bit counters.
AllTagsBusyNoWrap == tag_alloc_next - tag_alloc_last > Span

\* nfp_ccm_all_tags_busy()
AllTagsBusy == UsedTags > Span

\* The loop of nfp_ccm_free_tag(): skip the tags that are no longer in use.
StopsAt(i, alloc) == i = UsedTags \/ (tag_alloc_last + i) % Tags \in alloc
Skipped(alloc) ==
    CHOOSE i \in 0 .. UsedTags : StopsAt(i, alloc) /\ \A j \in 0 .. i - 1 : ~StopsAt(j, alloc)
AdvanceLast(alloc) == (tag_alloc_last + Skipped(alloc)) % Tags

\* nfp_ccm_free_tag()
FreeTag(x) ==
    /\ tag_allocator' = tag_allocator \ {x}
    /\ tag_alloc_last' = AdvanceLast(tag_allocator \ {x})
    /\ UNCHANGED tag_alloc_next

-----------------------------------------------------------------------------
(* Messages. *)

\* Late messages age with every allocation; too old ones never arrive.
Aged(S) ==
    {[m EXCEPT !.age = @ + 1] : m \in {m \in S : m.for = None /\ m.age < MaxLag}}
        \cup {m \in S : m.for # None}

Late(S) == {m \in S : m.for = None}

\* The caller t gives up: what is on the wire for it is late from now on, or
\* lost when MaxLate messages are late already.
Orphan(S, t) ==
    {m \in S : m.for # t} \cup
        IF Cardinality(Late(S)) < MaxLate
        THEN {[m EXCEPT !.for = None] : m \in {m \in S : m.for = t}}
        ELSE {}

\* tag_alloc_next++ of a u16
NextTag == (tag_alloc_next + 1) % Tags

\* nfp_ccm_communicate() up to nfp_ctrl_unlock(): allocate a tag and send,
\* or find the transmit queue closed and lose the request.
Communicate(t) ==
    /\ ~Waiting(t)
    /\ ~AllTagsBusy
    /\ tag_allocator' = tag_allocator \cup {tag_alloc_next}
    /\ tag_alloc_next' = NextTag
    /\ tag' = [tag EXCEPT ![t] = tag_alloc_next]
    /\ result' = [result EXCEPT ![t] = "none"]
    /\ answered_for' = [answered_for EXCEPT ![t] = None]
    /\ \E sent \in SUBSET {[tag |-> tag_alloc_next, for |-> t, age |-> 0]} :
         wire' = Aged(wire) \cup sent
    /\ UNCHANGED <<tag_alloc_last, replies>>

\* nfp_ccm_communicate() with all request contexts busy: -EAGAIN.
CommunicateBusy(t) ==
    /\ ~Waiting(t)
    /\ AllTagsBusy
    /\ result' = [result EXCEPT ![t] = "again"]
    /\ UNCHANGED <<ccm, replies, wire, tag, answered_for>>

\* The test of nfp_ccm_rx(): somebody waits for the tag.
Wanted(m) == m.tag \in tag_allocator

\* nfp_ccm_rx()
CcmRx(m) ==
    /\ wire' = wire \ {m}
    /\ replies' = IF Wanted(m) THEN Append(replies, m) ELSE replies
    /\ UNCHANGED <<ccm, tag, result, answered_for>>

\* The firmware drops a request.
FwLose(m) ==
    /\ wire' = wire \ {m}
    /\ UNCHANGED <<ccm, replies, tag, result, answered_for>>

-----------------------------------------------------------------------------
(* Waiting for a reply. *)

Matches(t) == {i \in DOMAIN replies : replies[i].tag = tag[t]}
FirstMatch(t) == CHOOSE i \in Matches(t) : \A j \in Matches(t) : i <= j
skb_unlink(q, k) == SubSeq(q, 1, k - 1) \o SubSeq(q, k + 1, Len(q))

\* __nfp_ccm_reply() finds a reply: the tag is freed, the reply unlinked.  The
\* checks of nfp_ccm_communicate() on its type and size then pass or fail.
TakeReply(t, outcomes) ==
    /\ Matches(t) # {}
    /\ replies' = skb_unlink(replies, FirstMatch(t))
    /\ answered_for' = [answered_for EXCEPT ![t] = replies[FirstMatch(t)].for]
    /\ \E res \in outcomes : result' = [result EXCEPT ![t] = res]
    /\ FreeTag(tag[t])
    /\ tag' = [tag EXCEPT ![t] = -1]
    /\ wire' = Orphan(wire, t)

\* nfp_ccm_reply() while polling or waiting.
Reply(t) ==
    /\ Waiting(t)
    /\ TakeReply(t, {"ok", "eio"})

\* Mutant: a caller that gives up keeps its tag.
DroppedTagKept(t) == -1

\* The tag nfp_ccm_reply_drop_tag() frees.
DroppedTag(t) == tag[t]

\* nfp_ccm_reply_drop_tag() finds no reply: the tag is freed all the same.
DropTag(t, res) ==
    /\ Matches(t) = {}
    /\ FreeTag(DroppedTag(t))
    /\ tag' = [tag EXCEPT ![t] = -1]
    /\ result' = [result EXCEPT ![t] = res]
    /\ wire' = Orphan(wire, t)
    /\ UNCHANGED <<replies, answered_for>>

\* The wait times out; a reply found by the last try is still returned.
WaitTimeout(t) ==
    /\ Waiting(t)
    /\ TakeReply(t, {"ok", "eio"}) \/ DropTag(t, "timedout")

\* The wait is interrupted; a reply found by the last try is not returned.
WaitInterrupted(t) ==
    /\ Waiting(t)
    /\ TakeReply(t, {"intr"}) \/ DropTag(t, "intr")

-----------------------------------------------------------------------------

CcmNext ==
    \/ \E t \in Callers :
         \/ Communicate(t) \/ CommunicateBusy(t)
         \/ Reply(t) \/ WaitTimeout(t) \/ WaitInterrupted(t)
    \/ \E m \in wire : CcmRx(m) \/ FwLose(m)

CcmSpec == CcmInit /\ [][CcmNext]_ccmvars

\* wait_event_interruptible_timeout() returns: with a reply or by its timeout.
CcmFairness == \A t \in Callers : WF_ccmvars(Reply(t) \/ WaitTimeout(t))

CcmFairSpec == CcmSpec /\ CcmFairness

-----------------------------------------------------------------------------
(* Properties. *)

CcmTypeOK ==
    /\ tag_allocator \subseteq TagIds
    /\ tag_alloc_next \in TagIds /\ tag_alloc_last \in TagIds
    /\ replies \in Seq(Messages) /\ wire \subseteq Messages
    /\ tag \in [Callers -> TagIds \cup {-1}]
    /\ result \in [Callers -> {"none", "ok", "eio", "again", "timedout", "intr"}]
    /\ answered_for \in [Callers -> Callers \cup {None}]

(* The WARN_ONs of nfp_ccm_alloc_tag() and nfp_ccm_free_tag() never fire:  *)
(* the tags in use lie in the window from last to next, which starts at a  *)
(* tag in use and never exceeds the span, so the tag at next is free, and  *)
(* they are exactly the tags of the waiting callers, each with its own.    *)
TagWindow ==
    /\ UsedTags <= Span + 1
    /\ \A x \in tag_allocator : (x - tag_alloc_last) % Tags < UsedTags
    /\ UsedTags > 0 => tag_alloc_last \in tag_allocator
    /\ tag_allocator = {tag[t] : t \in {t \in Callers : Waiting(t)}}
    /\ \A t, u \in Callers : Waiting(t) /\ tag[t] = tag[u] => t = u

(* "make sure we don't reuse the message ID too early after timeout": a    *)
(* caller never receives the reply to a request somebody gave up on, as    *)
(* long as no reply is more than Tags - Span - 1 allocations late.         *)
ReplyIsMine ==
    \A t \in Callers : result[t] \in {"ok", "eio"} => answered_for[t] = t

(* Every reply in the queue is for a caller that still waits for it, so    *)
(* the WARN_ON in nfp_ccm_clean() cannot fire once the callers are gone.   *)
RepliesAwaited ==
    \A i \in DOMAIN replies :
        \E t \in Callers : Waiting(t) /\ tag[t] = replies[i].tag

(* The tags in use form a window of the 16 bit counters wherever these     *)
(* wrap, a caller of nfp_ccm_communicate() only ever takes the reply to    *)
(* its own request, and no reply stays queued that nobody waits for.       *)
RepliesMatched == TagWindow /\ ReplyIsMine /\ RepliesAwaited

(* When the window is full it opens again: a firmware that stops answering *)
(* does not leave every later request with -EAGAIN.                        *)
WindowReopens == AllTagsBusy ~> ~AllTagsBusy

=============================================================================

------------------------------ MODULE CcmProof ------------------------------
(***************************************************************************)
(* A caller of nfp_ccm_communicate() is only given the reply to its own    *)
(* request, for any number of tags and callers: the window of tags in use  *)
(* is less than a round of the 16 bit counters, and a late reply comes     *)
(* before they have gone round.                                            *)
(***************************************************************************)
EXTENDS Ccm, WellFoundedInduction, TLAPS

\* How many tags were allocated from x on, when x was the latest of its name.
Behind(x) == IF tag_alloc_next = x THEN Tags ELSE (tag_alloc_next - x) % Tags

\* A message its caller waits for bears the caller's tag.
Awaited == \A m \in wire : m.for # None => m.age = 0 /\ tag[m.for] = m.tag

\* The tag of a late message is free: not yet come round since it was given
\* up, when it was one of the window's.
NotYetRound ==
    \A m \in wire : m.for = None =>
        m.tag \notin tag_allocator /\ Behind(m.tag) - m.age \in 1 .. Span + 1

\* A reply in the queue is the only message for a caller that waits for it.
QueuedForWaiter ==
    \A i \in DOMAIN replies : replies[i].for # None /\ tag[replies[i].for] = replies[i].tag
QueuedOnce == \A i, j \in DOMAIN replies : replies[i].tag = replies[j].tag => i = j
QueuedOrSent ==
    \A m \in wire, i \in DOMAIN replies : m.for # None => m.tag # replies[i].tag

CcmInv ==
    /\ CcmTypeOK /\ TagWindow /\ ReplyIsMine
    /\ Awaited /\ NotYetRound
    /\ QueuedForWaiter /\ QueuedOnce /\ QueuedOrSent

-----------------------------------------------------------------------------
(* Arithmetic of the counters. *)

\* The difference and the sum of two tags.
LEMMA DiffMod ==
    ASSUME NEW w \in Nat \ {0}, NEW a \in 0 .. w - 1, NEW b \in 0 .. w - 1
    PROVE  /\ (a - b) % w = IF a >= b THEN a - b ELSE a - b + w
           /\ (a - b) % w \in 0 .. w - 1
OBVIOUS

LEMMA SumMod ==
    ASSUME NEW w \in Nat \ {0}, NEW a \in 0 .. w - 1, NEW j \in 0 .. w - 1
    PROVE  /\ (a + j) % w = IF a + j < w THEN a + j ELSE a + j - w
           /\ (a + j) % w \in 0 .. w - 1
OBVIOUS

\* Counting the difference on gives the tag again.
LEMMA UndoMod ==
    ASSUME NEW n \in Nat \ {0}, NEW x \in 0 .. n - 1, NEW y \in 0 .. n - 1
    PROVE  (y + ((x - y) % n)) % n = x
<1>. DEFINE d == (x - y) % n
<1>1. d \in 0 .. n - 1 /\ d = IF x >= y THEN x - y ELSE x - y + n
  BY DiffMod
<1>. HIDE DEF d
<1>2. (y + d) % n = IF y + d < n THEN y + d ELSE y + d - n
  BY <1>1, SumMod, Zenon
<1>3. (y + d) % n = x
  BY <1>1, <1>2
<1>. QED  BY <1>3 DEF d

\* The span leaves room for a free tag.
LEMMA SpanFits == Span \in Nat /\ Span + 1 < Tags
BY CcmConstants DEF Span

\* The size of the window, and where a tag of it lies.
LEMMA WindowSize ==
    ASSUME CcmTypeOK
    PROVE  /\ UsedTags \in TagIds
           /\ UsedTags = IF tag_alloc_next >= tag_alloc_last
                         THEN tag_alloc_next - tag_alloc_last
                         ELSE tag_alloc_next - tag_alloc_last + Tags
<1>1. tag_alloc_next \in 0 .. Tags - 1 /\ tag_alloc_last \in 0 .. Tags - 1
  BY DEF CcmTypeOK, TagIds
<1>. QED  BY <1>1, DiffMod, CcmConstants DEF UsedTags, TagIds

LEMMA InWindow ==
    ASSUME CcmTypeOK, TagWindow, NEW x \in tag_allocator
    PROVE  x # tag_alloc_next /\ Behind(x) \in 1 .. Span + 1
<1>1. x \in TagIds /\ tag_alloc_next \in TagIds /\ tag_alloc_last \in TagIds
  BY DEF CcmTypeOK
<1>2. (x - tag_alloc_last) % Tags =
        IF x >= tag_alloc_last THEN x - tag_alloc_last ELSE x - tag_alloc_last + Tags
  BY <1>1, DiffMod, CcmConstants DEF TagIds
<1>3. (tag_alloc_next - x) % Tags =
        IF tag_alloc_next >= x THEN tag_alloc_next - x ELSE tag_alloc_next - x + Tags
  BY <1>1, DiffMod, CcmConstants DEF TagIds
<1>4. (x - tag_alloc_last) % Tags < UsedTags /\ UsedTags <= Span + 1
  BY DEF TagWindow
<1>. QED
  BY <1>1, <1>2, <1>3, <1>4, WindowSize, SpanFits, CcmConstants DEF Behind, TagIds

-----------------------------------------------------------------------------
(* nfp_ccm_free_tag(). *)

\* Its loop ends at the first tag that is in use, or at the next to allocate.
LEMMA LoopEnds ==
    ASSUME CcmTypeOK, NEW alloc \in SUBSET TagIds
    PROVE  /\ Skipped(alloc) \in 0 .. UsedTags
           /\ StopsAt(Skipped(alloc), alloc)
           /\ \A j \in 0 .. Skipped(alloc) - 1 : ~StopsAt(j, alloc)
<1>. DEFINE T == {i \in 0 .. UsedTags : StopsAt(i, alloc)}
<1>1. UsedTags \in Nat
  BY WindowSize, CcmConstants DEF TagIds
<1>2. UsedTags \in T
  BY <1>1 DEF StopsAt
<1>3. T \subseteq Nat
  BY <1>1
<1>4. PICK i \in T : \A j \in T : ~(<<j, i>> \in OpToRel(<, Nat))
  BY <1>2, <1>3, NatLessThanWellFounded, WFMin, Zenon
<1>5. \A j \in T : ~(j < i)
  BY <1>3, <1>4, Zenon DEF OpToRel
<1>6. i \in 0 .. UsedTags /\ StopsAt(i, alloc) /\ \A j \in 0 .. i - 1 : ~StopsAt(j, alloc)
  BY <1>1, <1>5
<1>. QED  BY <1>6 DEF Skipped

\* Freeing the tag of a caller that stops waiting keeps the window.
LEMMA FreeKeepsWindow ==
    ASSUME CcmTypeOK, TagWindow, NEW t \in Callers, Waiting(t),
           FreeTag(tag[t]), tag' = [tag EXCEPT ![t] = -1]
    PROVE  /\ tag_allocator' = tag_allocator \ {tag[t]}
           /\ tag_alloc_next' = tag_alloc_next /\ tag_alloc_last' \in TagIds
           /\ TagWindow'
<1>. DEFINE alloc == tag_allocator \ {tag[t]}
            k == Skipped(alloc)
            At(x) == (x - tag_alloc_last) % Tags
<1>1. /\ alloc \in SUBSET TagIds
      /\ tag_alloc_next \in 0 .. Tags - 1 /\ tag_alloc_last \in 0 .. Tags - 1
  BY Zenon DEF CcmTypeOK, TagIds
<1>2. /\ k \in 0 .. UsedTags /\ StopsAt(k, alloc)
      /\ \A j \in 0 .. k - 1 : ~StopsAt(j, alloc)
  BY <1>1, LoopEnds
<1>3. /\ tag_allocator' = alloc /\ tag_alloc_next' = tag_alloc_next
      /\ tag_alloc_last' = (tag_alloc_last + k) % Tags
  BY DEF FreeTag, AdvanceLast
<1>. HIDE DEF k
<1>4. UsedTags \in 0 .. Tags - 1 /\ k \in 0 .. Tags - 1
  BY <1>2, WindowSize, CcmConstants DEF TagIds
<1>5. /\ tag_alloc_last' \in 0 .. Tags - 1
      /\ tag_alloc_last' = IF tag_alloc_last + k < Tags THEN tag_alloc_last + k
                           ELSE tag_alloc_last + k - Tags
  BY <1>1, <1>3, <1>4, SumMod, CcmConstants
<1>6. UsedTags' = UsedTags - k
  <2>1. UsedTags' = IF tag_alloc_next >= tag_alloc_last' THEN tag_alloc_next - tag_alloc_last'
                    ELSE tag_alloc_next - tag_alloc_last' + Tags
    BY <1>1, <1>3, <1>5, DiffMod, CcmConstants, Zenon DEF UsedTags
  <2>. QED  BY <2>1, <1>1, <1>2, <1>4, <1>5, WindowSize, CcmConstants
<1>7. ASSUME NEW x \in alloc
      PROVE  (x - tag_alloc_last') % Tags < UsedTags'
  <2>1. x \in 0 .. Tags - 1
    BY <1>1 DEF TagIds
  <2>2. /\ At(x) \in 0 .. Tags - 1
        /\ At(x) = IF x >= tag_alloc_last THEN x - tag_alloc_last ELSE x - tag_alloc_last + Tags
    BY <2>1, <1>1, DiffMod, CcmConstants
  <2>3. At(x) < UsedTags
    BY DEF TagWindow
  <2>4. (tag_alloc_last + At(x)) % Tags = x
    BY <2>1, <1>1, UndoMod, CcmConstants
  <2>. HIDE DEF At
  <2>5. At(x) >= k
    BY <2>2, <2>4, <1>2, <1>4 DEF StopsAt
  <2>6. (x - tag_alloc_last') % Tags =
          IF x >= tag_alloc_last' THEN x - tag_alloc_last' ELSE x - tag_alloc_last' + Tags
    BY <2>1, <1>5, DiffMod, CcmConstants, Zenon
  <2>7. (x - tag_alloc_last') % Tags = At(x) - k
    BY <2>1, <2>2, <2>5, <2>6, <1>1, <1>4, <1>5, CcmConstants
  <2>. QED  BY <2>2, <2>3, <2>7, <1>4, <1>6
<1>8. UsedTags' <= Span + 1
  BY <1>2, <1>4, <1>6, SpanFits DEF TagWindow
<1>9. UsedTags' > 0 => tag_alloc_last' \in tag_allocator'
  BY <1>2, <1>3, <1>4, <1>6 DEF StopsAt
<1>10. /\ tag_allocator' = {tag'[u] : u \in {u \in Callers : tag'[u] # -1}}
       /\ \A u, v \in Callers : tag'[u] # -1 /\ tag'[u] = tag'[v] => u = v
  <2>1. /\ tag_allocator = {tag[u] : u \in {u \in Callers : tag[u] # -1}}
        /\ \A u, v \in Callers : tag[u] # -1 /\ tag[u] = tag[v] => u = v
    BY DEF TagWindow, Waiting
  <2>2. tag'[t] = -1 /\ \A u \in Callers \ {t} : tag'[u] = tag[u]
    BY DEF CcmTypeOK
  <2>. QED  BY <2>1, <2>2, <1>3 DEF Waiting
<1>. QED
  BY <1>3, <1>5, <1>7, <1>8, <1>9, <1>10, Zenon DEF TagWindow, Waiting, TagIds

\* What stands at each place of two sequences one after the other.
LEMMA Concat ==
    ASSUME NEW S, NEW s \in Seq(S), NEW t \in Seq(S)
    PROVE  /\ s \o t \in Seq(S) /\ Len(s \o t) = Len(s) + Len(t)
           /\ \A i \in 1 .. Len(s) + Len(t) : (s \o t)[i] = IF i <= Len(s) THEN s[i] ELSE t[i - Len(s)]
OBVIOUS

\* Only an empty place and the messages after it move when one is removed.
LEMMA RemovedOne ==
    ASSUME NEW S, NEW s \in Seq(S), NEW i \in DOMAIN s
    PROVE  /\ skb_unlink(s, i) \in Seq(S) /\ Len(skb_unlink(s, i)) = Len(s) - 1
           /\ \A j \in 1 .. Len(s) - 1 :
                 skb_unlink(s, i)[j] = IF j < i THEN s[j] ELSE s[j + 1]
<1>. DEFINE a == SubSeq(s, 1, i - 1)
            b == SubSeq(s, i + 1, Len(s))
<1>1. Len(s) \in Nat /\ i \in 1 .. Len(s)
  OBVIOUS
<1>2. a \in Seq(S) /\ Len(a) = i - 1 /\ \A j \in 1 .. i - 1 : a[j] = s[j]
  BY <1>1
<1>3. b \in Seq(S) /\ Len(b) = Len(s) - i /\ \A j \in 1 .. Len(s) - i : b[j] = s[i + j]
  BY <1>1
<1>. HIDE DEF a, b
<1>4. /\ a \o b \in Seq(S) /\ Len(a \o b) = Len(a) + Len(b)
      /\ \A j \in 1 .. Len(a) + Len(b) : (a \o b)[j] = IF j <= Len(a) THEN a[j] ELSE b[j - Len(a)]
  BY <1>2, <1>3, Concat, Zenon
<1>5. Len(a) + Len(b) = Len(s) - 1
  BY <1>1, <1>2, <1>3
<1>6. ASSUME NEW j \in 1 .. Len(s) - 1
      PROVE  (a \o b)[j] = IF j < i THEN s[j] ELSE s[j + 1]
  <2>1. (a \o b)[j] = IF j <= i - 1 THEN a[j] ELSE b[j - (i - 1)]
    BY <1>2, <1>4, <1>5
  <2>2. CASE j < i
    BY <2>1, <2>2, <1>1, <1>2
  <2>3. CASE j >= i
    <3>1. j - (i - 1) \in 1 .. Len(s) - i /\ i + (j - (i - 1)) = j + 1 /\ ~(j <= i - 1)
      BY <2>3, <1>1
    <3>2. b[j - (i - 1)] = s[i + (j - (i - 1))]
      BY <3>1, <1>3
    <3>3. (a \o b)[j] = s[j + 1]
      BY <3>1, <3>2, <2>1
    <3>4. ~(j < i)
      BY <2>3, <1>1
    <3>. QED  BY <3>3, <3>4
  <2>4. j < i \/ j >= i
    BY <1>1
  <2>. QED  BY <2>2, <2>3, <2>4, Zenon
<1>. QED  BY <1>4, <1>5, <1>6, Zenon DEF skb_unlink, a, b

-----------------------------------------------------------------------------
(* The actions. *)

\* When a caller stops waiting, what is on the wire for it becomes late.
LEMMA EndKeepsWire ==
    ASSUME CcmInv, NEW t \in Callers, Waiting(t),
           FreeTag(tag[t]), tag' = [tag EXCEPT ![t] = -1], wire' = Orphan(wire, t)
    PROVE  wire' \subseteq Messages /\ Awaited' /\ NotYetRound'
<1>1. /\ tag_allocator' = tag_allocator \ {tag[t]}
      /\ tag_alloc_next' = tag_alloc_next
  BY FreeKeepsWindow, Zenon DEF CcmInv
<1>2. tag[t] \in tag_allocator /\ None \notin Callers
  BY CcmConstants DEF CcmInv, TagWindow
<1>3. \A x : Behind(x)' = Behind(x)
  BY <1>1 DEF Behind
<1>4. ASSUME NEW m \in wire'
      PROVE  /\ m \in Messages
             /\ m.for # None => m.age = 0 /\ tag'[m.for] = m.tag
             /\ m.for = None => m.tag \notin tag_allocator' /\ Behind(m.tag)' - m.age \in 1 .. Span + 1
  <2>1. CASE m \in wire /\ m.for # t
    <3>1. m \in Messages
      BY <2>1 DEF CcmInv, CcmTypeOK
    <3>2. m.for # None => m.age = 0 /\ tag'[m.for] = m.tag
      <4>1. m.for # None => m.for \in Callers
        BY <3>1 DEF Messages
      <4>. QED  BY <4>1, <2>1 DEF CcmInv, Awaited, CcmTypeOK
    <3>3. m.for = None => m.tag \notin tag_allocator' /\ Behind(m.tag)' - m.age \in 1 .. Span + 1
      BY <2>1, <1>1, <1>3 DEF CcmInv, NotYetRound
    <3>. QED  BY <3>1, <3>2, <3>3
  <2>2. CASE \E o \in wire : o.for = t /\ m = [o EXCEPT !.for = None]
    <3>1. PICK o \in wire : o.for = t /\ m = [o EXCEPT !.for = None]
      BY <2>2
    <3>2. o \in Messages
      BY DEF CcmInv, CcmTypeOK
    <3>3. o.age = 0 /\ o.tag = tag[t]
      BY <3>1, <1>2 DEF CcmInv, Awaited
    <3>4. m \in Messages /\ m.for = None /\ m.age = 0 /\ m.tag = tag[t]
      BY <3>1, <3>2, <3>3 DEF Messages
    <3>5. Behind(tag[t]) \in 1 .. Span + 1
      BY <1>2, InWindow DEF CcmInv
    <3>. QED  BY <3>4, <3>5, <1>1, <1>3, SpanFits
  <2>3. \/ m \in wire /\ m.for # t
        \/ \E o \in wire : o.for = t /\ m = [o EXCEPT !.for = None]
    BY DEF Orphan
  <2>. QED  BY <2>1, <2>2, <2>3
<1>. QED  BY <1>4 DEF Awaited, NotYetRound

\* Nothing that is for another caller is lost or becomes late.
LEMMA EndKeepsOthers ==
    ASSUME NEW t \in Callers, wire' = Orphan(wire, t), NEW m \in wire', m.for # None,
           wire \subseteq Messages
    PROVE  m \in wire /\ m.for # t
<1>1. ASSUME NEW o \in wire, m = [o EXCEPT !.for = None]  PROVE FALSE
  <2>1. m.for = None
    BY <1>1 DEF Messages
  <2>. QED  BY <2>1
<1>. QED  BY <1>1 DEF Orphan

\* The reply a caller takes is the only one with its tag, and its own.
LEMMA OwnReply ==
    ASSUME CcmInv, NEW t \in Callers, Waiting(t), Matches(t) # {}
    PROVE  /\ FirstMatch(t) \in DOMAIN replies
           /\ replies[FirstMatch(t)].for = t
           /\ \A i \in DOMAIN replies : replies[i].tag = tag[t] <=> i = FirstMatch(t)
<1>1. PICK i \in DOMAIN replies : replies[i].tag = tag[t]
  BY DEF Matches
<1>2. Matches(t) = {i}
  BY <1>1 DEF CcmInv, QueuedOnce, Matches
<1>3. i \in Nat
  BY DEF CcmInv, CcmTypeOK
<1>4. \E n \in Matches(t) : \A j \in Matches(t) : n <= j
  BY <1>2, <1>3
<1>5. FirstMatch(t) = i
  BY <1>2, <1>4 DEF FirstMatch
<1>6. replies[i] \in Messages
  BY DEF CcmInv, CcmTypeOK
<1>7. replies[i].for \in Callers /\ tag[replies[i].for] = tag[t]
  BY <1>1, <1>6 DEF CcmInv, QueuedForWaiter, Messages
<1>8. replies[i].for = t
  BY <1>7 DEF CcmInv, TagWindow, Waiting
<1>. QED  BY <1>1, <1>2, <1>5, <1>8 DEF Matches

LEMMA TakeReplyKeeps ==
    ASSUME CcmInv, NEW t \in Callers, Waiting(t), NEW outcomes,
           outcomes \subseteq {"ok", "eio", "intr"}, TakeReply(t, outcomes)
    PROVE  CcmInv'
<1>. DEFINE i == FirstMatch(t)
            from(j) == IF j < i THEN j ELSE j + 1
<1>1. /\ i \in DOMAIN replies /\ replies[i].for = t
      /\ \A k \in DOMAIN replies : replies[k].tag = tag[t] <=> k = i
  BY OwnReply DEF TakeReply
<1>2. /\ FreeTag(tag[t]) /\ tag' = [tag EXCEPT ![t] = -1] /\ wire' = Orphan(wire, t)
      /\ replies' = skb_unlink(replies, i)
      /\ answered_for' = [answered_for EXCEPT ![t] = t]
  BY <1>1 DEF TakeReply
<1>3. PICK res \in outcomes : result' = [result EXCEPT ![t] = res]
  BY Zenon DEF TakeReply
<1>4. CcmTypeOK
  BY DEF CcmInv
<1>. HIDE DEF i
<1>5. /\ tag_allocator' = tag_allocator \ {tag[t]} /\ tag_alloc_next' = tag_alloc_next
      /\ tag_alloc_last' \in TagIds /\ TagWindow'
  BY <1>2, <1>4, FreeKeepsWindow, Zenon DEF CcmInv
<1>6. wire' \subseteq Messages /\ Awaited' /\ NotYetRound'
  BY <1>2, EndKeepsWire, Zenon
<1>7. replies \in Seq(Messages) /\ Len(replies) \in Nat /\ i \in 1 .. Len(replies)
  BY <1>1, <1>4 DEF CcmTypeOK
<1>8. /\ replies' \in Seq(Messages) /\ Len(replies') = Len(replies) - 1
      /\ \A j \in 1 .. Len(replies) - 1 : replies'[j] = replies[from(j)]
  BY <1>1, <1>2, <1>7, RemovedOne
<1>9. /\ DOMAIN replies' = 1 .. Len(replies) - 1
      /\ \A j \in DOMAIN replies' : from(j) \in DOMAIN replies /\ from(j) # i /\ replies'[j] = replies[from(j)]
      /\ \A j, k \in DOMAIN replies' : from(j) = from(k) => j = k
  BY <1>7, <1>8
<1>. HIDE DEF from
<1>10. CcmTypeOK'
  <2>1. tag' \in [Callers -> TagIds \cup {-1}] /\ answered_for' \in [Callers -> Callers \cup {None}]
    BY <1>2, <1>4 DEF CcmTypeOK
  <2>2. result' \in [Callers -> {"none", "ok", "eio", "again", "timedout", "intr"}]
    BY <1>3, <1>4 DEF CcmTypeOK
  <2>. QED  BY <2>1, <2>2, <1>4, <1>5, <1>6, <1>8 DEF CcmTypeOK
<1>11. ReplyIsMine'
  BY <1>2, <1>3, <1>4 DEF ReplyIsMine, CcmInv, CcmTypeOK
<1>12. QueuedOnce'
  BY <1>9 DEF CcmInv, QueuedOnce
<1>13. QueuedForWaiter'
  <2>1. ASSUME NEW j \in DOMAIN replies'
        PROVE  replies'[j].for # None /\ tag'[replies'[j].for] = replies'[j].tag
    <3>1. /\ replies[from(j)] \in Messages /\ replies[from(j)].for # None
          /\ tag[replies[from(j)].for] = replies[from(j)].tag /\ replies[from(j)].tag # tag[t]
      BY <1>1, <1>7, <1>9 DEF CcmInv, QueuedForWaiter
    <3>2. replies[from(j)].for \in Callers /\ replies[from(j)].for # t
      BY <3>1 DEF Messages
    <3>. QED  BY <3>1, <3>2, <1>2, <1>4, <1>9 DEF CcmTypeOK
  <2>. QED  BY <2>1 DEF QueuedForWaiter
<1>14. QueuedOrSent'
  <2>1. ASSUME NEW m \in wire', NEW j \in DOMAIN replies', m.for # None
        PROVE  m.tag # replies'[j].tag
    BY <2>1, <1>2, <1>4, <1>9, EndKeepsOthers DEF CcmInv, QueuedOrSent, CcmTypeOK
  <2>. QED  BY <2>1 DEF QueuedOrSent
<1>. QED  BY <1>5, <1>6, <1>10, <1>11, <1>12, <1>13, <1>14 DEF CcmInv

LEMMA DropTagKeeps ==
    ASSUME CcmInv, NEW t \in Callers, Waiting(t), NEW res \in {"timedout", "intr"}, DropTag(t, res)
    PROVE  CcmInv'
<1>1. /\ FreeTag(tag[t]) /\ tag' = [tag EXCEPT ![t] = -1] /\ wire' = Orphan(wire, t)
      /\ replies' = replies /\ answered_for' = answered_for
      /\ result' = [result EXCEPT ![t] = res]
  BY DEF DropTag, DroppedTag
<1>2. CcmTypeOK
  BY DEF CcmInv
<1>3. /\ tag_allocator' = tag_allocator \ {tag[t]} /\ tag_alloc_next' = tag_alloc_next
      /\ tag_alloc_last' \in TagIds /\ TagWindow'
  BY <1>1, <1>2, FreeKeepsWindow, Zenon DEF CcmInv
<1>4. wire' \subseteq Messages /\ Awaited' /\ NotYetRound'
  BY <1>1, EndKeepsWire, Zenon
<1>5. CcmTypeOK'
  BY <1>1, <1>2, <1>3, <1>4 DEF CcmTypeOK
<1>6. ReplyIsMine'
  BY <1>1, <1>2 DEF ReplyIsMine, CcmInv, CcmTypeOK
<1>7. QueuedOnce'
  BY <1>1 DEF CcmInv, QueuedOnce
<1>8. QueuedForWaiter'
  <2>1. ASSUME NEW j \in DOMAIN replies
        PROVE  replies[j].for # None /\ tag'[replies[j].for] = replies[j].tag
    <3>1. /\ replies[j] \in Messages /\ replies[j].for # None
          /\ tag[replies[j].for] = replies[j].tag /\ replies[j].tag # tag[t]
      BY <1>2 DEF CcmInv, QueuedForWaiter, DropTag, Matches, CcmTypeOK
    <3>2. replies[j].for \in Callers /\ replies[j].for # t
      BY <3>1 DEF Messages
    <3>. QED  BY <3>1, <3>2, <1>1, <1>2 DEF CcmTypeOK
  <2>. QED  BY <2>1, <1>1 DEF QueuedForWaiter
<1>9. QueuedOrSent'
  <2>1. ASSUME NEW m \in wire', NEW j \in DOMAIN replies, m.for # None
        PROVE  m.tag # replies[j].tag
    BY <2>1, <1>1, <1>2, EndKeepsOthers DEF CcmInv, QueuedOrSent, CcmTypeOK
  <2>. QED  BY <2>1, <1>1 DEF QueuedOrSent
<1>. QED  BY <1>3, <1>4, <1>5, <1>6, <1>7, <1>8, <1>9 DEF CcmInv

-----------------------------------------------------------------------------
(* A request. *)

\* A tag is allocated at the end of the window.
LEMMA AllocKeepsWindow ==
    ASSUME CcmTypeOK, TagWindow, NEW t \in Callers, Communicate(t)
    PROVE  TagWindow'
<1>1. /\ tag_allocator' = tag_allocator \cup {tag_alloc_next} /\ tag_alloc_next' = NextTag
      /\ tag_alloc_last' = tag_alloc_last /\ tag' = [tag EXCEPT ![t] = tag_alloc_next]
      /\ tag[t] = -1 /\ UsedTags <= Span
  <2>1. UsedTags \in Nat /\ Span \in Nat
    BY WindowSize, SpanFits, CcmConstants DEF TagIds
  <2>. QED  BY <2>1 DEF Communicate, Waiting, AllTagsBusy
<1>2. /\ tag_alloc_next \in 0 .. Tags - 1 /\ tag_alloc_last \in 0 .. Tags - 1
      /\ tag_allocator \subseteq 0 .. Tags - 1 /\ Tags \in Nat \ {0, 1}
      /\ tag \in [Callers -> TagIds \cup {-1}]
  BY CcmConstants DEF CcmTypeOK, TagIds
<1>3. NextTag = (IF tag_alloc_next + 1 < Tags THEN tag_alloc_next + 1 ELSE 0) /\ NextTag \in 0 .. Tags - 1
  <2>1. 1 \in 0 .. Tags - 1
    BY <1>2
  <2>2. (tag_alloc_next + 1) % Tags
          = IF tag_alloc_next + 1 < Tags THEN tag_alloc_next + 1 ELSE tag_alloc_next + 1 - Tags
    BY <1>2, <2>1, SumMod, Zenon
  <2>. QED  BY <1>2, <2>2 DEF NextTag
<1>4. UsedTags' = UsedTags + 1
  <2>1. UsedTags = IF tag_alloc_next >= tag_alloc_last THEN tag_alloc_next - tag_alloc_last
                   ELSE tag_alloc_next - tag_alloc_last + Tags
    BY WindowSize
  <2>2. (NextTag - tag_alloc_last) % Tags
          = IF NextTag >= tag_alloc_last THEN NextTag - tag_alloc_last ELSE NextTag - tag_alloc_last + Tags
    BY <1>2, <1>3, DiffMod
  <2>3. UsedTags' = (NextTag - tag_alloc_last) % Tags
    BY <1>1 DEF UsedTags
  <2>4. UsedTags + 1 < Tags
    <3>1. UsedTags \in Nat
      BY <1>2, <2>1
    <3>. QED  BY <3>1, <1>1, <1>2, SpanFits
  <2>. QED  BY <2>1, <2>2, <2>3, <2>4, <1>2, <1>3
<1>5. UsedTags \in Nat /\ Span \in Nat
  BY WindowSize, SpanFits, CcmConstants DEF TagIds
<1>6. \A x \in tag_allocator' : (x - tag_alloc_last) % Tags < UsedTags'
  <2>1. \A x \in tag_allocator : (x - tag_alloc_last) % Tags \in Nat
    BY <1>2, DiffMod
  <2>2. \A x \in tag_allocator : (x - tag_alloc_last) % Tags < UsedTags
    BY DEF TagWindow
  <2>3. (tag_alloc_next - tag_alloc_last) % Tags = UsedTags
    BY DEF UsedTags
  <2>. QED  BY <2>1, <2>2, <2>3, <1>1, <1>4, <1>5
<1>7. tag_alloc_last \in tag_allocator'
  <2>1. CASE UsedTags > 0
    BY <2>1, <1>1 DEF TagWindow
  <2>2. CASE UsedTags = 0
    BY <2>2, <1>1, <1>2, WindowSize
  <2>. QED  BY <2>1, <2>2, <1>5
<1>8. tag_alloc_next \notin tag_allocator /\ tag_alloc_next # -1
  BY <1>2, InWindow
<1>9. tag_allocator' = {tag'[u] : u \in {u \in Callers : tag'[u] # -1}}
  BY <1>1, <1>2, <1>8 DEF TagWindow, Waiting
<1>10. \A u, v \in Callers : tag'[u] # -1 /\ tag'[u] = tag'[v] => u = v
  <2>1. \A u \in Callers : tag[u] # tag_alloc_next
    BY <1>8 DEF TagWindow, Waiting
  <2>. QED  BY <2>1, <1>1, <1>2 DEF TagWindow, Waiting
<1>11. UsedTags' <= Span + 1
  BY <1>1, <1>4, <1>5
<1>. QED  BY <1>1, <1>6, <1>7, <1>9, <1>10, <1>11 DEF TagWindow, Waiting

\* A late message that may still arrive is not of the tag now allocated.
LEMMA LateStaysFree ==
    ASSUME CcmInv, NEW t \in Callers, Communicate(t),
           NEW o \in wire, o.for = None, o.age < MaxLag
    PROVE  /\ o.tag \notin tag_allocator'
           /\ Behind(o.tag)' - (o.age + 1) \in 1 .. Span + 1
<1>1. /\ o.tag \in 0 .. Tags - 1 /\ o.age \in Nat /\ tag_alloc_next \in 0 .. Tags - 1
      /\ o.tag \notin tag_allocator /\ Behind(o.tag) - o.age \in 1 .. Span + 1
  BY CcmConstants DEF CcmInv, CcmTypeOK, NotYetRound, Messages, TagIds
<1>2. Tags \in Nat \ {0, 1} /\ Span \in Nat /\ MaxLag \in 0 .. Tags - Span - 1
  BY CcmConstants, SpanFits
<1>3. (tag_alloc_next - o.tag) % Tags =
        IF tag_alloc_next >= o.tag THEN tag_alloc_next - o.tag ELSE tag_alloc_next - o.tag + Tags
  BY <1>1, <1>2, DiffMod, Zenon
<1>4. Behind(o.tag) = IF tag_alloc_next > o.tag THEN tag_alloc_next - o.tag
                      ELSE tag_alloc_next - o.tag + Tags
  BY <1>1, <1>2, <1>3 DEF Behind
<1>5. Behind(o.tag) < Tags /\ Behind(o.tag) \in Int
  BY <1>1, <1>2, <1>4
<1>6. o.tag # tag_alloc_next
  BY <1>1, <1>2, <1>4, <1>5
<1>7. NextTag = (IF tag_alloc_next + 1 < Tags THEN tag_alloc_next + 1 ELSE 0) /\ NextTag \in 0 .. Tags - 1
  <2>1. 1 \in 0 .. Tags - 1
    BY <1>2
  <2>2. (tag_alloc_next + 1) % Tags
          = IF tag_alloc_next + 1 < Tags THEN tag_alloc_next + 1 ELSE tag_alloc_next + 1 - Tags
    BY <1>1, <1>2, <2>1, SumMod, Zenon
  <2>. QED  BY <1>1, <1>2, <2>2 DEF NextTag
<1>8. (NextTag - o.tag) % Tags = IF NextTag >= o.tag THEN NextTag - o.tag ELSE NextTag - o.tag + Tags
  BY <1>1, <1>2, <1>7, DiffMod, Zenon
<1>9. Behind(o.tag)' = IF NextTag = o.tag THEN Tags ELSE (NextTag - o.tag) % Tags
  <2>1. tag_alloc_next' = NextTag
    BY DEF Communicate
  <2>. QED  BY <2>1 DEF Behind
<1>10. Behind(o.tag)' = Behind(o.tag) + 1
  <2>1. Behind(o.tag)' = IF NextTag > o.tag THEN NextTag - o.tag ELSE NextTag - o.tag + Tags
    <3>1. (IF NextTag = o.tag THEN Tags ELSE (NextTag - o.tag) % Tags)
            = IF NextTag > o.tag THEN NextTag - o.tag ELSE NextTag - o.tag + Tags
      <4>1. CASE NextTag = o.tag
        BY <4>1, <1>1, <1>2
      <4>2. CASE NextTag # o.tag
        BY <4>2, <1>1, <1>2, <1>7, <1>8
      <4>. QED  BY <4>1, <4>2
    <3>. QED  BY <3>1, <1>9
  <2>2. CASE tag_alloc_next + 1 < Tags
    <3>1. NextTag = tag_alloc_next + 1
      BY <2>2, <1>7
    <3>. QED  BY <3>1, <2>1, <1>1, <1>2, <1>4, <1>6
  <2>3. CASE tag_alloc_next + 1 = Tags
    <3>1. NextTag = 0
      BY <2>3, <1>2, <1>7
    <3>. QED  BY <3>1, <2>1, <2>3, <1>1, <1>2, <1>4, <1>6
  <2>. QED  BY <2>2, <2>3, <1>1, <1>2
<1>11. Behind(o.tag)' - (o.age + 1) = Behind(o.tag) - o.age
  BY <1>1, <1>5, <1>10
<1>12. o.tag \notin tag_allocator'
  BY <1>1, <1>6 DEF Communicate
<1>. QED  BY <1>1, <1>11, <1>12

LEMMA CommunicateKeeps ==
    ASSUME CcmInv, NEW t \in Callers, Communicate(t)
    PROVE  CcmInv'
<1>. DEFINE new == [tag |-> tag_alloc_next, for |-> t, age |-> 0]
<1>1. CcmTypeOK /\ TagWindow
  BY DEF CcmInv
<1>2. /\ tag_allocator' = tag_allocator \cup {tag_alloc_next} /\ tag_alloc_next' = NextTag
      /\ tag_alloc_last' = tag_alloc_last /\ tag' = [tag EXCEPT ![t] = tag_alloc_next]
      /\ tag[t] = -1 /\ replies' = replies
      /\ result' = [result EXCEPT ![t] = "none"] /\ answered_for' = [answered_for EXCEPT ![t] = None]
  BY DEF Communicate, Waiting
<1>3. tag_alloc_next \in TagIds /\ tag_alloc_next \notin tag_allocator /\ t # None /\ -1 \notin TagIds
  BY <1>1, InWindow, CcmConstants DEF CcmTypeOK, TagIds
<1>4. new \in Messages
  BY <1>3, CcmConstants DEF Messages
<1>. HIDE DEF new
<1>5. ASSUME NEW m \in wire'
      PROVE  \/ m = new
             \/ m \in wire /\ m.for # None
             \/ \E o \in wire : o.for = None /\ o.age < MaxLag /\ m = [o EXCEPT !.age = @ + 1]
  BY DEF Communicate, Aged, new
<1>6. ASSUME NEW o \in wire, o.for = None, o.age < MaxLag, NEW m, m = [o EXCEPT !.age = @ + 1]
      PROVE  m \in Messages /\ m.tag = o.tag /\ m.for = None /\ m.age = o.age + 1
  <2>1. o \in Messages /\ o.age \in 0 .. MaxLag /\ MaxLag \in Nat
    BY <1>1, CcmConstants, SpanFits DEF CcmTypeOK, Messages
  <2>2. o.age + 1 \in 0 .. MaxLag
    BY <2>1, <1>6
  <2>. QED  BY <2>1, <2>2, <1>6 DEF Messages
<1>7. ASSUME NEW m \in wire, m.for # None
      PROVE  m.for \in Callers /\ m.for # t /\ m.age = 0 /\ tag'[m.for] = m.tag
  <2>1. m.for \in Callers /\ m.tag \in TagIds /\ m.age = 0 /\ tag[m.for] = m.tag
    BY <1>1, <1>7 DEF CcmInv, Awaited, CcmTypeOK, Messages
  <2>2. m.for # t
    BY <2>1, <1>2, <1>3
  <2>. QED  BY <2>1, <2>2, <1>1, <1>2 DEF CcmTypeOK
<1>8. new.for = t /\ new.age = 0 /\ new.tag = tag_alloc_next /\ tag'[t] = tag_alloc_next
  BY <1>1, <1>2 DEF new, CcmTypeOK
<1>9. wire' \subseteq Messages
  BY <1>1, <1>4, <1>5, <1>6 DEF CcmTypeOK
<1>10. Awaited'
  <2>1. ASSUME NEW m \in wire', m.for # None  PROVE m.age = 0 /\ tag'[m.for] = m.tag
    BY <2>1, <1>5, <1>6, <1>7, <1>8
  <2>. QED  BY <2>1 DEF Awaited
<1>11. NotYetRound'
  <2>1. ASSUME NEW m \in wire', m.for = None
        PROVE  m.tag \notin tag_allocator' /\ Behind(m.tag)' - m.age \in 1 .. Span + 1
    <3>1. PICK o \in wire : o.for = None /\ o.age < MaxLag /\ m = [o EXCEPT !.age = @ + 1]
      BY <2>1, <1>3, <1>5, <1>8
    <3>2. m.tag = o.tag /\ m.age = o.age + 1
      BY <3>1, <1>6
    <3>3. o.tag \notin tag_allocator' /\ Behind(o.tag)' - (o.age + 1) \in 1 .. Span + 1
      BY <3>1, LateStaysFree
    <3>4. Behind(m.tag)' = Behind(o.tag)'
      BY <3>2 DEF Behind
    <3>. QED  BY <3>2, <3>3, <3>4
  <2>2. (\A m \in wire : m.for = None =>
            m.tag \notin tag_allocator /\ Behind(m.tag) - m.age \in 1 .. Span + 1)'
    BY <2>1 DEF Behind
  <2>. QED  BY <2>2 DEF NotYetRound
<1>12. ASSUME NEW j \in DOMAIN replies
       PROVE  /\ replies[j].for \in Callers /\ replies[j].for # t /\ replies[j].tag # tag_alloc_next
              /\ tag'[replies[j].for] = replies[j].tag
  <2>1. /\ replies[j] \in Messages /\ replies[j].for # None /\ tag[replies[j].for] = replies[j].tag
    BY <1>1 DEF CcmInv, QueuedForWaiter, CcmTypeOK
  <2>2. replies[j].for \in Callers /\ replies[j].tag \in TagIds
    BY <2>1 DEF Messages
  <2>3. replies[j].for # t /\ replies[j].tag \in tag_allocator
    BY <2>1, <2>2, <1>1, <1>2, <1>3 DEF TagWindow, Waiting
  <2>. QED  BY <2>1, <2>2, <2>3, <1>1, <1>2, <1>3 DEF CcmTypeOK
<1>13. QueuedForWaiter' /\ QueuedOnce'
  BY <1>2, <1>12, CcmConstants DEF CcmInv, QueuedForWaiter, QueuedOnce
<1>14. QueuedOrSent'
  <2>1. ASSUME NEW m \in wire', NEW j \in DOMAIN replies, m.for # None  PROVE m.tag # replies[j].tag
    BY <2>1, <1>5, <1>6, <1>8, <1>12 DEF CcmInv, QueuedOrSent
  <2>. QED  BY <2>1, <1>2 DEF QueuedOrSent
<1>15. ReplyIsMine'
  BY <1>1, <1>2 DEF CcmInv, ReplyIsMine, CcmTypeOK
<1>16. CcmTypeOK'
  <2>1. NextTag \in TagIds
    BY <1>3, CcmConstants DEF NextTag, TagIds
  <2>. QED  BY <2>1, <1>1, <1>2, <1>3, <1>9 DEF CcmTypeOK
<1>17. TagWindow'
  BY <1>1, AllocKeepsWindow
<1>. QED  BY <1>10, <1>11, <1>13, <1>14, <1>15, <1>16, <1>17 DEF CcmInv

-----------------------------------------------------------------------------
(* Receiving, losing, and doing nothing. *)

\* Fewer messages on the wire, the rest as before.
LEMMA LessOnWire ==
    ASSUME CcmInv, wire' \subseteq wire,
           UNCHANGED <<ccm, tag, answered_for>>
    PROVE  wire' \subseteq Messages /\ TagWindow' /\ Awaited' /\ NotYetRound'
<1>. USE DEF ccm
<1>1. wire' \subseteq Messages
  BY DEF CcmInv, CcmTypeOK
<1>2. TagWindow'
  BY DEF CcmInv, TagWindow, UsedTags, Waiting
<1>3. Awaited'
  BY DEF CcmInv, Awaited
<1>4. NotYetRound'
  BY DEF CcmInv, NotYetRound, Behind
<1>. QED  BY <1>1, <1>2, <1>3, <1>4

LEMMA FwLoseKeeps ==
    ASSUME CcmInv, NEW m \in wire, FwLose(m)
    PROVE  CcmInv'
<1>1. /\ wire' \subseteq wire
      /\ UNCHANGED <<ccm, replies, tag, result, answered_for>>
  BY DEF FwLose
<1>2. wire' \subseteq Messages /\ TagWindow' /\ Awaited' /\ NotYetRound'
  BY <1>1, LessOnWire
<1>3. CcmTypeOK' /\ ReplyIsMine'
  BY <1>1, <1>2 DEF CcmInv, CcmTypeOK, ReplyIsMine, ccm
<1>4. QueuedForWaiter' /\ QueuedOnce' /\ QueuedOrSent'
  BY <1>1 DEF CcmInv, QueuedForWaiter, QueuedOnce, QueuedOrSent
<1>. QED  BY <1>2, <1>3, <1>4 DEF CcmInv

LEMMA CommunicateBusyKeeps ==
    ASSUME CcmInv, NEW t \in Callers, CommunicateBusy(t)
    PROVE  CcmInv'
<1>1. /\ result' = [result EXCEPT ![t] = "again"] /\ wire' \subseteq wire
      /\ UNCHANGED <<ccm, replies, wire, tag, answered_for>>
  BY DEF CommunicateBusy
<1>2. wire' \subseteq Messages /\ TagWindow' /\ Awaited' /\ NotYetRound'
  BY <1>1, LessOnWire
<1>3. CcmTypeOK' /\ ReplyIsMine'
  BY <1>1, <1>2 DEF CcmInv, CcmTypeOK, ReplyIsMine, ccm
<1>4. QueuedForWaiter' /\ QueuedOnce' /\ QueuedOrSent'
  BY <1>1 DEF CcmInv, QueuedForWaiter, QueuedOnce, QueuedOrSent
<1>. QED  BY <1>2, <1>3, <1>4 DEF CcmInv

\* The test of the tag lets only the messages through that are waited for.
LEMMA WantedIsAwaited ==
    ASSUME CcmInv, NEW m \in wire, Wanted(m)
    PROVE  m \in Messages /\ m.for \in Callers /\ tag[m.for] = m.tag
BY DEF CcmInv, CcmTypeOK, Messages, Wanted, NotYetRound, Awaited

\* Two messages for waiting callers with the same tag are the same.
LEMMA OneMessage ==
    ASSUME CcmInv, NEW m \in wire, NEW o \in wire, m.for # None, o.for # None, m.tag = o.tag
    PROVE  m = o
<1>1. m \in Messages /\ o \in Messages
  BY DEF CcmInv, CcmTypeOK
<1>2. /\ m.for \in Callers /\ o.for \in Callers /\ m.age = 0 /\ o.age = 0
      /\ tag[m.for] = m.tag /\ tag[o.for] = o.tag /\ m.tag # -1
  BY <1>1, CcmConstants DEF CcmInv, Awaited, Messages, TagIds
<1>3. m.for = o.for
  BY <1>2 DEF CcmInv, TagWindow, Waiting
<1>. QED  BY <1>1, <1>2, <1>3 DEF Messages

LEMMA CcmRxKeeps ==
    ASSUME CcmInv, NEW m \in wire, CcmRx(m)
    PROVE  CcmInv'
<1>1. CASE ~Wanted(m)
  <2>1. FwLose(m)
    BY <1>1 DEF CcmRx, FwLose
  <2>. QED  BY <2>1, FwLoseKeeps
<1>2. CASE Wanted(m)
  <2>1. /\ wire' = wire \ {m} /\ replies' = Append(replies, m)
        /\ UNCHANGED <<ccm, tag, result, answered_for>>
    BY <1>2 DEF CcmRx
  <2>2. wire' \subseteq Messages /\ TagWindow' /\ Awaited' /\ NotYetRound'
    BY <2>1, LessOnWire
  <2>3. m \in Messages /\ m.for \in Callers /\ m.for # None /\ tag[m.for] = m.tag
    BY <1>2, WantedIsAwaited, CcmConstants
  <2>4. replies \in Seq(Messages)
    BY DEF CcmInv, CcmTypeOK
  <2>5. /\ replies' \in Seq(Messages) /\ Len(replies) \in Nat /\ Len(replies') = Len(replies) + 1
        /\ \A j \in 1 .. Len(replies) : replies'[j] = replies[j]
        /\ replies'[Len(replies) + 1] = m
    BY <2>1, <2>3, <2>4
  <2>6. /\ DOMAIN replies = 1 .. Len(replies)
        /\ DOMAIN replies' = (1 .. Len(replies)) \cup {Len(replies) + 1}
        /\ Len(replies) + 1 \notin 1 .. Len(replies)
    BY <2>4, <2>5
  <2>7. CcmTypeOK' /\ ReplyIsMine'
    BY <2>1, <2>2, <2>5 DEF CcmInv, CcmTypeOK, ReplyIsMine, ccm
  <2>8. QueuedForWaiter'
    BY <2>1, <2>3, <2>5, <2>6 DEF CcmInv, QueuedForWaiter
  <2>9. \A j \in DOMAIN replies : replies[j].tag # m.tag
    BY <2>3 DEF CcmInv, QueuedOrSent
  <2>10. QueuedOnce'
    BY <2>5, <2>6, <2>9 DEF CcmInv, QueuedOnce
  <2>11. QueuedOrSent'
    <3>1. \A o \in wire' : o.for # None => o.tag # m.tag
      BY <2>1, <2>3, OneMessage
    <3>. QED  BY <3>1, <2>1, <2>5, <2>6 DEF CcmInv, QueuedOrSent
  <2>. QED  BY <2>2, <2>7, <2>8, <2>10, <2>11 DEF CcmInv
<1>. QED  BY <1>1, <1>2

-----------------------------------------------------------------------------
(* The invariant. *)

LEMMA CcmInitHolds == CcmInit => CcmInv
<1>. SUFFICES ASSUME CcmInit PROVE CcmInv
  OBVIOUS
<1>1. Tags \in Nat \ {0, 1} /\ Span \in Nat
  BY CcmConstants, SpanFits
<1>2. 0 \in 0 .. Tags - 1 /\ UsedTags = 0
  BY <1>1, DiffMod DEF CcmInit, UsedTags
<1>3. CcmTypeOK /\ ReplyIsMine
  BY <1>2 DEF CcmInit, CcmTypeOK, ReplyIsMine, TagIds
<1>4. TagWindow
  BY <1>1, <1>2 DEF CcmInit, TagWindow, Waiting
<1>5. Awaited /\ NotYetRound /\ QueuedForWaiter /\ QueuedOnce /\ QueuedOrSent
  BY DEF CcmInit, Awaited, NotYetRound, QueuedForWaiter, QueuedOnce, QueuedOrSent
<1>. QED  BY <1>3, <1>4, <1>5 DEF CcmInv

\* Every section under the control vNIC lock keeps the invariant.
LEMMA CcmStepKeeps == CcmInv /\ [CcmNext]_ccmvars => CcmInv'
<1>. SUFFICES ASSUME CcmInv, [CcmNext]_ccmvars PROVE CcmInv'
  OBVIOUS
<1>1. ASSUME NEW t \in Callers, Communicate(t) \/ CommunicateBusy(t)  PROVE CcmInv'
  BY <1>1, CommunicateKeeps, CommunicateBusyKeeps
<1>2. ASSUME NEW t \in Callers, Reply(t) \/ WaitTimeout(t) \/ WaitInterrupted(t)  PROVE CcmInv'
  <2>1. Waiting(t)
    BY <1>2 DEF Reply, WaitTimeout, WaitInterrupted
  <2>2. \/ TakeReply(t, {"ok", "eio"}) \/ TakeReply(t, {"intr"})
        \/ DropTag(t, "timedout") \/ DropTag(t, "intr")
    BY <1>2 DEF Reply, WaitTimeout, WaitInterrupted
  <2>3. CASE TakeReply(t, {"ok", "eio"})
    BY <2>1, <2>3, TakeReplyKeeps
  <2>4. CASE TakeReply(t, {"intr"})
    BY <2>1, <2>4, TakeReplyKeeps
  <2>5. CASE DropTag(t, "timedout") \/ DropTag(t, "intr")
    BY <2>1, <2>5, DropTagKeeps
  <2>. QED  BY <2>2, <2>3, <2>4, <2>5
<1>3. ASSUME NEW m \in wire, CcmRx(m) \/ FwLose(m)  PROVE CcmInv'
  BY <1>3, CcmRxKeeps, FwLoseKeeps
<1>4. CASE UNCHANGED ccmvars
  <2>1. /\ wire' \subseteq wire /\ UNCHANGED <<ccm, replies, tag, result, answered_for>>
    BY <1>4 DEF ccmvars
  <2>2. wire' \subseteq Messages /\ TagWindow' /\ Awaited' /\ NotYetRound'
    BY <2>1, LessOnWire
  <2>3. CcmTypeOK' /\ ReplyIsMine'
    BY <2>1, <2>2 DEF CcmInv, CcmTypeOK, ReplyIsMine, ccm
  <2>4. QueuedForWaiter' /\ QueuedOnce' /\ QueuedOrSent'
    BY <2>1 DEF CcmInv, QueuedForWaiter, QueuedOnce, QueuedOrSent
  <2>. QED  BY <2>2, <2>3, <2>4 DEF CcmInv
<1>. QED  BY <1>1, <1>2, <1>3, <1>4 DEF CcmNext

\* A queued reply has its caller, so nothing is left when the callers are gone.
LEMMA InvIsEnough == CcmInv => RepliesMatched
<1>. SUFFICES ASSUME CcmInv PROVE RepliesMatched
  OBVIOUS
<1>1. ASSUME NEW i \in DOMAIN replies
      PROVE  \E t \in Callers : Waiting(t) /\ tag[t] = replies[i].tag
  <2>1. replies[i] \in Messages /\ replies[i].for # None /\ tag[replies[i].for] = replies[i].tag
    BY DEF CcmInv, CcmTypeOK, QueuedForWaiter
  <2>2. replies[i].for \in Callers /\ replies[i].tag # -1
    BY <2>1, CcmConstants DEF Messages, TagIds
  <2>. QED  BY <2>1, <2>2 DEF Waiting
<1>. QED  BY <1>1 DEF CcmInv, RepliesMatched, RepliesAwaited

(* nfp_ccm_communicate() only returns the reply to its own request, however *)
(* replies are delayed or lost, the callers time out and the 16 bit tags    *)
(* wrap; nfp_ccm_alloc_tag() and nfp_ccm_free_tag() keep the window of tags *)
(* in use exact; and no reply stays queued that no caller waits for.        *)
THEOREM RepliesAreMatched == CcmSpec => []RepliesMatched
<1>1. CcmInit => CcmInv
  BY CcmInitHolds
<1>2. CcmInv /\ [CcmNext]_ccmvars => CcmInv'
  BY CcmStepKeeps
<1>3. CcmInv => RepliesMatched
  BY InvIsEnough
<1>. QED  BY <1>1, <1>2, <1>3, PTL DEF CcmSpec

=============================================================================

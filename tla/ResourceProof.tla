---------------------------- MODULE ResourceProof ----------------------------
(***************************************************************************)
(* Exclusion of the CPP locks, for any hosts, threads, resources, crashes  *)
(* and failing accesses.                                                   *)
(***************************************************************************)
EXTENDS Resource, TLAPS

\* The locks a thread has follow from where it is in the code.
WhereAt(t) ==
    /\ pc[t] \in {"idle", "sleep"} => holds[t] = {}
    /\ pc[t] = "find" => holds[t] = {Dev}
    /\ pc[t] = "held" => holds[t] = {want[t]}
    /\ pc[t] \in {"testset", "own", "busy"} =>
          holds[t] = IF cur[t] = Dev THEN {} ELSE {Dev}
    /\ pc[t] \in {"read", "write"} =>
          holds[t] = IF cur[t] = Dev /\ then[t] = "held" THEN {Dev, want[t]}
                     ELSE {cur[t]}
    /\ pc[t] = "rc_read" =>
          holds[t] = IF Dev \in todo[Host[t]] THEN {} ELSE {Dev}
    /\ pc[t] = "rc_write" => holds[t] = IF cur[t] = Dev THEN {} ELSE {Dev}
    /\ pc[t] \in {"testset", "own", "busy"} /\ cur[t] # Dev => cur[t] = want[t]
    /\ pc[t] \in {"read", "write"} /\ cur[t] # Dev =>
          cur[t] = want[t] /\ then[t] = "idle"
    /\ pc[t] \in {"read", "write"} /\ want[t] = Dev =>
          cur[t] = Dev /\ then[t] = "idle"
    /\ pc[t] = "rc_write" => (cur[t] = Dev <=> Dev \in todo[Host[t]])
    /\ pc[t] \in {"rc_read", "rc_write"} => want[t] = Dev
    /\ pc[t] \in {"testset", "own", "busy"} /\ want[t] = Dev =>
          Dev \notin todo[Host[t]]

Where == \A t \in Threads : WhereAt(t)

\* Before a host is up only its leader runs, and only for table init.
Booting ==
    \A t \in Threads :
        /\ pc[t] # "idle" /\ want[t] = Dev =>
              t = Leader[Host[t]] /\ state[Host[t]] = "init"
        /\ pc[t] # "idle" /\ want[t] # Dev => state[Host[t]] = "up"

\* Unless a reclaim went wrong, a word is set for each taker, who is alone.
Alone ==
    ~misbust =>
        \A t \in Threads, l \in Locks : Takes(t, l) =>
            /\ word[l].locked
            /\ \A u \in Threads : Takes(u, l) => u = t

RInv == TypeOK /\ Where /\ Booting /\ Alone

-----------------------------------------------------------------------------

USE DEF locals, Locks

\* A step of one thread leaves the others where they are.
LEMMA WhereFrame ==
    ASSUME Where, NEW t \in Threads, WhereAt(t)',
           \A u \in Threads \ {t} :
              /\ pc'[u] = pc[u] /\ cur'[u] = cur[u] /\ want'[u] = want[u]
              /\ then'[u] = then[u] /\ holds'[u] = holds[u]
              /\ todo'[Host[u]] = todo[Host[u]]
    PROVE  Where'
<1>1. ASSUME NEW u \in Threads \ {t} PROVE WhereAt(u)'
  <2>1. WhereAt(u)
    BY DEF Where
  <2>. QED  BY ZenonT(30), <2>1 DEF WhereAt
<1>. QED  BY <1>1 DEF Where

\* A step that takes no lock, and releases at most a word nobody takes after it,
\* keeps takers alone.
LEMMA AloneRelease ==
    ASSUME Alone, ~misbust' => ~misbust,
           \A u \in Threads, l \in Locks : Takes(u, l)' => Takes(u, l),
           NEW k \in Locks, \A l \in Locks : l # k => word'[l] = word[l],
           ~misbust' => \A u \in Threads : ~Takes(u, k)'
    PROVE  Alone'
BY DEF Alone

\* A step that takes no lock and writes no word keeps takers alone.
LEMMA AloneFrame ==
    ASSUME Alone, misbust' = misbust, word' = word,
           \A u \in Threads, l \in Locks : Takes(u, l)' => Takes(u, l)
    PROVE  Alone'
BY ZenonT(30) DEF Alone

\* nfp_resource_acquire() preserves the invariant.
LEMMA AcquireStep ==
    ASSUME RInv, NEW t \in Threads, NEW r \in Resources, Acquire(t, r)
    PROVE  RInv'
<1>. USE ResourceConstants DEF RInv, Acquire, Work, Goto
<1>. WhereAt(t)
  BY DEF RInv, Where
<1>1. TypeOK'
  <2>1. word' \in [Locks -> [owner : Interfaces \cup {NoInterface}, locked : BOOLEAN]]
    BY DEF TypeOK
  <2>2. state' \in [Interfaces -> {"down", "init", "up"}]
    BY DEF TypeOK
  <2>3. /\ pc' \in [Threads -> PcStates] /\ cur' \in [Threads -> Locks]
        /\ then' \in [Threads -> {"idle", "held", "sleep"}]
    BY DEF TypeOK, PcStates
  <2>4. /\ want' \in [Threads -> Locks]
        /\ holds' \in [Threads -> SUBSET Locks] /\ todo' \in [Interfaces -> SUBSET Locks]
    BY DEF TypeOK
  <2>5. \A u \in Threads : pc'[u] \in {"find", "sleep", "held"} => want'[u] # Dev
    BY DEF TypeOK, PcStates, WhereAt
  <2>6. crashes' \in 0 .. MaxCrashes /\ misbust' \in BOOLEAN /\ cut' \subseteq Locks
    BY DEF TypeOK
  <2>. QED  BY <2>1, <2>2, <2>3, <2>4, <2>5, <2>6 DEF TypeOK
<1>2. Where'
  <2>1. \A u \in Threads \ {t} :
           /\ pc'[u] = pc[u] /\ cur'[u] = cur[u] /\ want'[u] = want[u]
           /\ then'[u] = then[u] /\ holds'[u] = holds[u]
           /\ todo'[Host[u]] = todo[Host[u]]
    BY DEF TypeOK
  <2>2. WhereAt(t)'
    BY DEF TypeOK, PcStates, WhereAt, Booting
  <2>. QED  BY <2>1, <2>2, WhereFrame
<1>3. Booting'
  BY DEF TypeOK, PcStates, WhereAt, Booting
<1>4. Alone'
  <2>1. \A u \in Threads, l \in Locks : Takes(u, l)' => Takes(u, l)
    BY DEF TypeOK, Takes
  <2>2. word' = word /\ misbust' = misbust
    OBVIOUS
  <2>. QED  BY <2>1, <2>2, AloneFrame
<1>. QED  BY <1>1, <1>2, <1>3, <1>4

\* test_set_imm preserves the invariant.
LEMMA TestSetStep ==
    ASSUME RInv, NEW t \in Threads, TestSet(t)
    PROVE  RInv'
<1>. USE ResourceConstants DEF RInv, TestSet, Goto, WasUnlocked, Locked
<1>. WhereAt(t)
  BY DEF RInv, Where
<1>1. TypeOK'
  <2>1. word' \in [Locks -> [owner : Interfaces \cup {NoInterface}, locked : BOOLEAN]]
    BY DEF TypeOK
  <2>2. state' \in [Interfaces -> {"down", "init", "up"}]
    BY DEF TypeOK
  <2>3. /\ pc' \in [Threads -> PcStates] /\ cur' \in [Threads -> Locks]
        /\ then' \in [Threads -> {"idle", "held", "sleep"}]
    BY DEF TypeOK, PcStates
  <2>4. /\ want' \in [Threads -> Locks]
        /\ holds' \in [Threads -> SUBSET Locks] /\ todo' \in [Interfaces -> SUBSET Locks]
    BY DEF TypeOK
  <2>5. \A u \in Threads : pc'[u] \in {"find", "sleep", "held"} => want'[u] # Dev
    BY DEF TypeOK, PcStates, WhereAt
  <2>6. crashes' \in 0 .. MaxCrashes /\ misbust' \in BOOLEAN /\ cut' \subseteq Locks
    BY DEF TypeOK
  <2>. QED  BY <2>1, <2>2, <2>3, <2>4, <2>5, <2>6 DEF TypeOK
<1>2. Where'
  <2>1. \A u \in Threads \ {t} :
           /\ pc'[u] = pc[u] /\ cur'[u] = cur[u] /\ want'[u] = want[u]
           /\ then'[u] = then[u] /\ holds'[u] = holds[u]
           /\ todo'[Host[u]] = todo[Host[u]]
    BY DEF TypeOK
  <2>2. WhereAt(t)'
    BY DEF TypeOK, PcStates, WhereAt, Booting
  <2>. QED  BY <2>1, <2>2, WhereFrame
<1>3. Booting'
  BY DEF TypeOK, PcStates, WhereAt, Booting
<1>4. Alone'
  BY DEF TypeOK, PcStates, Where, WhereAt, Booting, Alone, Takes
<1>. QED  BY <1>1, <1>2, <1>3, <1>4

\* The write of the owner id preserves the invariant.
LEMMA WriteOwnerStep ==
    ASSUME RInv, NEW t \in Threads, WriteOwner(t)
    PROVE  RInv'
<1>. USE ResourceConstants DEF RInv, WriteOwner, Release, Work, Goto, WithTable, Locked
<1>. WhereAt(t)
  BY DEF RInv, Where
<1>1. TypeOK'
  <2>1. word' \in [Locks -> [owner : Interfaces \cup {NoInterface}, locked : BOOLEAN]]
    BY ZenonT(30) DEF TypeOK
  <2>2. state' \in [Interfaces -> {"down", "init", "up"}]
    BY DEF TypeOK
  <2>3. /\ pc' \in [Threads -> PcStates] /\ cur' \in [Threads -> Locks]
        /\ then' \in [Threads -> {"idle", "held", "sleep"}]
    <3>1. CASE cur[t] = Dev
      BY <3>1 DEF TypeOK, PcStates, WhereAt
    <3>2. CASE cur[t] # Dev
      <4>1. pc' = [pc EXCEPT ![t] = "read"] /\ cur' = [cur EXCEPT ![t] = Dev]
            /\ then' = [then EXCEPT ![t] = "held"]
        BY <3>2
      <4>. QED  BY <4>1 DEF TypeOK, PcStates
    <3>. QED  BY <3>1, <3>2
  <2>4. /\ want' \in [Threads -> Locks]
        /\ holds' \in [Threads -> SUBSET Locks] /\ todo' \in [Interfaces -> SUBSET Locks]
    BY DEF TypeOK
  <2>5. \A u \in Threads : pc'[u] \in {"find", "sleep", "held"} => want'[u] # Dev
    BY DEF TypeOK, PcStates, WhereAt
  <2>6. crashes' \in 0 .. MaxCrashes /\ misbust' \in BOOLEAN /\ cut' \subseteq Locks
    BY DEF TypeOK
  <2>. QED  BY <2>1, <2>2, <2>3, <2>4, <2>5, <2>6 DEF TypeOK
<1>2. Where'
  <2>1. \A u \in Threads \ {t} : WhereAt(u)'
    BY DEF TypeOK, Where, WhereAt
  <2>2. CASE cur[t] = Dev
    <3>1. /\ holds'[t] = {Dev} /\ cur'[t] = Dev /\ UNCHANGED <<want, then, todo>>
          /\ pc'[t] = IF want[t] = Dev THEN "rc_read" ELSE "find"
      BY <2>2 DEF TypeOK, Where, WhereAt
    <3>2. want[t] = Dev => Dev \notin todo[Host[t]]
      BY ZenonT(30) DEF Where, WhereAt
    <3>. HIDE DEF WriteOwner, Release, Work, Goto, WithTable
    <3>3. WhereAt(t)'
      BY <3>1, <3>2 DEF WhereAt
    <3>. QED  BY <2>1, <3>3 DEF Where
  <2>3. CASE cur[t] # Dev
    <3>1. /\ holds'[t] = {Dev, want[t]} /\ pc'[t] = "read" /\ then'[t] = "held"
          /\ cur'[t] = Dev /\ want' = want /\ want[t] # Dev
      BY <2>3 DEF TypeOK, Where, WhereAt
    <3>. HIDE DEF WriteOwner, Release, Work, Goto, WithTable
    <3>2. WhereAt(t)'
      BY <3>1 DEF WhereAt
    <3>. QED  BY <2>1, <3>2 DEF Where
  <2>. QED  BY <2>2, <2>3
<1>3. Booting'
  BY DEF TypeOK, PcStates, WhereAt, Booting
<1>4. Alone'
  BY DEF TypeOK, PcStates, Where, WhereAt, Booting, Alone, Takes
<1>. QED  BY <1>1, <1>2, <1>3, <1>4

\* Its failure preserves the invariant.
LEMMA WriteOwnerFailsStep ==
    ASSUME RInv, NEW t \in Threads, WriteOwnerFails(t)
    PROVE  RInv'
<1>. USE ResourceConstants DEF RInv, WriteOwnerFails, Release, Work, Goto, Fail
<1>. WhereAt(t)
  BY DEF RInv, Where
<1>1. TypeOK'
  <2>1. word' \in [Locks -> [owner : Interfaces \cup {NoInterface}, locked : BOOLEAN]]
    BY Zenon DEF TypeOK
  <2>2. state' \in [Interfaces -> {"down", "init", "up"}]
    BY DEF TypeOK
  <2>3. /\ pc' \in [Threads -> PcStates] /\ cur' \in [Threads -> Locks]
        /\ then' \in [Threads -> {"idle", "held", "sleep"}]
    <3>1. CASE cur[t] = Dev
      BY <3>1 DEF TypeOK, PcStates
    <3>2. CASE cur[t] # Dev
      BY ZenonT(30), <3>2 DEF TypeOK, PcStates
    <3>. QED  BY <3>1, <3>2, Zenon
  <2>4. /\ want' \in [Threads -> Locks]
        /\ holds' \in [Threads -> SUBSET Locks] /\ todo' \in [Interfaces -> SUBSET Locks]
    BY Zenon DEF TypeOK
  <2>5. \A u \in Threads : pc'[u] \in {"find", "sleep", "held"} => want'[u] # Dev
    BY DEF TypeOK, PcStates, WhereAt
  <2>6. crashes' \in 0 .. MaxCrashes /\ misbust' \in BOOLEAN /\ cut' \subseteq Locks
    BY DEF TypeOK
  <2>. QED  BY <2>1, <2>2, <2>3, <2>4, <2>5, <2>6, Zenon DEF TypeOK
<1>2. Where'
  <2>1. \A u \in Threads \ {t} :
           /\ pc'[u] = pc[u] /\ cur'[u] = cur[u] /\ want'[u] = want[u]
           /\ then'[u] = then[u] /\ holds'[u] = holds[u]
           /\ todo'[Host[u]] = todo[Host[u]]
    BY DEF TypeOK
  <2>2. WhereAt(t)'
    BY DEF TypeOK, PcStates, WhereAt, Booting
  <2>. QED  BY <2>1, <2>2, WhereFrame, Zenon
<1>3. Booting'
  BY DEF TypeOK, PcStates, WhereAt, Booting
<1>4. Alone'
  <2>1. \A u \in Threads, l \in Locks : Takes(u, l)' => Takes(u, l)
    BY DEF TypeOK, Takes
  <2>2. word' = word /\ misbust' = misbust
    OBVIOUS
  <2>. QED  BY ZenonT(30), <2>1, <2>2, AloneFrame
<1>. QED  BY <1>1, <1>2, <1>3, <1>4, Zenon

\* A busy lock preserves the invariant.
LEMMA BusyStep ==
    ASSUME RInv, NEW t \in Threads, Busy(t)
    PROVE  RInv'
<1>. USE ResourceConstants DEF RInv, Busy, Release, Work, Goto, Fail
<1>. WhereAt(t)
  BY Zenon DEF RInv, Where
<1>1. TypeOK'
  <2>1. word' \in [Locks -> [owner : Interfaces \cup {NoInterface}, locked : BOOLEAN]]
    BY Zenon DEF TypeOK
  <2>2. state' \in [Interfaces -> {"down", "init", "up"}]
    BY DEF TypeOK
  <2>3. /\ pc' \in [Threads -> PcStates] /\ cur' \in [Threads -> Locks]
        /\ then' \in [Threads -> {"idle", "held", "sleep"}]
    <3>1. CASE cur[t] = Dev
      BY <3>1 DEF TypeOK, PcStates
    <3>2. CASE cur[t] # Dev
      BY ZenonT(30), <3>2 DEF TypeOK, PcStates
    <3>. QED  BY <3>1, <3>2, Zenon
  <2>4. /\ want' \in [Threads -> Locks]
        /\ holds' \in [Threads -> SUBSET Locks] /\ todo' \in [Interfaces -> SUBSET Locks]
    BY Zenon DEF TypeOK
  <2>5. \A u \in Threads : pc'[u] \in {"find", "sleep", "held"} => want'[u] # Dev
    BY DEF TypeOK, PcStates, WhereAt
  <2>6. crashes' \in 0 .. MaxCrashes /\ misbust' \in BOOLEAN /\ cut' \subseteq Locks
    BY Zenon DEF TypeOK
  <2>. QED  BY <2>1, <2>2, <2>3, <2>4, <2>5, <2>6, Zenon DEF TypeOK
<1>2. Where'
  <2>1. \A u \in Threads \ {t} :
           /\ pc'[u] = pc[u] /\ cur'[u] = cur[u] /\ want'[u] = want[u]
           /\ then'[u] = then[u] /\ holds'[u] = holds[u]
           /\ todo'[Host[u]] = todo[Host[u]]
    BY DEF TypeOK
  <2>2. WhereAt(t)'
    BY DEF TypeOK, PcStates, WhereAt, Booting
  <2>. QED  BY <2>1, <2>2, WhereFrame, Zenon
<1>3. Booting'
  BY DEF TypeOK, PcStates, WhereAt, Booting
<1>4. Alone'
  <2>1. \A u \in Threads, l \in Locks : Takes(u, l)' => Takes(u, l)
    BY DEF TypeOK, Takes
  <2>2. word' = word /\ misbust' = misbust
    BY ZenonT(30)
  <2>. QED  BY ZenonT(30), <2>1, <2>2, AloneFrame
<1>. QED  BY <1>1, <1>2, <1>3, <1>4, Zenon

\* The retry of nfp_resource_acquire() preserves the invariant.
LEMMA SleepStep ==
    ASSUME RInv, NEW t \in Threads, Sleep(t)
    PROVE  RInv'
<1>. USE ResourceConstants DEF RInv, Sleep, Work, Goto
<1>. WhereAt(t)
  BY Zenon DEF RInv, Where
<1>1. TypeOK'
  <2>1. word' \in [Locks -> [owner : Interfaces \cup {NoInterface}, locked : BOOLEAN]]
    BY Zenon DEF TypeOK
  <2>2. state' \in [Interfaces -> {"down", "init", "up"}]
    BY Zenon DEF TypeOK
  <2>3. /\ pc' \in [Threads -> PcStates] /\ cur' \in [Threads -> Locks]
        /\ then' \in [Threads -> {"idle", "held", "sleep"}]
    BY ZenonT(30) DEF TypeOK, PcStates
  <2>4. /\ want' \in [Threads -> Locks]
        /\ holds' \in [Threads -> SUBSET Locks] /\ todo' \in [Interfaces -> SUBSET Locks]
    BY Zenon DEF TypeOK
  <2>5. \A u \in Threads : pc'[u] \in {"find", "sleep", "held"} => want'[u] # Dev
    BY DEF TypeOK, PcStates, WhereAt
  <2>6. crashes' \in 0 .. MaxCrashes /\ misbust' \in BOOLEAN /\ cut' \subseteq Locks
    BY Zenon DEF TypeOK
  <2>. QED  BY <2>1, <2>2, <2>3, <2>4, <2>5, <2>6, Zenon DEF TypeOK
<1>2. Where'
  <2>1. \A u \in Threads \ {t} :
           /\ pc'[u] = pc[u] /\ cur'[u] = cur[u] /\ want'[u] = want[u]
           /\ then'[u] = then[u] /\ holds'[u] = holds[u]
           /\ todo'[Host[u]] = todo[Host[u]]
    BY DEF TypeOK
  <2>2. WhereAt(t)'
    BY DEF TypeOK, PcStates, WhereAt, Booting
  <2>. QED  BY <2>1, <2>2, WhereFrame, Zenon
<1>3. Booting'
  BY DEF TypeOK, PcStates, WhereAt, Booting
<1>4. Alone'
  <2>1. \A u \in Threads, l \in Locks : Takes(u, l)' => Takes(u, l)
    BY DEF TypeOK, Takes
  <2>2. word' = word /\ misbust' = misbust
    OBVIOUS
  <2>. QED  BY <2>1, <2>2, AloneFrame, Zenon
<1>. QED  BY <1>1, <1>2, <1>3, <1>4, Zenon

\* nfp_cpp_resource_find() preserves the invariant.
LEMMA FindStep ==
    ASSUME RInv, NEW t \in Threads, Find(t)
    PROVE  RInv'
<1>. USE ResourceConstants DEF RInv, Find, Release, Work, Goto
<1>. WhereAt(t)
  BY Zenon DEF RInv, Where
<1>1. TypeOK'
  <2>1. word' \in [Locks -> [owner : Interfaces \cup {NoInterface}, locked : BOOLEAN]]
    BY Zenon DEF TypeOK
  <2>2. state' \in [Interfaces -> {"down", "init", "up"}]
    BY Zenon DEF TypeOK
  <2>3. /\ pc' \in [Threads -> PcStates] /\ cur' \in [Threads -> Locks]
        /\ then' \in [Threads -> {"idle", "held", "sleep"}]
    <3>1. \E l \in Locks, s \in {"testset", "read"} :
            pc' = [pc EXCEPT ![t] = s] /\ cur' = [cur EXCEPT ![t] = l]
      BY Zenon DEF TypeOK
    <3>2. then' = then \/ then' = [then EXCEPT ![t] = "idle"]
      OBVIOUS
    <3>. HIDE DEF Find, Release, Work, Goto
    <3>. QED  BY <3>1, <3>2 DEF TypeOK, PcStates
  <2>4. /\ want' \in [Threads -> Locks]
        /\ holds' \in [Threads -> SUBSET Locks] /\ todo' \in [Interfaces -> SUBSET Locks]
    BY Zenon DEF TypeOK
  <2>5. \A u \in Threads : pc'[u] \in {"find", "sleep", "held"} => want'[u] # Dev
    BY DEF TypeOK, PcStates, WhereAt
  <2>6. crashes' \in 0 .. MaxCrashes /\ misbust' \in BOOLEAN /\ cut' \subseteq Locks
    BY Zenon DEF TypeOK
  <2>. QED  BY <2>1, <2>2, <2>3, <2>4, <2>5, <2>6, Zenon DEF TypeOK
<1>2. Where'
  <2>1. \A u \in Threads \ {t} :
           /\ pc'[u] = pc[u] /\ cur'[u] = cur[u] /\ want'[u] = want[u]
           /\ then'[u] = then[u] /\ holds'[u] = holds[u]
           /\ todo'[Host[u]] = todo[Host[u]]
    BY DEF TypeOK
  <2>2. WhereAt(t)'
    BY SMTT(30) DEF TypeOK, PcStates, WhereAt, Booting
  <2>. QED  BY <2>1, <2>2, WhereFrame, Zenon
<1>3. Booting'
  BY DEF TypeOK, PcStates, WhereAt, Booting
<1>4. Alone'
  <2>1. \A u \in Threads, l \in Locks : Takes(u, l)' => Takes(u, l)
    BY DEF TypeOK, Takes
  <2>2. word' = word /\ misbust' = misbust
    OBVIOUS
  <2>. QED  BY <2>1, <2>2, AloneFrame, Zenon
<1>. QED  BY <1>1, <1>2, <1>3, <1>4, Zenon

\* nfp_resource_release() preserves the invariant.
LEMMA ReleaseResourceStep ==
    ASSUME RInv, NEW t \in Threads, ReleaseResource(t)
    PROVE  RInv'
<1>. USE ResourceConstants DEF RInv, ReleaseResource, Release, Work, Goto
<1>. WhereAt(t)
  BY Zenon DEF RInv, Where
<1>1. TypeOK'
  <2>1. word' \in [Locks -> [owner : Interfaces \cup {NoInterface}, locked : BOOLEAN]]
    BY Zenon DEF TypeOK
  <2>2. state' \in [Interfaces -> {"down", "init", "up"}]
    BY Zenon DEF TypeOK
  <2>3. /\ pc' \in [Threads -> PcStates] /\ cur' \in [Threads -> Locks]
        /\ then' \in [Threads -> {"idle", "held", "sleep"}]
    BY Zenon DEF TypeOK, PcStates
  <2>4. /\ want' \in [Threads -> Locks]
        /\ holds' \in [Threads -> SUBSET Locks] /\ todo' \in [Interfaces -> SUBSET Locks]
    BY Zenon DEF TypeOK
  <2>5. \A u \in Threads : pc'[u] \in {"find", "sleep", "held"} => want'[u] # Dev
    BY Zenon DEF TypeOK, PcStates, WhereAt
  <2>6. crashes' \in 0 .. MaxCrashes /\ misbust' \in BOOLEAN /\ cut' \subseteq Locks
    BY Zenon DEF TypeOK
  <2>. QED  BY <2>1, <2>2, <2>3, <2>4, <2>5, <2>6, Zenon DEF TypeOK
<1>2. Where'
  <2>1. \A u \in Threads \ {t} :
           /\ pc'[u] = pc[u] /\ cur'[u] = cur[u] /\ want'[u] = want[u]
           /\ then'[u] = then[u] /\ holds'[u] = holds[u]
           /\ todo'[Host[u]] = todo[Host[u]]
    BY DEF TypeOK
  <2>2. WhereAt(t)'
    BY Zenon DEF TypeOK, WhereAt
  <2>. QED  BY <2>1, <2>2, WhereFrame, Zenon
<1>3. Booting'
  BY DEF TypeOK, PcStates, WhereAt, Booting
<1>4. Alone'
  <2>1. \A u \in Threads, l \in Locks : Takes(u, l)' => Takes(u, l)
    BY Zenon DEF TypeOK, Takes
  <2>2. word' = word /\ misbust' = misbust
    OBVIOUS
  <2>. QED  BY ZenonT(30), <2>1, <2>2, AloneFrame
<1>. QED  BY <1>1, <1>2, <1>3, <1>4, Zenon

\* The read of nfp_cpp_mutex_unlock() preserves the invariant.
LEMMA UnlockReadStep ==
    ASSUME RInv, NEW t \in Threads, UnlockRead(t)
    PROVE  RInv'
<1>. USE ResourceConstants DEF RInv, UnlockRead, Unlock, Goto
<1>. WhereAt(t)
  BY Zenon DEF RInv, Where
<1>1. TypeOK'
  <2>1. word' \in [Locks -> [owner : Interfaces \cup {NoInterface}, locked : BOOLEAN]]
    BY Zenon DEF TypeOK
  <2>2. state' \in [Interfaces -> {"down", "init", "up"}]
    BY SMT, SMTT(30) DEF TypeOK
  <2>3. /\ pc' \in [Threads -> PcStates] /\ cur' \in [Threads -> Locks]
        /\ then' \in [Threads -> {"idle", "held", "sleep"}]
    <3>1. cur' \in [Threads -> Locks] /\ then' \in [Threads -> {"idle", "held", "sleep"}]
      BY Zenon DEF TypeOK
    <3>2. CASE MayUnlock(t)
      BY <3>2, Zenon DEF TypeOK, PcStates
    <3>3. CASE ~MayUnlock(t)
      BY <3>3, SMT, SMTT(30) DEF TypeOK, PcStates
    <3>. QED  BY <3>1, <3>2, <3>3, Zenon
  <2>4. /\ want' \in [Threads -> Locks]
        /\ holds' \in [Threads -> SUBSET Locks] /\ todo' \in [Interfaces -> SUBSET Locks]
    BY SMT, SMTT(30) DEF TypeOK
  <2>5. \A u \in Threads : pc'[u] \in {"find", "sleep", "held"} => want'[u] # Dev
    BY SMT, SMTT(30) DEF TypeOK, PcStates, WhereAt
  <2>6. crashes' \in 0 .. MaxCrashes /\ misbust' \in BOOLEAN /\ cut' \subseteq Locks
    BY Zenon DEF TypeOK
  <2>. QED  BY <2>1, <2>2, <2>3, <2>4, <2>5, <2>6, Zenon DEF TypeOK
<1>2. Where'
  <2>1. \A u \in Threads \ {t} : WhereAt(u)'
    <3>1. \A u \in Threads \ {t} : pc'[u] = pc[u] /\ holds'[u] = holds[u]
      BY SMT, SMTT(30) DEF TypeOK
    <3>2. UNCHANGED <<cur, want, then, todo>>
      BY ZenonT(30)
    <3>. HIDE DEF UnlockRead, Unlock, Goto
    <3>. TAKE u \in Threads \ {t}
    <3>3. WhereAt(u)
      BY Zenon DEF Where
    <3>. QED  BY ZenonT(30), <3>1, <3>2, <3>3 DEF WhereAt
  <2>2. CASE MayUnlock(t)
    <3>1. /\ pc[t] = "read" /\ pc'[t] = "write"
          /\ UNCHANGED <<cur, want, then, todo, holds>>
      BY <2>2, Zenon DEF TypeOK
    <3>. HIDE DEF UnlockRead, Unlock, Goto
    <3>2. WhereAt(t)'
      BY <3>1, Zenon DEF WhereAt
    <3>. QED  BY <2>1, <3>2, Zenon DEF Where
  <2>3. CASE ~MayUnlock(t)
    <3>2. /\ pc[t] \in {"read", "write"} /\ pc'[t] = then[t]
          /\ holds'[t] = holds[t] \ {cur[t]} /\ UNCHANGED <<cur, want, then, todo>>
      BY <2>3, SMT, SMTT(30) DEF TypeOK
    <3>3. then[t] \in {"idle", "held", "sleep"}
      BY <2>3, Zenon DEF TypeOK
    <3>. HIDE DEF UnlockRead, Unlock, Goto
    <3>4. then[t] = "held" => cur[t] = Dev /\ want[t] # Dev
      BY ZenonT(30), <3>2 DEF Where, WhereAt
    <3>5. holds[t] = IF then[t] = "held" THEN {Dev, want[t]} ELSE {cur[t]}
      BY ZenonT(30), <3>2, <3>4 DEF Where, WhereAt
    <3>6. holds'[t] = IF then[t] = "held" THEN {want[t]} ELSE {}
      BY ZenonT(30), <3>2, <3>4, <3>5
    <3>7. WhereAt(t)'
      BY ZenonT(30), <3>2, <3>3, <3>6 DEF WhereAt
    <3>. QED  BY <2>1, <3>7, Zenon DEF Where
  <2>. QED  BY <2>2, <2>3, Zenon
<1>3. Booting'
  BY SMT, SMTT(30) DEF TypeOK, PcStates, WhereAt, Booting
<1>4. Alone'
  <2>1. \A u \in Threads, l \in Locks : Takes(u, l)' => Takes(u, l)
    <3>1. /\ \A u \in Threads :
                holds'[u] \subseteq holds[u] /\ (pc'[u] = "own" => pc[u] = "own")
          /\ cur' = cur
      BY SMT, SMTT(30) DEF TypeOK
    <3>. HIDE DEF UnlockRead, Unlock, Goto
    <3>. QED  BY ZenonT(30), <3>1 DEF Takes
  <2>2. word' = word /\ misbust' = misbust
    BY ZenonT(30)
  <2>. QED  BY ZenonT(30), <2>1, <2>2, AloneFrame
<1>. QED  BY <1>1, <1>2, <1>3, <1>4, Zenon

\* The write of nfp_cpp_mutex_unlock() preserves the invariant.
LEMMA UnlockWriteStep ==
    ASSUME RInv, NEW t \in Threads, UnlockWrite(t)
    PROVE  RInv'
<1>. USE ResourceConstants DEF RInv, UnlockWrite, Unlock, Goto, Unlocked
<1>. WhereAt(t)
  BY Zenon DEF RInv, Where
<1>1. TypeOK'
  <2>1. word' \in [Locks -> [owner : Interfaces \cup {NoInterface}, locked : BOOLEAN]]
    BY ZenonT(30) DEF TypeOK
  <2>2. state' \in [Interfaces -> {"down", "init", "up"}]
    BY ZenonT(30) DEF TypeOK
  <2>3. /\ pc' \in [Threads -> PcStates] /\ cur' \in [Threads -> Locks]
        /\ then' \in [Threads -> {"idle", "held", "sleep"}]
    BY Zenon DEF TypeOK, PcStates
  <2>4. /\ want' \in [Threads -> Locks]
        /\ holds' \in [Threads -> SUBSET Locks] /\ todo' \in [Interfaces -> SUBSET Locks]
    BY Zenon DEF TypeOK
  <2>5. \A u \in Threads : pc'[u] \in {"find", "sleep", "held"} => want'[u] # Dev
    BY SMT, SMTT(30) DEF TypeOK, PcStates, WhereAt
  <2>6. crashes' \in 0 .. MaxCrashes /\ misbust' \in BOOLEAN /\ cut' \subseteq Locks
    BY Zenon DEF TypeOK
  <2>. QED  BY <2>1, <2>2, <2>3, <2>4, <2>5, <2>6, Zenon DEF TypeOK
<1>2. Where'
  <2>1. \A u \in Threads \ {t} : WhereAt(u)'
    <3>1. \A u \in Threads \ {t} : pc'[u] = pc[u] /\ holds'[u] = holds[u]
      BY Zenon DEF TypeOK
    <3>2. UNCHANGED <<cur, want, then, todo>>
      BY ZenonT(30)
    <3>. HIDE DEF UnlockWrite, Unlock, Goto
    <3>. TAKE u \in Threads \ {t}
    <3>3. WhereAt(u)
      BY Zenon DEF Where
    <3>. QED  BY ZenonT(30), <3>1, <3>2, <3>3 DEF WhereAt
  <2>2. /\ pc[t] \in {"read", "write"} /\ pc'[t] = then[t]
        /\ holds'[t] = holds[t] \ {cur[t]} /\ UNCHANGED <<cur, want, then, todo>>
    BY SMT, SMTT(30) DEF TypeOK
  <2>3. then[t] \in {"idle", "held", "sleep"}
    BY Zenon DEF TypeOK
  <2>. HIDE DEF UnlockWrite, Unlock, Goto
  <2>4. then[t] = "held" => cur[t] = Dev /\ want[t] # Dev
    BY ZenonT(30), <2>2 DEF Where, WhereAt
  <2>5. holds[t] = IF then[t] = "held" THEN {Dev, want[t]} ELSE {cur[t]}
    BY ZenonT(30), <2>2, <2>4 DEF Where, WhereAt
  <2>6. holds'[t] = IF then[t] = "held" THEN {want[t]} ELSE {}
    BY ZenonT(30), <2>2, <2>4, <2>5
  <2>7. WhereAt(t)'
    BY ZenonT(30), <2>2, <2>3, <2>6 DEF WhereAt
  <2>. QED  BY <2>1, <2>7, Zenon DEF Where
<1>3. Booting'
  BY SMT, SMTT(30) DEF TypeOK, PcStates, WhereAt, Booting
<1>4. Alone'
  <2>1. cur[t] \in holds[t] /\ holds'[t] = holds[t] \ {cur[t]} /\ pc'[t] # "own"
    BY SMT, SMTT(30) DEF TypeOK, WhereAt
  <2>2. \A u \in Threads, l \in Locks : Takes(u, l)' => Takes(u, l)
    BY <2>1, SMT, SMTT(30) DEF TypeOK, Takes
  <2>3. ~misbust' => \A u \in Threads : ~Takes(u, cur[t])'
    BY <2>1, <2>2, SMT, SMTT(30) DEF TypeOK, Alone, Takes
  <2>4. (~misbust' => ~misbust) /\ \A l \in Locks : l # cur[t] => word'[l] = word[l]
    BY Zenon DEF TypeOK
  <2>5. cur[t] \in Locks
    BY Zenon DEF TypeOK
  <2>. QED  BY ZenonT(30), <2>2, <2>3, <2>4, <2>5, AloneRelease
<1>. QED  BY ZenonT(30), <1>1, <1>2, <1>3, <1>4

\* The read of nfp_cpp_mutex_reclaim() preserves the invariant.
LEMMA ReclaimReadStep ==
    ASSUME RInv, NEW t \in Threads, ReclaimRead(t)
    PROVE  RInv'
<1>. USE ResourceConstants DEF RInv, ReclaimRead, NextEntry, Reclaimed, Release, Work, Goto
<1>. WhereAt(t)
  BY Zenon DEF RInv, Where
<1>1. TypeOK'
  <2>1. word' \in [Locks -> [owner : Interfaces \cup {NoInterface}, locked : BOOLEAN]]
    BY Zenon DEF TypeOK
  <2>2. state' \in [Interfaces -> {"down", "init", "up"}]
    BY Zenon DEF TypeOK
  <2>3. /\ pc' \in [Threads -> PcStates] /\ cur' \in [Threads -> Locks]
        /\ then' \in [Threads -> {"idle", "held", "sleep"}]
    <3>1. \E l \in Locks, s \in {"testset", "read", "rc_read", "rc_write"} :
            pc' = [pc EXCEPT ![t] = s] /\ cur' = [cur EXCEPT ![t] = l]
      BY SMT, SMTT(30) DEF TypeOK
    <3>2. then' = then \/ then' = [then EXCEPT ![t] = "idle"]
      BY SMT, SMTT(30)
    <3>. HIDE DEF ReclaimRead, Reclaimed, Release, Work, Goto
    <3>. QED  BY <3>1, <3>2, SMT, SMTT(30) DEF TypeOK, PcStates
  <2>4. /\ want' \in [Threads -> Locks]
        /\ holds' \in [Threads -> SUBSET Locks] /\ todo' \in [Interfaces -> SUBSET Locks]
    BY SMT, SMTT(30) DEF TypeOK
  <2>5. \A u \in Threads : pc'[u] \in {"find", "sleep", "held"} => want'[u] # Dev
    BY SMT, SMTT(30) DEF TypeOK
  <2>6. crashes' \in 0 .. MaxCrashes /\ misbust' \in BOOLEAN /\ cut' \subseteq Locks
    BY Zenon DEF TypeOK
  <2>. QED  BY <2>1, <2>2, <2>3, <2>4, <2>5, <2>6, Zenon DEF TypeOK
<1>2. Where'
  <2>1. ASSUME NEW u \in Threads \ {t} PROVE WhereAt(u)'
    <3>1. /\ pc'[u] = pc[u] /\ cur'[u] = cur[u] /\ then'[u] = then[u]
          /\ want' = want /\ holds' = holds
          /\ Host[u] # Host[t] => todo'[Host[u]] = todo[Host[u]]
      BY SMT, SMTT(30) DEF TypeOK
    <3>2. WhereAt(u)
      BY Zenon DEF Where
    <3>3. Host[u] = Host[t] => pc[u] = "idle"
      BY SMT, SMTT(30) DEF Booting, WhereAt
    <3>. HIDE DEF ReclaimRead, Reclaimed
    <3>. QED  BY ZenonT(30), <3>1, <3>2, <3>3 DEF WhereAt
  <2>2. WhereAt(t)'
    BY SMT, SMTT(30) DEF TypeOK, WhereAt
  <2>. QED  BY <2>1, <2>2, Zenon DEF Where
<1>3. Booting'
  <2>1. /\ \A u \in Threads : pc'[u] # "idle" => pc[u] # "idle"
        /\ want' = want /\ state' = state
    BY SMT, SMTT(30) DEF TypeOK
  <2>. HIDE DEF ReclaimRead
  <2>. QED  BY ZenonT(30), <2>1 DEF Booting
<1>4. Alone'
  <2>1. \A u \in Threads, l \in Locks : Takes(u, l)' => Takes(u, l)
    BY SMT, SMTT(30) DEF TypeOK, Takes
  <2>2. word' = word /\ misbust' = misbust
    BY SMT, SMTT(30)
  <2>. QED  BY <2>1, <2>2, AloneFrame, Zenon
<1>. QED  BY <1>1, <1>2, <1>3, <1>4, Zenon

\* The write of nfp_cpp_mutex_reclaim() preserves the invariant.
LEMMA ReclaimWriteStep ==
    ASSUME RInv, NEW t \in Threads, ReclaimWrite(t)
    PROVE  RInv'
<1>. USE ResourceConstants
     DEF RInv, ReclaimWrite, TakenByOther, Reclaimed, Release, Work, Goto, Unlocked
<1>. WhereAt(t)
  BY Zenon DEF RInv, Where
<1>1. TypeOK'
  <2>1. word' \in [Locks -> [owner : Interfaces \cup {NoInterface}, locked : BOOLEAN]]
    BY Zenon DEF TypeOK
  <2>2. state' \in [Interfaces -> {"down", "init", "up"}]
    BY Zenon DEF TypeOK
  <2>3. /\ pc' \in [Threads -> PcStates] /\ cur' \in [Threads -> Locks]
        /\ then' \in [Threads -> {"idle", "held", "sleep"}]
    <3>1. \E l \in Locks, s \in {"testset", "read", "rc_read"} :
            pc' = [pc EXCEPT ![t] = s] /\ cur' = [cur EXCEPT ![t] = l]
      <4>1. CASE cur[t] = Dev
        BY <4>1, Zenon
      <4>2. CASE cur[t] # Dev /\ todo[Host[t]] = {cur[t]}
        BY <4>2, Zenon
      <4>3. CASE cur[t] # Dev /\ todo[Host[t]] # {cur[t]}
        BY <4>3, Zenon DEF TypeOK
      <4>. QED  BY <4>1, <4>2, <4>3, Zenon
    <3>2. then' = then \/ then' = [then EXCEPT ![t] = "idle"]
      BY SMT, SMTT(30)
    <3>. HIDE DEF ReclaimWrite, Reclaimed, Release, Work, Goto
    <3>. QED  BY <3>1, <3>2, SMT, SMTT(30) DEF TypeOK, PcStates
  <2>4. /\ want' \in [Threads -> Locks]
        /\ holds' \in [Threads -> SUBSET Locks] /\ todo' \in [Interfaces -> SUBSET Locks]
    BY Zenon DEF TypeOK
  <2>5. \A u \in Threads : pc'[u] \in {"find", "sleep", "held"} => want'[u] # Dev
    BY SMT, SMTT(30) DEF TypeOK, PcStates, WhereAt
  <2>6. crashes' \in 0 .. MaxCrashes /\ misbust' \in BOOLEAN /\ cut' \subseteq Locks
    BY Zenon DEF TypeOK
  <2>. QED  BY <2>1, <2>2, <2>3, <2>4, <2>5, <2>6, Zenon DEF TypeOK
<1>2. Where'
  <2>1. ASSUME NEW u \in Threads \ {t} PROVE WhereAt(u)'
    <3>1. /\ pc'[u] = pc[u] /\ cur'[u] = cur[u] /\ then'[u] = then[u]
          /\ want' = want /\ holds' = holds
          /\ Host[u] # Host[t] => todo'[Host[u]] = todo[Host[u]]
      BY SMT, SMTT(30) DEF TypeOK
    <3>2. WhereAt(u)
      BY Zenon DEF Where
    <3>3. Host[u] = Host[t] => pc[u] = "idle"
      BY SMT, SMTT(30) DEF Booting, WhereAt
    <3>. HIDE DEF ReclaimWrite, Reclaimed
    <3>. QED  BY ZenonT(30), <3>1, <3>2, <3>3 DEF WhereAt
  <2>2. WhereAt(t)'
    BY SMT, SMTT(30) DEF TypeOK, WhereAt
  <2>. QED  BY <2>1, <2>2, Zenon DEF Where
<1>3. Booting'
  <2>1. /\ \A u \in Threads : pc'[u] # "idle" => pc[u] # "idle"
        /\ want' = want /\ state' = state
    BY SMT, SMTT(30) DEF TypeOK
  <2>. HIDE DEF ReclaimWrite
  <2>. QED  BY ZenonT(30), <2>1 DEF Booting
<1>4. Alone'
  <2>1. /\ cur[t] \notin holds[t] /\ holds' = holds
        /\ \A u \in Threads : pc'[u] = "own" => u # t /\ pc[u] = "own" /\ cur'[u] = cur[u]
    BY SMT, SMTT(30) DEF TypeOK, WhereAt
  <2>2. \A u \in Threads, l \in Locks : Takes(u, l)' => Takes(u, l)
    BY <2>1, Zenon DEF Takes
  <2>3. t = Leader[Host[t]] /\ state[Host[t]] = "init" /\ pc[t] = "rc_write"
    BY ZenonT(30) DEF Where, WhereAt, Booting
  <2>4. ASSUME NEW u \in Threads, Host[u] = Host[t], u # t
        PROVE  pc[u] = "idle" /\ holds[u] = {}
    <3>1. pc[u] = "idle"
      BY <2>3, <2>4, Zenon DEF Booting
    <3>. QED  BY ZenonT(30), <3>1 DEF Where, WhereAt
  <2>5. ASSUME ~misbust' PROVE \A u \in Threads : ~Takes(u, cur[t])
    BY ZenonT(30), <2>1, <2>3, <2>4, <2>5 DEF Takes
  <2>6. \A l \in Locks : l # cur[t] => word'[l] = word[l]
    BY Zenon DEF TypeOK
  <2>7. ~misbust' => ~misbust
    BY Zenon DEF TypeOK
  <2>8. cur[t] \in Locks
    BY Zenon DEF TypeOK
  <2>. QED  BY ZenonT(30), <2>2, <2>5, <2>6, <2>7, <2>8, AloneRelease
<1>. QED  BY <1>1, <1>2, <1>3, <1>4, Zenon

\* The start of nfp_resource_table_init() preserves the invariant.
LEMMA TableInitStep ==
    ASSUME RInv, NEW i \in Interfaces, TableInit(i)
    PROVE  RInv'
<1>. USE ResourceConstants DEF RInv, TableInit, Work, Goto
<1>1. TypeOK'
  <2>1. word' \in [Locks -> [owner : Interfaces \cup {NoInterface}, locked : BOOLEAN]]
    BY Zenon DEF TypeOK
  <2>2. state' \in [Interfaces -> {"down", "init", "up"}]
    BY Zenon DEF TypeOK
  <2>3. /\ pc' \in [Threads -> PcStates] /\ cur' \in [Threads -> Locks]
        /\ then' \in [Threads -> {"idle", "held", "sleep"}]
    BY ZenonT(30) DEF TypeOK, PcStates, Where, WhereAt
  <2>4. /\ want' \in [Threads -> Locks]
        /\ holds' \in [Threads -> SUBSET Locks] /\ todo' \in [Interfaces -> SUBSET Locks]
    BY ZenonT(30) DEF TypeOK, Where, WhereAt
  <2>5. \A u \in Threads : pc'[u] \in {"find", "sleep", "held"} => want'[u] # Dev
    BY SMT, SMTT(30) DEF TypeOK, Booting
  <2>6. crashes' \in 0 .. MaxCrashes /\ misbust' \in BOOLEAN /\ cut' \subseteq Locks
    BY Zenon DEF TypeOK
  <2>. QED  BY <2>1, <2>2, <2>3, <2>4, <2>5, <2>6, Zenon DEF TypeOK
<1>2. Where'
  <2>1. ASSUME NEW u \in Threads, u # Leader[i] PROVE WhereAt(u)'
    <3>1. /\ pc'[u] = pc[u] /\ cur'[u] = cur[u] /\ want'[u] = want[u]
          /\ then' = then /\ holds' = holds
          /\ Host[u] # i => todo'[Host[u]] = todo[Host[u]]
      BY <2>1, SMT, SMTT(30) DEF TypeOK
    <3>2. WhereAt(u)
      BY Zenon DEF Where
    <3>3. Host[u] = i => pc[u] = "idle"
      BY Zenon DEF Booting
    <3>. HIDE DEF TableInit
    <3>. QED  BY ZenonT(30), <3>1, <3>2, <3>3 DEF WhereAt
  <2>2. ASSUME NEW u \in Threads, u = Leader[i] PROVE WhereAt(u)'
    <3>1. Host[u] = i /\ pc[u] = "idle" /\ WhereAt(u)
      BY <2>2, Zenon DEF Booting, Where
    <3>2. /\ pc'[u] = "rc_read" /\ want'[u] = Dev /\ holds' = holds
          /\ Dev \in todo'[Host[u]]
      BY <2>2, <3>1, SMT, SMTT(30) DEF TypeOK
    <3>. HIDE DEF TableInit
    <3>. QED  BY ZenonT(30), <3>1, <3>2 DEF WhereAt
  <2>. QED  BY <2>1, <2>2, Zenon DEF Where
<1>3. Booting'
  BY SMT, SMTT(30) DEF TypeOK, Booting
<1>4. Alone'
  <2>1. \A u \in Threads, l \in Locks : Takes(u, l)' => Takes(u, l)
    BY SMT, SMTT(30) DEF TypeOK, Takes
  <2>2. word' = word /\ misbust' = misbust
    BY SMT, SMTT(30)
  <2>. QED  BY <2>1, <2>2, AloneFrame, Zenon
<1>. QED  BY <1>1, <1>2, <1>3, <1>4, Zenon

\* The loss of a host preserves the invariant.
LEMMA CrashStep ==
    ASSUME RInv, NEW i \in Interfaces, Crash(i)
    PROVE  RInv'
<1>. USE ResourceConstants DEF RInv, Crash
<1>1. TypeOK'
  <2>1. word' \in [Locks -> [owner : Interfaces \cup {NoInterface}, locked : BOOLEAN]]
    BY Zenon DEF TypeOK
  <2>2. state' \in [Interfaces -> {"down", "init", "up"}]
    BY Zenon DEF TypeOK
  <2>3. /\ pc' \in [Threads -> PcStates] /\ cur' \in [Threads -> Locks]
        /\ then' \in [Threads -> {"idle", "held", "sleep"}]
    BY Zenon DEF TypeOK, PcStates
  <2>4. /\ want' \in [Threads -> Locks]
        /\ holds' \in [Threads -> SUBSET Locks] /\ todo' \in [Interfaces -> SUBSET Locks]
    BY Zenon DEF TypeOK
  <2>5. \A u \in Threads : pc'[u] \in {"find", "sleep", "held"} => want'[u] # Dev
    BY SMT, SMTT(30) DEF TypeOK, PcStates, Where, WhereAt
  <2>6. crashes' \in 0 .. MaxCrashes /\ misbust' \in BOOLEAN /\ cut' \subseteq Locks
    BY SMT, SMTT(30) DEF TypeOK
  <2>. QED  BY <2>1, <2>2, <2>3, <2>4, <2>5, <2>6, Zenon DEF TypeOK
<1>2. Where'
  <2>1. ASSUME NEW u \in Threads, Host[u] = i PROVE WhereAt(u)'
    <3>1. pc'[u] = "idle" /\ holds'[u] = {}
      BY <2>1, Zenon DEF TypeOK
    <3>. HIDE DEF Crash
    <3>. QED  BY <3>1, Zenon DEF WhereAt
  <2>2. ASSUME NEW u \in Threads, Host[u] # i PROVE WhereAt(u)'
    <3>1. /\ pc'[u] = pc[u] /\ cur'[u] = cur[u] /\ want' = want
          /\ then' = then /\ holds'[u] = holds[u]
          /\ todo'[Host[u]] = todo[Host[u]]
      BY <2>2, Zenon DEF TypeOK
    <3>2. WhereAt(u)
      BY Zenon DEF Where
    <3>. HIDE DEF Crash
    <3>. QED  BY ZenonT(30), <3>1, <3>2 DEF WhereAt
  <2>. QED  BY <2>1, <2>2, Zenon DEF Where
<1>3. Booting'
  BY SMT, SMTT(30) DEF TypeOK, Booting
<1>4. Alone'
  <2>1. \A u \in Threads, l \in Locks : Takes(u, l)' => Takes(u, l)
    BY Zenon DEF TypeOK, Takes
  <2>2. word' = word /\ misbust' = misbust
    BY ZenonT(30)
  <2>. QED  BY ZenonT(30), <2>1, <2>2, AloneFrame
<1>. QED  BY <1>1, <1>2, <1>3, <1>4, Zenon

-----------------------------------------------------------------------------

\* Before any host has probed, nobody has anything.
LEMMA InitRInv == Init => RInv
<1>. SUFFICES ASSUME Init PROVE RInv
  BY SMT, SMTT(30)
<1>. USE ResourceConstants DEF Init
<1>1. TypeOK
  <2>1. word \in [Locks -> [owner : Interfaces \cup {NoInterface}, locked : BOOLEAN]]
    BY Zenon DEF Unlocked
  <2>2. crashes \in 0 .. MaxCrashes
    BY SMT, SMTT(30)
  <2>. QED  BY ZenonT(30), <2>1, <2>2 DEF TypeOK, PcStates
<1>2. Where
  BY Zenon DEF Where, WhereAt
<1>3. Booting /\ Alone
  BY Zenon DEF Booting, Alone, Takes
<1>. QED  BY <1>1, <1>2, <1>3, Zenon DEF RInv

\* Every step preserves the invariant.
LEMMA NextRInv == RInv /\ [Next]_vars => RInv'
<1>. SUFFICES ASSUME RInv, [Next]_vars PROVE RInv'
  BY SMT, SMTT(30)
<1>1. ASSUME NEW t \in Threads, ThreadStep(t) PROVE RInv'
  BY <1>1, TestSetStep, WriteOwnerStep, WriteOwnerFailsStep, BusyStep, SleepStep,
     FindStep, ReleaseResourceStep, UnlockReadStep, UnlockWriteStep,
     ReclaimReadStep, ReclaimWriteStep, SMT, SMTT(30) DEF ThreadStep
<1>2. ASSUME NEW t \in Threads, NEW r \in Resources, Acquire(t, r) PROVE RInv'
  BY <1>2, AcquireStep, Zenon
<1>3. ASSUME NEW i \in Interfaces, TableInit(i) \/ Crash(i) PROVE RInv'
  BY <1>3, TableInitStep, CrashStep, Zenon
<1>4. CASE UNCHANGED vars
  <2>. USE <1>4 DEF vars, RInv
  <2>1. TypeOK'
    BY Zenon DEF TypeOK
  <2>2. Where'
    BY ZenonT(30) DEF Where, WhereAt
  <2>3. Booting'
    BY ZenonT(30) DEF Booting
  <2>4. Alone'
    BY ZenonT(30) DEF Alone, Takes
  <2>. QED  BY <2>1, <2>2, <2>3, <2>4, Zenon
<1>. QED  BY <1>1, <1>2, <1>3, <1>4, Zenon DEF Next

(* The invariant holds in every reachable state.                           *)
THEOREM ResourceInvariance == Spec => []RInv
BY InitRInv, NextRInv, PTL DEF Spec

(* Every variable keeps its type; only threads that acquire a resource go  *)
(* through the code that finds, waits for and uses one.                    *)
THEOREM ResourceTypes == Spec => []TypeOK
<1>1. RInv => TypeOK
  BY Zenon DEF RInv
<1>. QED  BY <1>1, ResourceInvariance, PTL

(* The lock words exclude: whatever hosts crash and whichever owner writes *)
(* fail, two threads have the same lock only after a reclaim that released *)
(* a word another interface had set.                                       *)
THEOREM LocksAreExclusive == Spec => []ExclusiveUnlessMisbust
<1>1. RInv => ExclusiveUnlessMisbust
  BY Zenon DEF RInv, TypeOK, Alone, Takes, ExclusiveUnlessMisbust, MutualExclusion
<1>. QED  BY <1>1, ResourceInvariance, PTL

-----------------------------------------------------------------------------
(***************************************************************************)
(* Resource implements LockService.  A lock is granted in WriteOwner,      *)
(* where Alone says that nobody else takes it; it is returned in           *)
(* UnlockRead and UnlockWrite, where Where says that the thread has it.    *)
(***************************************************************************)

\* The write of the owner id is a grant.
LEMMA GrantStep ==
    ASSUME RInv, NEW t \in Threads, WriteOwner(t)
    PROVE  Abstract!Grant(t, cur[t])
<1>1. cur[t] \in Locks /\ Takes(t, cur[t])
  BY Zenon DEF RInv, TypeOK, WriteOwner, Takes
<1>2. ~misbust => \A u \in Threads : cur[t] \in holds[u] => u = t
  BY <1>1, Zenon DEF RInv, Alone, Takes
<1>3. cur[t] \notin holds[t]
  <2>1. pc[t] = "own" /\ WhereAt(t)
    BY Zenon DEF WriteOwner, RInv, Where
  <2>2. holds[t] = IF cur[t] = Dev THEN {} ELSE {Dev}
    BY <2>1, Zenon DEF WhereAt
  <2>. QED  BY <2>2, Zenon
<1>4. misbust \/ \A u \in Threads : cur[t] \notin holds[u]
  BY <1>2, <1>3, Zenon
<1>5. holds' = [holds EXCEPT ![t] = @ \cup {cur[t]}] /\ misbust' = misbust
  BY Zenon DEF WriteOwner
<1>. QED  BY <1>4, <1>5, Zenon DEF Abstract!Grant

\* The end of an unlock is a return.
LEMMA ReturnStep ==
    ASSUME RInv, NEW t \in Threads, pc[t] \in {"read", "write"}, Unlock(t),
           misbust' = misbust
    PROVE  Abstract!Return(t, cur[t])
<1>1. cur[t] \in holds[t]
  BY Zenon DEF RInv, Where, WhereAt
<1>2. holds' = [holds EXCEPT ![t] = @ \ {cur[t]}]
  BY Zenon DEF Unlock
<1>. QED  BY <1>1, <1>2, Zenon DEF Abstract!Return

\* Every step of a thread is a step of the lock service or a stutter.
LEMMA ThreadStepImplements ==
    ASSUME RInv, NEW t \in Threads, ThreadStep(t)
    PROVE  [Abstract!LsNext]_<<holds, misbust>>
<1>0. cur[t] \in Locks /\ misbust \in BOOLEAN
  BY Zenon DEF RInv, TypeOK
<1>1. CASE WriteOwner(t)
  BY <1>0, <1>1, GrantStep, Zenon DEF Abstract!LsNext
<1>2. CASE UnlockRead(t)
  <2>1. pc[t] \in {"read", "write"} /\ misbust' = misbust /\ (holds' = holds \/ Unlock(t))
    BY <1>2, Zenon DEF UnlockRead
  <2>. QED  BY <1>0, <2>1, ReturnStep, Zenon DEF Abstract!LsNext
<1>3. CASE UnlockWrite(t)
  <2>1. pc[t] \in {"read", "write"} /\ misbust' = misbust /\ Unlock(t)
    BY <1>3, Zenon DEF UnlockWrite
  <2>. QED  BY <1>0, <2>1, ReturnStep, Zenon DEF Abstract!LsNext
<1>4. CASE ReclaimWrite(t)
  <2>1. holds' = holds
    BY <1>4, Zenon DEF ReclaimWrite
  <2>2. CASE misbust \/ TakenByOther(t, cur[t])
    <3>1. misbust' = TRUE
      BY <1>4, <2>2, Zenon DEF ReclaimWrite
    <3>. QED  BY <2>1, <3>1, Zenon DEF Abstract!LsNext, Abstract!Break
  <2>3. CASE ~(misbust \/ TakenByOther(t, cur[t]))
    <3>1. misbust' = misbust
      BY <1>0, <1>4, <2>3, Zenon DEF ReclaimWrite
    <3>. QED  BY <2>1, <3>1, Zenon
  <2>. QED  BY <2>2, <2>3, Zenon
<1>5. CASE \/ TestSet(t) \/ WriteOwnerFails(t) \/ Busy(t) \/ Sleep(t)
           \/ Find(t) \/ ReleaseResource(t) \/ ReclaimRead(t)
  BY <1>5, Zenon DEF TestSet, WriteOwnerFails, Busy, Sleep, Find, ReleaseResource, ReclaimRead
<1>. QED  BY <1>1, <1>2, <1>3, <1>4, <1>5, Zenon DEF ThreadStep

\* A host that crashes loses its locks and nobody else's.
LEMMA CrashImplements ==
    ASSUME NEW i \in Interfaces, Crash(i)
    PROVE  Abstract!Stop(i)
BY Zenon DEF Crash, Abstract!Stop

LEMMA NextImplements ==
    RInv /\ [Next]_vars => [Abstract!LsNext]_<<holds, misbust>>
<1>. SUFFICES ASSUME RInv, [Next]_vars
              PROVE  [Abstract!LsNext]_<<holds, misbust>>
  BY SMT, SMTT(30)
<1>1. ASSUME NEW t \in Threads, ThreadStep(t)
      PROVE  [Abstract!LsNext]_<<holds, misbust>>
  BY <1>1, ThreadStepImplements, Zenon
<1>2. ASSUME NEW t \in Threads, NEW r \in Resources, Acquire(t, r)
      PROVE  [Abstract!LsNext]_<<holds, misbust>>
  BY <1>2, Zenon DEF Acquire
<1>3. ASSUME NEW i \in Interfaces, TableInit(i)
      PROVE  [Abstract!LsNext]_<<holds, misbust>>
  BY <1>3, Zenon DEF TableInit
<1>4. ASSUME NEW i \in Interfaces, Crash(i)
      PROVE  [Abstract!LsNext]_<<holds, misbust>>
  BY <1>4, CrashImplements, Zenon DEF Abstract!LsNext
<1>5. CASE UNCHANGED vars
  BY <1>5, Zenon DEF vars
<1>. QED  BY <1>1, <1>2, <1>3, <1>4, <1>5, Zenon DEF Next

(* The lock words, owner ids and reclaims of nfp_mutex.c and               *)
(* nfp_resource.c implement the lock service, for any hosts, threads,      *)
(* resources, crashes and failing accesses.                                *)
THEOREM LockServiceIsImplemented == Spec => ImplementsLockService
<1>1. Init => Abstract!LsInit
  BY Zenon DEF Init, Abstract!LsInit
<1>2. RInv /\ [Next]_vars => [Abstract!LsNext]_Abstract!lsvars
  BY NextImplements, Zenon DEF Abstract!lsvars
<1>. QED
  BY <1>1, <1>2, ResourceInvariance, PTL DEF Spec, ImplementsLockService, Abstract!LsSpec


-----------------------------------------------------------------------------
(***************************************************************************)
(* Nothing is left over.  A thread that has a lock finds its own name in   *)
(* the word, so that what a crash leaves behind bears the name of the host *)
(* that crashed; and table init, which looks at every entry while todo     *)
(* shrinks, leaves no word in its name that nobody is taking.              *)
(***************************************************************************)

\* A word is not both locked and unlocked, in whatever name.
LEMMA WordsDiffer == \A i, j : Locked(i) # Unlocked(j)
BY Zenon DEF Locked, Unlocked

\* What the test of nfp_cpp_mutex_reclaim() finds in a locked word.
LEMMA LockedIsReclaimable ==
    \A t \in Threads, l \in Locks : word[l] = Locked(Host[t]) => Reclaimable(t, l)
BY SMT, SMTT(30) DEF Locked, Reclaimable

\* The word of a lock bears the name of whoever has it.
Owned ==
    ~misbust => \A t \in Threads : \A l \in holds[t] : word[l] = Locked(Host[t])

\* Table init unlocks the table when it has looked at every entry.
AllSeen ==
    \A t \in Threads :
        pc[t] \in {"read", "write"} /\ want[t] = Dev => todo[Host[t]] = {}

\* Host i has looked at entry l since it came back.
Seen(i, l) == state[i] = "up" \/ (state[i] = "init" /\ l \notin todo[i])

NoOrphan ==
    ~misbust /\ cut = {} =>
        \A i \in Interfaces, l \in Locks :
            Seen(i, l) /\ word[l] = Locked(i) => \E t \in Threads : Takes(t, l)

LInv == RInv /\ Owned /\ AllSeen /\ NoOrphan


\* Steps that write no word and give no lock back keep the names.
LEMMA OwnedFrame ==
    ASSUME Owned, misbust' = misbust, word' = word,
           \A u \in Threads : holds'[u] \subseteq holds[u]
    PROVE  Owned'
BY ZenonT(30) DEF Owned, Locked

\* Steps that write no word and keep every taker orphan none.
LEMMA OrphanFrame ==
    ASSUME NoOrphan, misbust' = misbust, cut' = cut, word' = word,
           \A i \in Interfaces, l \in Locks : Seen(i, l)' => Seen(i, l),
           \A u \in Threads, l \in Locks : Takes(u, l) => Takes(u, l)'
    PROVE  NoOrphan'
<1>. SUFFICES ASSUME ~misbust', cut' = {}, NEW i \in Interfaces, NEW l \in Locks,
                     Seen(i, l)', word'[l] = Locked(i)
              PROVE  \E t \in Threads : Takes(t, l)'
  BY Zenon DEF NoOrphan, Locked
<1>1. \E t \in Threads : Takes(t, l)
  BY Zenon DEF NoOrphan
<1>. QED  BY <1>1, Zenon

\* The steps between device accesses, which touch neither word nor lock.
LEMMA QuietKeeps ==
    ASSUME LInv, NEW t \in Threads,
           \/ \E r \in Resources : Acquire(t, r)
           \/ Busy(t) \/ Sleep(t) \/ Find(t) \/ ReleaseResource(t)
    PROVE  Owned' /\ AllSeen' /\ NoOrphan'
<1>0. TypeOK /\ WhereAt(t) /\ Owned /\ AllSeen /\ NoOrphan
  BY Zenon DEF LInv, RInv, Where
<1>1. /\ word' = word /\ holds' = holds /\ misbust' = misbust /\ cut' = cut /\ todo' = todo
      /\ pc[t] \in {"idle", "busy", "sleep", "find", "held"}
      /\ \A u \in Threads \ {t} : pc'[u] = pc[u] /\ cur'[u] = cur[u] /\ want'[u] = want[u]
      /\ \A i \in Interfaces : state'[i] \in {state[i], "down"}
  BY <1>0, Zenon DEF Acquire, Busy, Sleep, Find, ReleaseResource, Release, Work, Goto, Fail, TypeOK
<1>2. /\ pc'[t] # "own"
      /\ pc'[t] \in {"read", "write"} => want'[t] # Dev
  BY <1>0, SMT, SMTT(30) DEF Acquire, Busy, Sleep, Find, ReleaseResource, Release, Work, Goto, Fail,
     TypeOK, WhereAt
<1>3. Owned'
  BY <1>0, <1>1, OwnedFrame, Zenon
<1>4. AllSeen'
  BY <1>0, <1>1, <1>2, ZenonT(30) DEF AllSeen
<1>5. \A u \in Threads, l \in Locks : Takes(u, l) => Takes(u, l)'
  BY <1>1, Zenon DEF Takes
<1>6. \A i \in Interfaces, l \in Locks : Seen(i, l)' => Seen(i, l)
  BY <1>1, Zenon DEF Seen
<1>7. NoOrphan'
  BY <1>0, <1>1, <1>5, <1>6, OrphanFrame, Zenon
<1>. QED  BY <1>3, <1>4, <1>7, Zenon

\* test_set_imm: who sets a clear word is its taker, a set word stays as it is.
LEMMA TestSetKeeps ==
    ASSUME LInv, NEW t \in Threads, TestSet(t)
    PROVE  Owned' /\ AllSeen' /\ NoOrphan'
<1>0. TypeOK /\ Alone /\ Owned /\ AllSeen /\ NoOrphan
  BY Zenon DEF LInv, RInv
<1>1. /\ holds' = holds /\ misbust' = misbust /\ cut' = cut /\ todo' = todo /\ state' = state
      /\ cur' = cur /\ want' = want /\ pc[t] = "testset"
      /\ \A u \in Threads \ {t} : pc'[u] = pc[u]
      /\ pc'[t] \in {"own", "busy"}
      /\ cur[t] \in Locks
  BY <1>0, Zenon DEF TestSet, Goto, TypeOK
<1>2. \A l \in Locks : l # cur[t] => word'[l] = word[l]
  BY <1>0, <1>1, Zenon DEF TestSet, TypeOK
<1>3. word'[cur[t]] = Locked(word[cur[t]].owner)
  BY <1>0, <1>1, Zenon DEF TestSet, TypeOK
<1>4. word[cur[t]].locked => word'[cur[t]] = word[cur[t]]
  BY <1>0, <1>1, <1>3, Zenon DEF TypeOK, Locked
<1>5. ~word[cur[t]].locked => Takes(t, cur[t])'
  BY <1>0, <1>1, SMT, SMTT(30) DEF TestSet, Goto, WasUnlocked, TypeOK, Takes
<1>6. Owned'
  <2>. SUFFICES ASSUME ~misbust, NEW u \in Threads, NEW l \in holds[u]
                PROVE  word'[l] = Locked(Host[u])
    BY <1>1, Zenon DEF Owned, Locked
  <2>1. l \in Locks /\ word[l] = Locked(Host[u])
    BY <1>0, Zenon DEF Owned, TypeOK
  <2>. QED  BY <2>1, <1>2, <1>4, SMT, SMTT(30) DEF Locked
<1>7. AllSeen'
  BY <1>0, <1>1, ZenonT(30) DEF AllSeen
<1>8. NoOrphan'
  <2>. SUFFICES ASSUME ~misbust, cut = {}, NEW i \in Interfaces, NEW l \in Locks,
                       Seen(i, l), word'[l] = Locked(i)
                PROVE  \E u \in Threads : Takes(u, l)'
    BY <1>1, Zenon DEF NoOrphan, Seen, Locked
  <2>1. CASE l = cur[t] /\ ~word[l].locked
    BY <2>1, <1>1, <1>5, Zenon DEF Takes
  <2>2. CASE l # cur[t] \/ word[l].locked
    <3>1. word[l] = Locked(i)
      BY <2>2, <1>2, <1>4, Zenon
    <3>2. PICK u \in Threads : Takes(u, l)
      BY <1>0, <3>1, Zenon DEF NoOrphan
    <3>. QED  BY <3>2, <1>1, Zenon DEF Takes
  <2>. QED  BY <2>1, <2>2, Zenon
<1>. QED  BY <1>6, <1>7, <1>8, Zenon


\* Writing the owner id puts the name of the taker into the word.
LEMMA WriteOwnerKeeps ==
    ASSUME LInv, NEW t \in Threads, WriteOwner(t)
    PROVE  Owned' /\ AllSeen' /\ NoOrphan'
<1>0. TypeOK /\ Alone /\ WhereAt(t) /\ Owned /\ AllSeen /\ NoOrphan
  BY Zenon DEF LInv, RInv, Where
<1>1. /\ misbust' = misbust /\ cut' = cut /\ todo' = todo /\ state' = state
      /\ want' = want /\ pc[t] = "own" /\ cur[t] \in Locks
      /\ holds'[t] = holds[t] \cup {cur[t]}
      /\ word'[cur[t]] = Locked(Host[t])
      /\ \A l \in Locks : l # cur[t] => word'[l] = word[l]
      /\ \A u \in Threads \ {t} : pc'[u] = pc[u] /\ cur'[u] = cur[u] /\ holds'[u] = holds[u]
      /\ pc'[t] # "own"
  BY <1>0, SMT, SMTT(30) DEF WriteOwner, Release, Work, Goto, WithTable, TypeOK
<1>2. pc'[t] \in {"read", "write"} => want[t] # Dev
  BY <1>0, Zenon DEF WriteOwner, Release, Work, Goto, WithTable, TypeOK, WhereAt
<1>3. Owned'
  <2>. SUFFICES ASSUME ~misbust, NEW u \in Threads, NEW l \in holds'[u]
                PROVE  word'[l] = Locked(Host[u])
    BY <1>1, Zenon DEF Owned, Locked
  <2>1. CASE u = t /\ l = cur[t]
    BY <2>1, <1>1, Zenon
  <2>2. CASE ~(u = t /\ l = cur[t])
    <3>1. l \in holds[u] /\ l \in Locks /\ word[l] = Locked(Host[u])
      BY <2>2, <1>0, <1>1, Zenon DEF Owned, TypeOK
    <3>2. l # cur[t]
      <4>1. Takes(t, cur[t]) /\ (l = cur[t] => Takes(u, cur[t]))
        BY <1>1, <3>1, Zenon DEF Takes
      <4>. QED  BY <4>1, <2>2, <1>0, <1>1, Zenon DEF Alone
    <3>. QED  BY <3>1, <3>2, <1>1, Zenon
  <2>. QED  BY <2>1, <2>2, Zenon
<1>4. AllSeen'
  BY <1>0, <1>1, <1>2, ZenonT(30) DEF AllSeen
<1>5. NoOrphan'
  <2>. SUFFICES ASSUME ~misbust, cut = {}, NEW i \in Interfaces, NEW l \in Locks,
                       Seen(i, l), word'[l] = Locked(i)
                PROVE  \E u \in Threads : Takes(u, l)'
    BY <1>1, Zenon DEF NoOrphan, Seen, Locked
  <2>1. CASE l = cur[t]
    BY <2>1, <1>1, Zenon DEF Takes
  <2>2. CASE l # cur[t]
    <3>1. PICK u \in Threads : Takes(u, l)
      BY <2>2, <1>0, <1>1, Zenon DEF NoOrphan
    <3>. QED  BY <3>1, <2>2, <1>1, Zenon DEF Takes
  <2>. QED  BY <2>1, <2>2, Zenon
<1>. QED  BY <1>3, <1>4, <1>5, Zenon

\* A failed write of the owner id leaves a word that cut remembers.
LEMMA WriteOwnerFailsKeeps ==
    ASSUME LInv, NEW t \in Threads, WriteOwnerFails(t)
    PROVE  Owned' /\ AllSeen' /\ NoOrphan'
<1>0. TypeOK /\ WhereAt(t) /\ Owned /\ AllSeen
  BY Zenon DEF LInv, RInv, Where
<1>1. /\ word' = word /\ holds' = holds /\ misbust' = misbust /\ todo' = todo /\ want' = want
      /\ pc[t] = "own" /\ cur[t] \in cut'
      /\ \A u \in Threads \ {t} : pc'[u] = pc[u]
  BY <1>0, Zenon DEF WriteOwnerFails, Release, Work, Goto, Fail, TypeOK
<1>2. pc'[t] \in {"read", "write"} => want[t] # Dev
  BY <1>0, Zenon DEF WriteOwnerFails, Release, Work, Goto, Fail, TypeOK, WhereAt
<1>3. Owned'
  BY <1>0, <1>1, OwnedFrame, Zenon
<1>4. AllSeen'
  BY <1>0, <1>1, <1>2, ZenonT(30) DEF AllSeen
<1>5. NoOrphan'
  BY <1>1, Zenon DEF NoOrphan
<1>. QED  BY <1>3, <1>4, <1>5, Zenon

\* An unlock that finds another word gives up a lock only after a misbust.
LEMMA UnlockReadKeeps ==
    ASSUME LInv, NEW t \in Threads, UnlockRead(t)
    PROVE  Owned' /\ AllSeen' /\ NoOrphan'
<1>0. TypeOK /\ WhereAt(t) /\ Owned /\ AllSeen /\ NoOrphan
  BY Zenon DEF LInv, RInv, Where
<1>1. /\ word' = word /\ misbust' = misbust /\ cut' = cut /\ todo' = todo /\ want' = want
      /\ cur' = cur /\ pc[t] = "read" /\ cur[t] \in holds[t]
      /\ pc'[t] \in {"write", "idle", "held", "sleep"}
      /\ \A u \in Threads \ {t} : pc'[u] = pc[u]
      /\ \A u \in Threads : holds'[u] \subseteq holds[u]
  <2>1. /\ word' = word /\ misbust' = misbust /\ cut' = cut /\ todo' = todo /\ want' = want
        /\ cur' = cur /\ pc[t] = "read"
    BY Zenon DEF UnlockRead
  <2>2. cur[t] \in holds[t]
    BY <2>1, <1>0, Zenon DEF WhereAt
  <2>3. CASE MayUnlock(t)
    BY <2>1, <2>2, <2>3, <1>0, SMT, SMTT(30) DEF UnlockRead, Goto, TypeOK
  <2>4. CASE ~MayUnlock(t)
    BY <2>1, <2>2, <2>4, <1>0, SMT, SMTT(30) DEF UnlockRead, Unlock, Goto, TypeOK
  <2>. QED  BY <2>1, <2>2, <2>3, <2>4, Zenon
<1>2. Owned'
  BY <1>0, <1>1, OwnedFrame, Zenon
<1>3. AllSeen'
  BY <1>0, <1>1, ZenonT(30) DEF AllSeen
<1>4. NoOrphan'
  <2>1. CASE misbust
    BY <2>1, <1>1, Zenon DEF NoOrphan
  <2>2. CASE ~misbust
    <3>1. MayUnlock(t)
      BY <2>2, <1>0, <1>1, Zenon DEF Owned, MayUnlock
    <3>2. holds' = holds /\ state' = state
      BY <3>1, Zenon DEF UnlockRead
    <3>3. \A u \in Threads, l \in Locks : Takes(u, l) => Takes(u, l)'
      BY <3>2, <1>1, Zenon DEF Takes
    <3>4. \A i \in Interfaces, l \in Locks : Seen(i, l)' => Seen(i, l)
      BY <3>2, <1>1, Zenon DEF Seen
    <3>. QED  BY <3>3, <3>4, <1>0, <1>1, OrphanFrame, Zenon
  <2>. QED  BY <2>1, <2>2, <1>0, Zenon DEF TypeOK
<1>. QED  BY <1>2, <1>3, <1>4, Zenon


\* An unlock clears the word; at the end of table init every entry was seen.
LEMMA UnlockWriteKeeps ==
    ASSUME LInv, NEW t \in Threads, UnlockWrite(t)
    PROVE  Owned' /\ AllSeen' /\ NoOrphan'
<1>0. TypeOK /\ Alone /\ WhereAt(t) /\ Owned /\ AllSeen /\ NoOrphan
  BY Zenon DEF LInv, RInv, Where
<1>1. /\ misbust' = misbust /\ cut' = cut /\ todo' = todo /\ want' = want /\ cur' = cur
      /\ pc[t] = "write" /\ cur[t] \in holds[t] /\ cur[t] \in Locks
      /\ pc'[t] \in {"idle", "held", "sleep"}
      /\ word'[cur[t]] = Unlocked(Host[t])
      /\ \A l \in Locks : l # cur[t] => word'[l] = word[l]
      /\ holds'[t] = holds[t] \ {cur[t]}
      /\ \A u \in Threads \ {t} : pc'[u] = pc[u] /\ holds'[u] = holds[u]
  BY <1>0, Zenon DEF UnlockWrite, Unlock, Goto, TypeOK, WhereAt
<1>2. \A i \in Interfaces, l \in Locks : Seen(i, l)' => Seen(i, l)
  <2>. SUFFICES ASSUME NEW i \in Interfaces, NEW l \in Locks, Seen(i, l)'
                PROVE  Seen(i, l)
    BY SMT, SMTT(30)
  <2>1. state'[i] = state[i] \/ (i = Host[t] /\ want[t] = Dev /\ state[i] = "init")
    BY <1>0, ResourceConstants, Zenon DEF UnlockWrite, Unlock, TypeOK
  <2>2. CASE state'[i] = state[i]
    BY <2>2, <1>1, Zenon DEF Seen
  <2>3. CASE i = Host[t] /\ want[t] = Dev /\ state[i] = "init"
    BY <2>3, <1>0, <1>1, Zenon DEF AllSeen, Seen
  <2>. QED  BY <2>1, <2>2, <2>3, Zenon
<1>3. Owned'
  <2>. SUFFICES ASSUME ~misbust, NEW u \in Threads, NEW l \in holds'[u]
                PROVE  word'[l] = Locked(Host[u])
    BY <1>1, Zenon DEF Owned, Locked
  <2>1. l \in holds[u] /\ l \in Locks /\ word[l] = Locked(Host[u])
    <3>1. holds[u] \in SUBSET Locks
      BY <1>0, Zenon DEF TypeOK
    <3>2. l \in holds[u]
      BY <1>1, Zenon
    <3>. QED  BY <3>1, <3>2, <1>0, Zenon DEF Owned
  <2>2. l # cur[t]
    <3>1. l = cur[t] => Takes(u, l) /\ Takes(t, l)
      BY <2>1, <1>1, Zenon DEF Takes
    <3>. QED  BY <3>1, <2>1, <1>0, <1>1, Zenon DEF Alone
  <2>. QED  BY <2>1, <2>2, <1>1, Zenon
<1>4. AllSeen'
  BY <1>0, <1>1, ZenonT(30) DEF AllSeen
<1>5. NoOrphan'
  <2>. SUFFICES ASSUME ~misbust, cut = {}, NEW i \in Interfaces, NEW l \in Locks,
                       Seen(i, l)', word'[l] = Locked(i)
                PROVE  \E u \in Threads : Takes(u, l)'
    BY <1>1, Zenon DEF NoOrphan, Locked
  <2>1. l # cur[t]
    BY <1>1, WordsDiffer, Zenon
  <2>2. PICK u \in Threads : Takes(u, l)
    BY <2>1, <1>0, <1>1, <1>2, Zenon DEF NoOrphan
  <2>. QED  BY <2>1, <2>2, <1>1, Zenon DEF Takes
<1>. QED  BY <1>3, <1>4, <1>5, Zenon

\* nfp_cpp_mutex_reclaim() passes over a word that does not bear its name.
LEMMA ReclaimReadKeeps ==
    ASSUME LInv, NEW t \in Threads, ReclaimRead(t)
    PROVE  Owned' /\ AllSeen' /\ NoOrphan'
<1>. USE ResourceConstants
<1>0. TypeOK /\ Owned /\ AllSeen /\ NoOrphan /\ Booting
  BY Zenon DEF LInv, RInv
<1>1. /\ word' = word /\ holds' = holds /\ misbust' = misbust /\ cut' = cut
      /\ state' = state /\ want' = want /\ pc[t] = "rc_read"
      /\ \A u \in Threads \ {t} : pc'[u] = pc[u] /\ cur'[u] = cur[u]
      /\ pc'[t] # "own"
      /\ \A i \in Interfaces \ {Host[t]} : todo'[i] = todo[i]
      /\ Host[t] \in Interfaces
  BY <1>0, SMT, SMTT(30) DEF ReclaimRead, Reclaimed, Release, Work, Goto, TypeOK
<1>2. PICK l \in NextEntry(Host[t]) :
         IF Reclaimable(t, l)
         THEN Work(t, l, "rc_write") /\ UNCHANGED <<then, todo>>
         ELSE Reclaimed(t, l)
  BY Zenon DEF ReclaimRead
<1>3. l \in Locks
  BY <1>0, <1>1, Zenon DEF NextEntry, TypeOK
<1>4. \/ todo' = todo /\ pc'[t] = "rc_write"
      \/ /\ ~Reclaimable(t, l) /\ todo'[Host[t]] = todo[Host[t]] \ {l}
         /\ pc'[t] \in {"read", "write"} => todo'[Host[t]] = {}
  BY <1>0, <1>1, <1>2, SMT, SMTT(30) DEF Reclaimed, Release, Work, Goto, TypeOK
<1>5. Owned'
  BY <1>0, <1>1, OwnedFrame, Zenon
<1>6. AllSeen'
  <2>. SUFFICES ASSUME NEW u \in Threads, pc'[u] \in {"read", "write"}, want[u] = Dev
                PROVE  todo'[Host[u]] = {}
    BY <1>1, Zenon DEF AllSeen
  <2>1. CASE u = t
    BY <2>1, <1>4, Zenon
  <2>2. CASE u # t
    <3>1. todo[Host[u]] = {}
      BY <2>2, <1>0, <1>1, Zenon DEF AllSeen
    <3>. QED  BY <3>1, <1>1, <1>4, Zenon
  <2>. QED  BY <2>1, <2>2, Zenon
<1>7. NoOrphan'
  <2>. SUFFICES ASSUME ~misbust, cut = {}, NEW i \in Interfaces, NEW k \in Locks,
                       Seen(i, k)', word[k] = Locked(i)
                PROVE  \E u \in Threads : Takes(u, k)'
    BY <1>1, Zenon DEF NoOrphan, Locked
  <2>1. Seen(i, k)
    <3>1. CASE i = Host[t] /\ k = l /\ ~Reclaimable(t, l)
      BY <3>1, LockedIsReclaimable, Zenon
    <3>2. CASE ~(i = Host[t] /\ k = l /\ ~Reclaimable(t, l))
      BY <3>2, <1>1, <1>4, Zenon DEF Seen
    <3>. QED  BY <3>1, <3>2, Zenon
  <2>2. PICK u \in Threads : Takes(u, k)
    BY <2>1, <1>0, Zenon DEF NoOrphan
  <2>. QED  BY <2>2, <1>1, Zenon DEF Takes
<1>. QED  BY <1>5, <1>6, <1>7, Zenon


\* nfp_cpp_mutex_reclaim() busts a lock that no thread of its host has: before
\* the host is up only the thread that reclaims is running.
LEMMA ReclaimWriteKeeps ==
    ASSUME LInv, NEW t \in Threads, ReclaimWrite(t)
    PROVE  Owned' /\ AllSeen' /\ NoOrphan'
<1>. USE ResourceConstants
<1>0. TypeOK /\ Owned /\ AllSeen /\ NoOrphan /\ Booting /\ Where /\ WhereAt(t)
  BY Zenon DEF LInv, RInv, Where
<1>1. /\ holds' = holds /\ cut' = cut /\ state' = state /\ want' = want
      /\ pc[t] = "rc_write" /\ cur[t] \in Locks
      /\ word'[cur[t]] = Unlocked(Host[t])
      /\ \A l \in Locks : l # cur[t] => word'[l] = word[l]
      /\ \A u \in Threads \ {t} : pc'[u] = pc[u] /\ cur'[u] = cur[u]
      /\ pc'[t] # "own"
      /\ \A i \in Interfaces \ {Host[t]} : todo'[i] = todo[i]
      /\ todo'[Host[t]] = todo[Host[t]] \ {cur[t]}
      /\ pc'[t] \in {"read", "write"} => todo'[Host[t]] = {}
      /\ Host[t] \in Interfaces
  BY <1>0, SMT, SMTT(30) DEF ReclaimWrite, Reclaimed, Release, Work, Goto, TypeOK
<1>2. ~misbust' => ~misbust /\ ~TakenByOther(t, cur[t])
  BY Zenon DEF ReclaimWrite
<1>3. t = Leader[Host[t]] /\ state[Host[t]] = "init" /\ cur[t] \notin holds[t]
  BY <1>0, <1>1, Zenon DEF Booting, WhereAt
<1>4. Owned'
  <2>. SUFFICES ASSUME ~misbust', NEW u \in Threads, NEW l \in holds[u]
                PROVE  word'[l] = Locked(Host[u])
    BY <1>1, Zenon DEF Owned, Locked
  <2>1. l \in Locks /\ word[l] = Locked(Host[u])
    BY <1>0, <1>2, Zenon DEF Owned, TypeOK
  <2>2. l # cur[t]
    <3>. SUFFICES ASSUME l = cur[t] PROVE FALSE
      BY Zenon
    <3>1. Host[u] = Host[t]
      BY <1>2, Zenon DEF TakenByOther, Takes
    <3>2. pc[u] # "idle"
      BY <1>0, Zenon DEF Where, WhereAt
    <3>3. u = t
      BY <3>1, <3>2, <1>0, <1>3, Zenon DEF Booting
    <3>. QED  BY <3>3, <1>3, Zenon
  <2>. QED  BY <2>1, <2>2, <1>1, Zenon
<1>5. AllSeen'
  <2>. SUFFICES ASSUME NEW u \in Threads, pc'[u] \in {"read", "write"}, want[u] = Dev
                PROVE  todo'[Host[u]] = {}
    BY <1>1, Zenon DEF AllSeen
  <2>1. CASE u = t
    BY <2>1, <1>1, Zenon
  <2>2. CASE u # t
    <3>1. todo[Host[u]] = {}
      BY <2>2, <1>0, <1>1, Zenon DEF AllSeen
    <3>. QED  BY <3>1, <1>1, Zenon
  <2>. QED  BY <2>1, <2>2, Zenon
<1>6. NoOrphan'
  <2>. SUFFICES ASSUME ~misbust', cut = {}, NEW i \in Interfaces, NEW l \in Locks,
                       Seen(i, l)', word'[l] = Locked(i)
                PROVE  \E u \in Threads : Takes(u, l)'
    BY <1>1, Zenon DEF NoOrphan, Locked
  <2>1. l # cur[t]
    <3>1. word'[cur[t]] # Locked(i)
      BY <1>1, WordsDiffer, Zenon
    <3>. QED  BY <3>1, Zenon
  <2>2. Seen(i, l)
    BY <2>1, <1>1, Zenon DEF Seen
  <2>3. PICK u \in Threads : Takes(u, l)
    BY <2>1, <2>2, <1>0, <1>1, <1>2, Zenon DEF NoOrphan
  <2>. QED  BY <2>3, <1>1, Zenon DEF Takes
<1>. QED  BY <1>4, <1>5, <1>6, Zenon

\* Table init starts with every entry to be looked at.
LEMMA TableInitKeeps ==
    ASSUME LInv, NEW i \in Interfaces, TableInit(i)
    PROVE  Owned' /\ AllSeen' /\ NoOrphan'
<1>. USE ResourceConstants
<1>0. TypeOK /\ Owned /\ AllSeen /\ NoOrphan /\ Booting
  BY Zenon DEF LInv, RInv
<1>1. /\ word' = word /\ holds' = holds /\ misbust' = misbust /\ cut' = cut
      /\ \A u \in Threads \ {Leader[i]} :
            pc'[u] = pc[u] /\ cur'[u] = cur[u] /\ want'[u] = want[u]
      /\ pc'[Leader[i]] = "rc_read" /\ Leader[i] \in Threads /\ Host[Leader[i]] = i
      /\ state[i] = "down" /\ state'[i] = "init" /\ todo'[i] = Locks
      /\ \A j \in Interfaces \ {i} : state'[j] = state[j] /\ todo'[j] = todo[j]
  BY <1>0, SMT, SMTT(30) DEF TableInit, Work, Goto, TypeOK
<1>2. \A u \in Threads : Host[u] = i => pc[u] = "idle"
  BY <1>0, <1>1, Zenon DEF Booting
<1>3. Owned'
  BY <1>0, <1>1, OwnedFrame, Zenon
<1>4. AllSeen'
  <2>. SUFFICES ASSUME NEW u \in Threads, pc'[u] \in {"read", "write"}, want'[u] = Dev
                PROVE  todo'[Host[u]] = {}
    BY Zenon DEF AllSeen
  <2>1. u # Leader[i]
    BY <1>1, Zenon
  <2>2. Host[u] # i
    BY <2>1, <1>1, <1>2, Zenon
  <2>. QED  BY <2>1, <2>2, <1>0, <1>1, Zenon DEF AllSeen
<1>5. \A u \in Threads, l \in Locks : Takes(u, l) => Takes(u, l)'
  BY <1>1, <1>2, Zenon DEF Takes
<1>6. \A j \in Interfaces, l \in Locks : Seen(j, l)' => Seen(j, l)
  BY <1>1, Zenon DEF Seen
<1>7. NoOrphan'
  BY <1>0, <1>1, <1>5, <1>6, OrphanFrame, Zenon
<1>. QED  BY <1>3, <1>4, <1>7, Zenon

\* A crash leaves words behind in the name of its own host, or cut remembers
\* the word.
LEMMA CrashKeeps ==
    ASSUME LInv, NEW i \in Interfaces, Crash(i)
    PROVE  Owned' /\ AllSeen' /\ NoOrphan'
<1>. USE ResourceConstants
<1>0. TypeOK /\ Owned /\ AllSeen /\ NoOrphan
  BY Zenon DEF LInv, RInv
<1>1. /\ word' = word /\ misbust' = misbust /\ want' = want
      /\ \A u \in Threads : Host[u] # i =>
            pc'[u] = pc[u] /\ cur'[u] = cur[u] /\ holds'[u] = holds[u]
      /\ \A u \in Threads : Host[u] = i => pc'[u] = "idle" /\ holds'[u] = {}
      /\ state'[i] = "down"
      /\ \A j \in Interfaces \ {i} : state'[j] = state[j] /\ todo'[j] = todo[j]
      /\ cut \subseteq cut'
  BY <1>0, SMT, SMTT(30) DEF Crash, TypeOK
<1>2. \A u \in Threads : Host[u] = i /\ pc[u] = "own" => cut' # {}
  <2>. SUFFICES ASSUME NEW u \in Threads, Host[u] = i, pc[u] = "own"
                PROVE  cur[u] \in cut'
    BY SMT, SMTT(30)
  <2>1. u \in {t \in {t \in Threads : Host[t] = i} : pc[t] = "own"}
    BY SMT, SMTT(30)
  <2>. QED  BY <2>1, Zenon DEF Crash
<1>3. Owned'
  <2>. SUFFICES \A u \in Threads : holds'[u] \subseteq holds[u]
    BY <1>0, <1>1, OwnedFrame, Zenon
  <2>. QED  BY <1>1, Zenon
<1>4. AllSeen'
  <2>. SUFFICES ASSUME NEW u \in Threads, pc'[u] \in {"read", "write"}, want[u] = Dev
                PROVE  todo'[Host[u]] = {}
    BY <1>1, Zenon DEF AllSeen
  <2>1. Host[u] # i
    BY <1>1, Zenon
  <2>. QED  BY <2>1, <1>0, <1>1, Zenon DEF AllSeen
<1>5. NoOrphan'
  <2>. SUFFICES ASSUME ~misbust, cut' = {}, NEW j \in Interfaces, NEW l \in Locks,
                       Seen(j, l)', word[l] = Locked(j)
                PROVE  \E u \in Threads : Takes(u, l)'
    BY <1>1, Zenon DEF NoOrphan, Locked
  <2>1. j # i /\ Seen(j, l)
    BY <1>1, Zenon DEF Seen
  <2>2. PICK u \in Threads : Takes(u, l)
    BY <2>1, <1>0, <1>1, Zenon DEF NoOrphan
  <2>3. Host[u] # i
    <3>1. CASE l \in holds[u]
      <4>1. word[l] = Locked(Host[u])
        BY <3>1, <1>0, Zenon DEF Owned
      <4>2. Locked(Host[u]).owner = Host[u] /\ Locked(j).owner = j
        BY Zenon DEF Locked
      <4>. QED  BY <4>1, <4>2, <2>1, Zenon
    <3>2. CASE pc[u] = "own"
      BY <3>2, <1>2, Zenon
    <3>. QED  BY <2>2, <3>1, <3>2, Zenon DEF Takes
  <2>. QED  BY <2>2, <2>3, <1>1, Zenon DEF Takes
<1>. QED  BY <1>3, <1>4, <1>5, Zenon


LEMMA InitLInv == Init => LInv
<1>. SUFFICES ASSUME Init PROVE LInv
  BY SMT, SMTT(30)
<1>1. Owned /\ AllSeen
  BY Zenon DEF Init, Owned, AllSeen
<1>2. NoOrphan
  BY ResourceConstants, Zenon DEF Init, NoOrphan, Seen
<1>. QED  BY <1>1, <1>2, InitRInv, Zenon DEF LInv

LEMMA NextLInv == LInv /\ [Next]_vars => LInv'
<1>. SUFFICES ASSUME LInv, [Next]_vars PROVE Owned' /\ AllSeen' /\ NoOrphan'
  BY NextRInv, SMT, SMTT(30) DEF LInv
<1>1. ASSUME NEW t \in Threads, ThreadStep(t) PROVE Owned' /\ AllSeen' /\ NoOrphan'
  BY <1>1, QuietKeeps, TestSetKeeps, WriteOwnerKeeps, WriteOwnerFailsKeeps,
     UnlockReadKeeps, UnlockWriteKeeps, ReclaimReadKeeps, ReclaimWriteKeeps, SMT, SMTT(30)
     DEF ThreadStep
<1>2. ASSUME NEW t \in Threads, NEW r \in Resources, Acquire(t, r)
      PROVE  Owned' /\ AllSeen' /\ NoOrphan'
  BY <1>2, QuietKeeps, Zenon
<1>3. ASSUME NEW i \in Interfaces, TableInit(i) \/ Crash(i)
      PROVE  Owned' /\ AllSeen' /\ NoOrphan'
  BY <1>3, TableInitKeeps, CrashKeeps, Zenon
<1>4. CASE UNCHANGED vars
  <2>. USE <1>4 DEF vars, LInv
  <2>1. Owned'
    BY ZenonT(30) DEF Owned, Locked
  <2>2. AllSeen'
    BY ZenonT(30) DEF AllSeen
  <2>3. NoOrphan'
    <3>1. \A u \in Threads, l \in Locks : Takes(u, l) => Takes(u, l)'
      BY Zenon DEF Takes
    <3>2. \A i \in Interfaces, l \in Locks : Seen(i, l)' => Seen(i, l)
      BY Zenon DEF Seen
    <3>. QED  BY <3>1, <3>2, OrphanFrame, Zenon
  <2>. QED  BY <2>1, <2>2, <2>3, Zenon
<1>. QED  BY <1>1, <1>2, <1>3, <1>4, Zenon DEF Next

(* When table init of a host that came back is over, no lock word in its   *)
(* name is left over from before its crash: whatever the hosts, threads    *)
(* and resources, each such word is held or being taken, unless a word was *)
(* left without its owner id or a reclaim released another's lock.         *)
THEOREM CrashesLeaveNothingOver == Spec => []NothingLeftOver
<1>1. LInv => NothingLeftOver
  <2>. SUFFICES ASSUME NoOrphan PROVE NothingLeftOver
    BY Zenon DEF LInv
  <2>. QED  BY Zenon DEF NoOrphan, NothingLeftOver, Seen
<1>. QED  BY <1>1, InitLInv, NextLInv, PTL DEF Spec

=============================================================================

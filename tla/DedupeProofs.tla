---------------------------- MODULE DedupeProofs ----------------------------
(***************************************************************************)
(* Theorems about the dedupe cache, for every set of sagas and handlers,   *)
(* every capacity, TTL and send timeout.                                   *)
(***************************************************************************)
EXTENDS Dedupe, FiniteSetTheorems, TLAPS

-----------------------------------------------------------------------------
(* Making room and inserting. *)

\* Without and evictExpiredLocked keep the entries they keep.
LEMMA WithoutEntry ==
    ASSUME NEW f, NEW s
    PROVE  /\ DOMAIN Without(f, s) = DOMAIN f \ {s}
           /\ \A q \in DOMAIN f \ {s} : Without(f, s)[q] = f[q]
BY DEF Without, Restrict

LEMMA PrunedEntries ==
    ASSUME NEW f
    PROVE  /\ DOMAIN evictExpiredLocked(f) = {q \in DOMAIN f : now - f[q] <= TTL}
           /\ \A q \in DOMAIN evictExpiredLocked(f) : evictExpiredLocked(f)[q] = f[q]
BY DEF evictExpiredLocked, Restrict

\* What insertLocked clears the cache to: all of it, when it is not full;
\* else its fresh entries, or, when these fill it, all of them but an oldest.
Pruned == IF Full(entries) THEN evictExpiredLocked(entries) ELSE entries

LEMMA ClearedCases ==
    ASSUME NEW f \in Cleared
    PROVE  \/ ~Full(Pruned) /\ f = Pruned
           \/ Full(Pruned) /\ \E o \in Oldest(Pruned) : f = Without(Pruned, o)
BY DEF Cleared, Pruned, evictOldestLocked

LEMMA PrunedKeeps ==
    /\ DOMAIN Pruned \subseteq DOMAIN entries
    /\ \A q \in DOMAIN Pruned : Pruned[q] = entries[q]
    /\ \A q \in DOMAIN entries : now - entries[q] <= TTL => q \in DOMAIN Pruned
<1>1. CASE Full(entries)
  BY <1>1, PrunedEntries DEF Pruned
<1>2. CASE ~Full(entries)
  BY <1>2 DEF Pruned
<1> QED
  BY <1>1, <1>2

LEMMA ClearedKeeps ==
    ASSUME NEW f \in Cleared
    PROVE  /\ DOMAIN f \subseteq DOMAIN entries
           /\ \A q \in DOMAIN f : f[q] = entries[q]
<1>1. CASE f = Pruned
  BY <1>1, PrunedKeeps
<1>2. CASE \E o \in Oldest(Pruned) : f = Without(Pruned, o)
  <2>1. PICK o : f = Without(Pruned, o)
    BY <1>2
  <2>2. /\ DOMAIN f \subseteq DOMAIN Pruned
        /\ \A q \in DOMAIN f : f[q] = Pruned[q]
    BY <2>1, WithoutEntry
  <2> QED
    BY <2>2, PrunedKeeps
<1> QED
  BY <1>1, <1>2, ClearedCases

\* After an insertion the entry of its saga is new, and the others are
\* entries that were there.
LEMMA Inserted ==
    ASSUME NEW s, insertLocked(s)
    PROVE  /\ s \in DOMAIN entries'
           /\ entries'[s] = now
           /\ DOMAIN entries' \subseteq DOMAIN entries \cup {s}
           /\ \A q \in DOMAIN entries' \ {s} : entries'[q] = entries[q]
           /\ entries' = [q \in DOMAIN entries' |-> entries'[q]]
<1>1. PICK f \in Cleared :
          entries' = [q \in DOMAIN f \cup {s} |-> IF q = s THEN now ELSE f[q]]
  BY DEF insertLocked
<1> QED
  BY <1>1, ClearedKeeps

-----------------------------------------------------------------------------
(* Type correctness.  A handler that is at work sends for a saga. *)

SendingServes == \A h \in Handlers : sending[h] # Idle => sending[h].saga \in Sagas

Typing == TypeOK /\ SendingServes

LEMMA InsertTypes ==
    ASSUME TypeOK, NEW s \in Sagas, insertLocked(s), now' = now
    PROVE  /\ entries' \in [DOMAIN entries' -> 0..now']
           /\ DOMAIN entries' \subseteq Sagas
<1>1. \A q \in DOMAIN entries' : entries'[q] \in 0..now
  BY Inserted DEF TypeOK
<1>2. entries' \in [DOMAIN entries' -> 0..now]
  BY <1>1, Inserted
<1>3. DOMAIN entries' \subseteq Sagas
  BY Inserted DEF TypeOK
<1> QED
  BY <1>2, <1>3

LEMMA WithoutTypes ==
    ASSUME TypeOK, NEW s, entries' = Without(entries, s), now' = now
    PROVE  /\ entries' \in [DOMAIN entries' -> 0..now']
           /\ DOMAIN entries' \subseteq Sagas
BY DEF TypeOK, Without, Restrict

LEMMA TypingInit == Init => Typing
BY CacheAssumption DEF Init, Typing, TypeOK, SendingServes, Idle

LEMMA TypingStep == Typing /\ [Next]_vars => Typing'
<1> SUFFICES ASSUME Typing, [Next]_vars PROVE Typing'
  OBVIOUS
<1> USE CacheAssumption DEF Typing, SendingServes, Answer, Idle
<1>1. ASSUME NEW h \in Handlers, NEW s \in Sagas, TryClaim(h, s) PROVE Typing'
  <2>1. CASE Fresh(s)
    <3>1. /\ UNCHANGED <<entries, now, sending>>
          /\ answer' = [op |-> "claim", saga |-> s, result |-> FALSE]
      BY <1>1, <2>1 DEF TryClaim
    <3> QED
      BY <3>1 DEF TypeOK
  <2>2. CASE ~Fresh(s)
    <3>1. insertLocked(s) /\ now' = now
      BY <1>1, <2>2 DEF TryClaim
    <3>2. sending' = [sending EXCEPT ![h] = [saga |-> s, since |-> now]]
      BY <1>1, <2>2 DEF TryClaim
    <3>3. /\ sending' \in [Handlers -> [saga : Sagas \cup {NoSaga}, since : 0..now]]
          /\ SendingServes'
      BY <3>2 DEF TypeOK
    <3>4. answer' = [op |-> "claim", saga |-> s, result |-> TRUE]
      BY <1>1, <2>2 DEF TryClaim
    <3>5. answer' \in [op : {"none", "claim", "mark", "release", "seen"},
                       saga : Sagas \cup {NoSaga}, result : BOOLEAN]
      BY <3>4
    <3> QED
      BY <3>1, <3>3, <3>5, InsertTypes DEF TypeOK
  <2> QED
    BY <2>1, <2>2
<1>2. ASSUME NEW h \in Handlers, SendOk(h) PROVE Typing'
  BY <1>2 DEF SendOk, TypeOK
<1>3. ASSUME NEW h \in Handlers, Release(h) PROVE Typing'
  <2>1. /\ entries' \in [DOMAIN entries' -> 0..now']
        /\ DOMAIN entries' \subseteq Sagas
    BY <1>3, WithoutTypes DEF Release
  <2>2. /\ sending' \in [Handlers -> [saga : Sagas \cup {NoSaga}, since : 0..now]]
        /\ SendingServes'
    BY <1>3 DEF Release, TypeOK
  <2>3. answer' = [op |-> "release", saga |-> sending[h].saga, result |-> TRUE]
    BY <1>3 DEF Release
  <2>4. sending[h].saga \in Sagas
    BY <1>3 DEF Release
  <2>5. answer' \in [op : {"none", "claim", "mark", "release", "seen"},
                     saga : Sagas \cup {NoSaga}, result : BOOLEAN]
    BY <2>3, <2>4
  <2> QED
    BY <1>3, <2>1, <2>2, <2>5 DEF Release, TypeOK
<1>4. ASSUME NEW s \in Sagas, Mark(s) PROVE Typing'
  BY <1>4, InsertTypes DEF Mark, TypeOK
<1>5. ASSUME NEW s \in Sagas, Seen(s) PROVE Typing'
  <2>1. Fresh(s) \in BOOLEAN
    BY DEF Fresh
  <2>2. /\ entries' \in [DOMAIN entries' -> 0..now']
        /\ DOMAIN entries' \subseteq Sagas
    BY <1>5, WithoutTypes DEF Seen, TypeOK
  <2> QED
    BY <1>5, <2>1, <2>2 DEF Seen, TypeOK
<1>6. CASE Tick
  BY <1>6 DEF Tick, TypeOK
<1>7. CASE UNCHANGED vars
  BY <1>7 DEF vars, TypeOK
<1> QED
  BY <1>1, <1>2, <1>3, <1>4, <1>5, <1>6, <1>7 DEF Next

LEMMA AlwaysTyped == Spec => []Typing
BY TypingInit, TypingStep, PTL DEF Spec

\* Type correctness of the cache, its clock and its callers.
THEOREM DedupeTypeOK == Spec => []TypeOK
BY AlwaysTyped, PTL DEF Typing

-----------------------------------------------------------------------------
(* Capacity.  The map is finite however many sagas there are. *)

Bounded == IsFiniteSet(DOMAIN entries) /\ WithinCapacity

LEMMA ClearedFits ==
    ASSUME Bounded, NEW f \in Cleared
    PROVE  IsFiniteSet(DOMAIN f) /\ Cardinality(DOMAIN f) < MaxEntries
<1> USE CacheAssumption
<1>1. /\ IsFiniteSet(DOMAIN Pruned)
      /\ Cardinality(DOMAIN Pruned) \in Nat
      /\ Cardinality(DOMAIN Pruned) <= MaxEntries
  <2>1. /\ IsFiniteSet(DOMAIN Pruned)
        /\ Cardinality(DOMAIN Pruned) <= Cardinality(DOMAIN entries)
    BY PrunedKeeps, FS_Subset DEF Bounded
  <2>2. Cardinality(DOMAIN Pruned) \in Nat /\ Cardinality(DOMAIN entries) \in Nat
    BY <2>1, FS_CardinalityType DEF Bounded
  <2> QED
    BY <2>1, <2>2 DEF Bounded, WithinCapacity
<1>2. CASE ~Full(Pruned) /\ f = Pruned
  BY <1>1, <1>2 DEF Full
<1>3. CASE \E o \in Oldest(Pruned) : f = Without(Pruned, o)
  <2>1. PICK o \in DOMAIN Pruned : DOMAIN f = DOMAIN Pruned \ {o}
    BY <1>3, WithoutEntry DEF Oldest
  <2>2. /\ IsFiniteSet(DOMAIN f)
        /\ Cardinality(DOMAIN f) = Cardinality(DOMAIN Pruned) - 1
    BY <1>1, <2>1, FS_RemoveElement
  <2> QED
    BY <1>1, <2>2
<1> QED
  BY <1>2, <1>3, ClearedCases

LEMMA InsertFits ==
    ASSUME Bounded, NEW s, insertLocked(s)
    PROVE  Bounded'
<1> USE CacheAssumption
<1>1. PICK f \in Cleared : DOMAIN entries' = DOMAIN f \cup {s}
  BY DEF insertLocked
<1>2. IsFiniteSet(DOMAIN f) /\ Cardinality(DOMAIN f) < MaxEntries
  BY ClearedFits
<1>3. Cardinality(DOMAIN f) \in Nat
  BY <1>2, FS_CardinalityType
<1>4. /\ IsFiniteSet(DOMAIN entries')
      /\ Cardinality(DOMAIN entries') <= Cardinality(DOMAIN f) + 1
  BY <1>1, <1>2, <1>3, FS_AddElement
<1>5. Cardinality(DOMAIN entries') \in Nat
  BY <1>4, FS_CardinalityType
<1> QED
  BY <1>2, <1>3, <1>4, <1>5 DEF Bounded, WithinCapacity

LEMMA WithoutFits ==
    ASSUME Bounded, NEW s, entries' = Without(entries, s)
    PROVE  Bounded'
<1> USE CacheAssumption
<1>1. DOMAIN entries' \subseteq DOMAIN entries
  BY WithoutEntry
<1>2. /\ IsFiniteSet(DOMAIN entries')
      /\ Cardinality(DOMAIN entries') <= Cardinality(DOMAIN entries)
  BY <1>1, FS_Subset DEF Bounded
<1>3. Cardinality(DOMAIN entries') \in Nat /\ Cardinality(DOMAIN entries) \in Nat
  BY <1>2, FS_CardinalityType DEF Bounded
<1> QED
  BY <1>2, <1>3 DEF Bounded, WithinCapacity

LEMMA BoundedInit == Init => Bounded
BY CacheAssumption, FS_EmptySet DEF Init, Bounded, WithinCapacity

LEMMA BoundedStep == Bounded /\ [Next]_vars => Bounded'
<1> SUFFICES ASSUME Bounded, [Next]_vars PROVE Bounded'
  OBVIOUS
<1>1. CASE UNCHANGED entries
  BY <1>1 DEF Bounded, WithinCapacity
<1>2. ASSUME NEW h \in Handlers, NEW s \in Sagas, TryClaim(h, s) PROVE Bounded'
  BY <1>1, <1>2, InsertFits DEF TryClaim
<1>3. ASSUME NEW h \in Handlers, SendOk(h) \/ Release(h) PROVE Bounded'
  BY <1>1, <1>3, WithoutFits DEF SendOk, Release
<1>4. ASSUME NEW s \in Sagas, Mark(s) PROVE Bounded'
  BY <1>4, InsertFits DEF Mark
<1>5. ASSUME NEW s \in Sagas, Seen(s) PROVE Bounded'
  BY <1>1, <1>5, WithoutFits DEF Seen
<1>6. CASE Tick \/ UNCHANGED vars
  BY <1>1, <1>6 DEF Tick, vars
<1> QED
  BY <1>2, <1>3, <1>4, <1>5, <1>6 DEF Next

LEMMA AlwaysBounded == Spec => []Bounded
BY BoundedInit, BoundedStep, PTL DEF Spec

\* The map never exceeds its capacity, however insertions, expiry and releases
\* interleave and however many sagas there are.
THEOREM StaysWithinCapacity == Spec => []WithinCapacity
BY AlwaysBounded, PTL DEF Bounded
-----------------------------------------------------------------------------
(* Eviction.  When an insertion drops an entry that counts, no entry has   *)
(* expired: those that count fill the cache.                               *)

FreshEntries == {q \in Sagas : Fresh(q)}

LEMMA FreshKept ==
    ASSUME NEW f \in Cleared, NEW s, Fresh(s), s \notin DOMAIN f
    PROVE  /\ Full(Pruned)
           /\ s \in Oldest(Pruned)
<1>1. s \in DOMAIN Pruned
  BY PrunedKeeps DEF Fresh
<1>2. Full(Pruned)
  BY <1>1, ClearedCases
<1>3. PICK o \in Oldest(Pruned) : f = Without(Pruned, o)
  BY <1>2, ClearedCases
<1>4. s = o
  BY <1>1, <1>3, WithoutEntry
<1> QED
  BY <1>2, <1>3, <1>4

LEMMA AllFresh ==
    ASSUME Typing, Bounded, Full(Pruned)
    PROVE  /\ Pruned = entries
           /\ DOMAIN entries = FreshEntries
           /\ Cardinality(FreshEntries) = MaxEntries
<1> USE CacheAssumption
<1>1. /\ DOMAIN Pruned \in SUBSET (DOMAIN entries)
      /\ IsFiniteSet(DOMAIN entries)
  BY PrunedKeeps DEF Bounded
<1>2. /\ IsFiniteSet(DOMAIN Pruned)
      /\ Cardinality(DOMAIN Pruned) <= Cardinality(DOMAIN entries)
      /\ Cardinality(DOMAIN Pruned) = Cardinality(DOMAIN entries)
            => DOMAIN entries = DOMAIN Pruned
  BY <1>1, FS_Subset
<1>3. /\ Cardinality(DOMAIN Pruned) \in Nat
      /\ Cardinality(DOMAIN entries) \in Nat
  BY <1>1, <1>2, FS_CardinalityType
<1>4. /\ Cardinality(DOMAIN entries) = MaxEntries
      /\ DOMAIN entries = DOMAIN Pruned
  BY <1>2, <1>3 DEF Bounded, WithinCapacity, Full
<1>5. Full(entries)
  BY <1>3, <1>4 DEF Full
<1>6. DOMAIN Pruned = {q \in DOMAIN entries : now - entries[q] <= TTL}
  BY <1>5, PrunedEntries DEF Pruned
<1>7. DOMAIN entries = FreshEntries
  BY <1>4, <1>6 DEF FreshEntries, Fresh, Typing, TypeOK
<1>8. Pruned = entries
  <2>1. Pruned = Restrict(entries, DOMAIN entries)
    BY <1>4, <1>5, <1>6 DEF Pruned, evictExpiredLocked
  <2>2. entries = [q \in DOMAIN entries |-> entries[q]]
    BY DEF Typing, TypeOK
  <2> QED
    BY <2>1, <2>2 DEF Restrict
<1> QED
  BY <1>4, <1>7, <1>8

\* The two ways an entry that counts may go.
LostFairly(s) ==
    (Fresh(s) /\ s \notin DOMAIN entries' /\ answer' # [op |-> "release", saga |-> s, result |-> TRUE])
    => /\ Cardinality(FreshEntries) = MaxEntries
       /\ \A q \in DOMAIN entries : entries[s] <= entries[q]

LEMMA InsertLosesFairly ==
    ASSUME Typing, Bounded, NEW r, insertLocked(r), NEW s
    PROVE  LostFairly(s)
<1> SUFFICES ASSUME Fresh(s), s \notin DOMAIN entries'
             PROVE  /\ Cardinality(FreshEntries) = MaxEntries
                    /\ \A q \in DOMAIN entries : entries[s] <= entries[q]
  BY DEF LostFairly
<1>1. PICK f \in Cleared : DOMAIN entries' = DOMAIN f \cup {r}
  BY DEF insertLocked
<1>2. Full(Pruned) /\ s \in Oldest(Pruned)
  BY <1>1, FreshKept
<1> QED
  BY <1>2, AllFresh DEF Oldest

LEMMA LosesFairly ==
    ASSUME Typing, Bounded, [Next]_vars, NEW s \in Sagas
    PROVE  LostFairly(s)
<1>1. CASE UNCHANGED entries
  BY <1>1 DEF LostFairly, Fresh
<1>2. ASSUME NEW h \in Handlers, NEW r \in Sagas, TryClaim(h, r) PROVE LostFairly(s)
  BY <1>1, <1>2, InsertLosesFairly DEF TryClaim
<1>3. ASSUME NEW h \in Handlers, Release(h) PROVE LostFairly(s)
  <2>1. DOMAIN entries' = DOMAIN entries \ {sending[h].saga}
    BY <1>3, WithoutEntry DEF Release
  <2>2. answer' = [op |-> "release", saga |-> sending[h].saga, result |-> TRUE]
    BY <1>3 DEF Release, Answer
  <2> QED
    BY <2>1, <2>2 DEF LostFairly, Fresh
<1>4. ASSUME NEW r \in Sagas, Mark(r) PROVE LostFairly(s)
  BY <1>4, InsertLosesFairly DEF Mark
<1>5. ASSUME NEW r \in Sagas, Seen(r) PROVE LostFairly(s)
  <2>1. CASE Fresh(r)
    BY <1>1, <1>5, <2>1 DEF Seen
  <2>2. CASE ~Fresh(r)
    <3>1. DOMAIN entries' = DOMAIN entries \ {r}
      BY <1>5, <2>2, WithoutEntry DEF Seen
    <3> QED
      BY <2>2, <3>1 DEF LostFairly, Fresh
  <2> QED
    BY <2>1, <2>2
<1>6. CASE (\E h \in Handlers : SendOk(h)) \/ Tick \/ UNCHANGED vars
  BY <1>1, <1>6 DEF SendOk, Tick, vars
<1> QED
  BY <1>2, <1>3, <1>4, <1>5, <1>6 DEF Next

\* An entry that counts is lost to its own release only, or to an insertion
\* into a cache full of entries that count, none of them older.
THEOREM FreshIsLostWhenFull == Spec => FreshLostWhenFull
<1>1. Typing /\ Bounded /\ [Next]_vars =>
        [\A s \in Sagas :
          (Fresh(s) /\ s \notin DOMAIN entries' /\ answer' # [op |-> "release", saga |-> s, result |-> TRUE])
          => /\ Cardinality({q \in Sagas : Fresh(q)}) = MaxEntries
             /\ \A q \in DOMAIN entries : entries[s] <= entries[q]]_vars
  BY LosesFairly DEF LostFairly, FreshEntries
<1> QED
  BY <1>1, AlwaysTyped, AlwaysBounded, PTL DEF Spec, FreshLostWhenFull
-----------------------------------------------------------------------------
(* Exclusion.  The claim of a send in progress has an entry no older than  *)
(* the send, hence one that counts.                                        *)

Claiming ==
    \A h \in Handlers : sending[h] # Idle =>
        /\ sending[h].saga \in DOMAIN entries
        /\ sending[h].since <= entries[sending[h].saga]
        /\ now - sending[h].since <= SendTimeout

Excluding == Claiming /\ OneSender

LEMMA ClaimFresh ==
    ASSUME Typing, Claiming, NEW h \in Handlers, sending[h] # Idle
    PROVE  /\ sending[h].saga \in Sagas
           /\ Fresh(sending[h].saga)
<1>1. /\ sending[h].saga \in DOMAIN entries
      /\ sending[h].since <= entries[sending[h].saga]
      /\ now - sending[h].since <= SendTimeout
  BY DEF Claiming
<1>2. /\ now \in Nat
      /\ sending[h].since \in Nat
      /\ sending[h].saga \in Sagas
      /\ entries[sending[h].saga] \in Nat
  BY <1>1 DEF Typing, TypeOK, SendingServes
<1>3. SendTimeout <= TTL /\ SendTimeout \in Nat /\ TTL \in Nat
  BY CacheAssumption
<1>4. now - entries[sending[h].saga] <= TTL
  BY <1>1, <1>2, <1>3
<1> QED
  BY <1>1, <1>2, <1>4 DEF Fresh

\* While there is room, an insertion drops no entry that counts.
LEMMA InsertKeepsFresh ==
    ASSUME Typing, Bounded, RoomLeft, NEW s, insertLocked(s), NEW q, Fresh(q)
    PROVE  /\ q \in DOMAIN entries'
           /\ entries'[q] = IF q = s THEN now ELSE entries[q]
<1>1. ~Full(Pruned)
  <2>1. Cardinality(FreshEntries) < MaxEntries
    BY DEF RoomLeft, Claimed, FreshEntries
  <2>2. SUFFICES ASSUME Full(Pruned) PROVE FALSE
    OBVIOUS
  <2>3. Cardinality(FreshEntries) = MaxEntries
    BY <2>2, AllFresh
  <2> QED
    BY <2>1, <2>3, CacheAssumption
<1>2. PICK f \in Cleared :
          entries' = [p \in DOMAIN f \cup {s} |-> IF p = s THEN now ELSE f[p]]
  BY DEF insertLocked
<1>3. f = Pruned
  BY <1>1, ClearedCases
<1>4. q \in DOMAIN f /\ f[q] = entries[q]
  BY <1>3, PrunedKeeps DEF Fresh
<1> QED
  BY <1>2, <1>4

LEMMA InsertKeepsClaims ==
    ASSUME Typing, Bounded, RoomLeft, Claiming, NEW s, insertLocked(s), UNCHANGED now,
           NEW h \in Handlers, sending[h] # Idle
    PROVE  /\ sending[h].saga \in DOMAIN entries'
           /\ sending[h].since <= entries'[sending[h].saga]
<1>1. Fresh(sending[h].saga)
  BY ClaimFresh
<1>2. /\ sending[h].saga \in DOMAIN entries'
      /\ entries'[sending[h].saga] = IF sending[h].saga = s THEN now ELSE entries[sending[h].saga]
  BY <1>1, InsertKeepsFresh
<1>3. /\ sending[h].since <= now
      /\ sending[h].since <= entries[sending[h].saga]
  BY DEF Claiming, Typing, TypeOK
<1> QED
  BY <1>2, <1>3

LEMMA ExcludingInit == Init => Excluding
BY DEF Init, Excluding, Claiming, OneSender

LEMMA ExcludingStep ==
    Typing /\ Bounded /\ RoomLeft /\ Excluding /\ [Next]_vars => Excluding'
<1> SUFFICES ASSUME Typing, Bounded, RoomLeft, Excluding, [Next]_vars PROVE Excluding'
  OBVIOUS
<1>1. ASSUME NEW h \in Handlers, NEW s \in Sagas, TryClaim(h, s) PROVE Excluding'
  <2>1. CASE Fresh(s)
    BY <1>1, <2>1 DEF TryClaim, Excluding, Claiming, OneSender
  <2>2. CASE ~Fresh(s)
    <3>1. /\ insertLocked(s)
          /\ sending[h] = Idle
          /\ UNCHANGED now
          /\ sending' = [sending EXCEPT ![h] = [saga |-> s, since |-> now]]
      BY <1>1, <2>2 DEF TryClaim
    <3>2. /\ sending'[h] = [saga |-> s, since |-> now]
          /\ \A g \in Handlers \ {h} : sending'[g] = sending[g]
      BY <3>1 DEF Typing, TypeOK
    <3>3. \A g \in Handlers : sending[g] # Idle => sending[g].saga # s
      BY <2>2, ClaimFresh DEF Excluding
    <3>4. OneSender'
      BY <3>1, <3>2, <3>3, CacheAssumption DEF Excluding, OneSender, Idle
    <3>5. ASSUME NEW g \in Handlers, sending'[g] # Idle
          PROVE  /\ sending'[g].saga \in DOMAIN entries'
                 /\ sending'[g].since <= entries'[sending'[g].saga]
                 /\ now' - sending'[g].since <= SendTimeout
      <4>1. CASE g = h
        <5>1. s \in DOMAIN entries' /\ entries'[s] = now
          BY <3>1, Inserted
        <5>2. now \in Nat /\ SendTimeout \in Nat
          BY CacheAssumption DEF Typing, TypeOK
        <5> QED
          BY <3>1, <3>2, <4>1, <5>1, <5>2
      <4>2. CASE g # h
        BY <3>1, <3>2, <3>5, <4>2, InsertKeepsClaims DEF Excluding, Claiming
      <4> QED
        BY <4>1, <4>2
    <3> QED
      BY <3>4, <3>5 DEF Excluding, Claiming, Idle
  <2> QED
    BY <2>1, <2>2
<1>2. ASSUME NEW h \in Handlers, SendOk(h) PROVE Excluding'
  BY <1>2, CacheAssumption DEF SendOk, Excluding, Claiming, OneSender, Typing, TypeOK, Idle, SendingServes
<1>3. ASSUME NEW h \in Handlers, Release(h) PROVE Excluding'
  <2>1. /\ sending[h] # Idle
        /\ UNCHANGED now
        /\ sending'[h] = Idle
        /\ \A g \in Handlers \ {h} : sending'[g] = sending[g]
    BY <1>3 DEF Release, Typing, TypeOK
  <2>2. /\ DOMAIN entries' = DOMAIN entries \ {sending[h].saga}
        /\ \A q \in DOMAIN entries' : entries'[q] = entries[q]
    BY <1>3, WithoutEntry DEF Release
  <2>3. \A g \in Handlers \ {h} : sending[g].saga # sending[h].saga
    BY <2>1 DEF Excluding, OneSender
  <2>4. Claiming'
    BY <2>1, <2>2, <2>3 DEF Excluding, Claiming, Idle
  <2>5. OneSender'
    BY <2>1, CacheAssumption DEF Excluding, OneSender, Typing, SendingServes, Idle
  <2> QED
    BY <2>4, <2>5 DEF Excluding
<1>4. ASSUME NEW s \in Sagas, Mark(s) PROVE Excluding'
  <2>1. insertLocked(s) /\ UNCHANGED <<now, sending>>
    BY <1>4 DEF Mark
  <2>2. Claiming'
    BY <2>1, InsertKeepsClaims DEF Excluding, Claiming, Idle
  <2> QED
    BY <2>1, <2>2 DEF Excluding, OneSender, Idle
<1>5. ASSUME NEW s \in Sagas, Seen(s) PROVE Excluding'
  <2>1. CASE Fresh(s)
    BY <1>5, <2>1 DEF Seen, Excluding, Claiming, OneSender, Idle
  <2>2. CASE ~Fresh(s)
    <3>1. /\ DOMAIN entries' = DOMAIN entries \ {s}
          /\ \A q \in DOMAIN entries' : entries'[q] = entries[q]
          /\ UNCHANGED <<now, sending>>
      BY <1>5, <2>2, WithoutEntry DEF Seen
    <3>2. \A g \in Handlers : sending[g] # Idle => sending[g].saga # s
      BY <2>2, ClaimFresh DEF Excluding
    <3> QED
      BY <3>1, <3>2 DEF Excluding, Claiming, OneSender, Idle
  <2> QED
    BY <2>1, <2>2
<1>6. CASE Tick
  <2>1. /\ now' = now + 1
        /\ UNCHANGED <<entries, sending>>
        /\ \A h \in Handlers : sending[h] # Idle => now - sending[h].since < SendTimeout
    BY <1>6 DEF Tick
  <2>2. now \in Nat /\ SendTimeout \in Nat /\ \A h \in Handlers : sending[h].since \in Nat
    BY CacheAssumption DEF Typing, TypeOK
  <2> QED
    BY <2>1, <2>2 DEF Excluding, Claiming, OneSender, Idle
<1>7. CASE UNCHANGED vars
  BY <1>7 DEF vars, Excluding, Claiming, OneSender, Idle
<1> QED
  BY <1>1, <1>2, <1>3, <1>4, <1>5, <1>6, <1>7 DEF Next

\* No two handlers send for one saga as long as the entries that count never
\* fill the cache, whatever the capacity, the TTL and the number of handlers.
THEOREM ClaimsExclude == Spec => SendersExclude
<1>1. Excluding => OneSender
  BY DEF Excluding
<1> QED
  BY <1>1, ExcludingInit, ExcludingStep, AlwaysTyped, AlwaysBounded, PTL DEF Spec, SendersExclude

-----------------------------------------------------------------------------
(* Refinement: the entries that count are a claim set. *)

LEMMA ClaimInit == Init => Claims!Init
BY DEF Init, Claims!Init, Claimed, Fresh

LEMMA InsertAdds ==
    ASSUME Typing, NEW s \in Sagas, insertLocked(s), UNCHANGED now
    PROVE  Claims!Adds(s)
<1>1. now \in Nat /\ TTL \in Nat
  BY CacheAssumption DEF Typing, TypeOK
<1>2. s \in Claimed'
  BY <1>1, Inserted DEF Claimed, Fresh
<1>3. ASSUME NEW q \in Sagas \ {s}, Fresh(q)' PROVE Fresh(q)
  BY <1>3, Inserted DEF Fresh
<1> QED
  BY <1>2, <1>3 DEF Claims!Adds, Claimed

LEMMA ClaimStep == Typing /\ [Next]_vars => [Claims!Next]_(Claims!claimVars)
<1> SUFFICES ASSUME Typing, [Next]_vars PROVE [Claims!Next]_(Claims!claimVars)
  OBVIOUS
<1> USE DEF Claims!Answer, Answer
<1>1. ASSUME NEW h \in Handlers, NEW s \in Sagas, TryClaim(h, s) PROVE Claims!Next
  <2>1. CASE Fresh(s)
    <3>1. Claims!Refuse(s)
      BY <1>1, <2>1 DEF TryClaim, Claims!Refuse, Claimed, Fresh
    <3> QED
      BY <3>1 DEF Claims!Next
  <2>2. CASE ~Fresh(s)
    <3>1. Claims!Adds(s)
      BY <1>1, <2>2, InsertAdds DEF TryClaim
    <3>2. Claims!Grant(s)
      BY <1>1, <2>2, <3>1 DEF TryClaim, Claims!Grant, Claimed
    <3> QED
      BY <3>2 DEF Claims!Next
  <2> QED
    BY <2>1, <2>2
<1>2. ASSUME NEW h \in Handlers, SendOk(h) PROVE UNCHANGED Claims!claimVars
  BY <1>2 DEF SendOk, Claims!claimVars, Claimed, Fresh
<1>3. ASSUME NEW h \in Handlers, Release(h) PROVE Claims!Next
  <2>1. sending[h].saga \in Sagas
    BY <1>3 DEF Release, Typing, SendingServes
  <2>2. /\ DOMAIN entries' = DOMAIN entries \ {sending[h].saga}
        /\ \A q \in DOMAIN entries' : entries'[q] = entries[q]
        /\ now' = now
    BY <1>3, WithoutEntry DEF Release
  <2>3. Claimed' = Claimed \ {sending[h].saga}
    BY <2>2 DEF Claimed, Fresh
  <2>4. Claims!Release(sending[h].saga)
    BY <1>3, <2>3 DEF Release, Claims!Release
  <2> QED
    BY <2>1, <2>4 DEF Claims!Next
<1>4. ASSUME NEW s \in Sagas, Mark(s) PROVE Claims!Next
  <2>1. Claims!Mark(s)
    BY <1>4, InsertAdds DEF Mark, Claims!Mark
  <2> QED
    BY <2>1 DEF Claims!Next
<1>5. ASSUME NEW s \in Sagas, Seen(s) PROVE Claims!Next
  <2>1. Claimed' = Claimed
    <3>1. CASE Fresh(s)
      BY <1>5, <3>1 DEF Seen, Claimed, Fresh
    <3>2. CASE ~Fresh(s)
      <4>1. /\ DOMAIN entries' = DOMAIN entries \ {s}
            /\ \A q \in DOMAIN entries' : entries'[q] = entries[q]
            /\ now' = now
        BY <1>5, <3>2, WithoutEntry DEF Seen
      <4> QED
        BY <3>2, <4>1 DEF Claimed, Fresh
    <3> QED
      BY <3>1, <3>2
  <2>2. Fresh(s) <=> s \in Claimed
    BY DEF Claimed
  <2>3. Fresh(s) = (s \in Claimed)
    BY <2>2 DEF Fresh
  <2>4. Claims!Seen(s)
    BY <1>5, <2>1, <2>3 DEF Seen, Claims!Seen
  <2> QED
    BY <2>4 DEF Claims!Next
<1>6. CASE Tick
  <2>1. Claimed' \subseteq Claimed
    <3>1. now \in Nat /\ now' = now + 1 /\ entries' = entries
      BY <1>6 DEF Tick, Typing, TypeOK
    <3>2. \A s \in DOMAIN entries : entries[s] \in Nat
      BY <3>1 DEF Typing, TypeOK
    <3>3. TTL \in Nat
      BY CacheAssumption
    <3>4. ASSUME NEW s \in Sagas, Fresh(s)' PROVE Fresh(s)
      BY <3>1, <3>2, <3>3, <3>4 DEF Fresh
    <3> QED
      BY <3>4 DEF Claimed
  <2> QED
    BY <1>6, <2>1 DEF Tick, Claims!Next, Claims!Forget
<1>7. CASE UNCHANGED vars
  BY <1>7 DEF vars, Claims!claimVars, Claimed, Fresh
<1> QED
  BY <1>1, <1>2, <1>3, <1>4, <1>5, <1>6, <1>7 DEF Next

\* The cache, with its clock, its TTL and its evictions, is a claim set to its
\* callers: the set that module Notifier uses.
THEOREM CacheIsClaimSet == Spec => ImplementsClaimSet
BY ClaimInit, ClaimStep, AlwaysTyped, PTL DEF Spec, ImplementsClaimSet, Claims!Spec
=============================================================================

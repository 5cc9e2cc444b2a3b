------------------------------- MODULE Dedupe -------------------------------
(***************************************************************************)
(* The dedupe cache of cmd/notifier: a map from saga to the time of its    *)
(* entry, bounded in size and in the age of what counts, behind one mutex; *)
(* with the gRPC handlers that claim a saga while they send its email and  *)
(* the command consumer that marks one when it has sent.                   *)
(***************************************************************************)
EXTENDS Naturals, FiniteSets, Functions

CONSTANTS
    Sagas, NoSaga,
    Handlers,       \* gRPC handlers that may run at a time
    MaxEntries,     \* capacity of the cache
    TTL,            \* age up to which an entry counts
    SendTimeout,    \* the longest a send takes
    Horizon         \* bound on the clock

ASSUME CacheAssumption ==
    /\ MaxEntries \in Nat \ {0}
    /\ TTL \in Nat
    /\ SendTimeout \in 0..TTL
    /\ Horizon \in Nat
    /\ NoSaga \notin Sagas

VARIABLES
    entries,    \* Dedupe.entries
    now,        \* the clock
    sending,    \* the send a handler has claimed: its saga, and since when
    answer      \* the last call of the cache and what it returned

vars == <<entries, now, sending, answer>>

Idle == [saga |-> NoSaga, since |-> 0]

Init ==
    /\ entries = [s \in {} |-> 0]
    /\ now = 0
    /\ sending = [h \in Handlers |-> Idle]
    /\ answer = [op |-> "none", saga |-> NoSaga, result |-> FALSE]

Answer(op, s, result) == answer' = [op |-> op, saga |-> s, result |-> result]

-----------------------------------------------------------------------------
(* Entries.  The clock is read several times under the mutex; these        *)
(* readings are one instant here.                                          *)

Fresh(s) == s \in DOMAIN entries /\ now - entries[s] <= TTL

Without(f, s) == Restrict(f, DOMAIN f \ {s})

\* Mutant: one entry too many.
FullLate(f) == Cardinality(DOMAIN f) > MaxEntries

Full(f) == Cardinality(DOMAIN f) >= MaxEntries

evictExpiredLocked(f) == Restrict(f, {s \in DOMAIN f : now - f[s] <= TTL})

\* Mutant: the comparison is the wrong way round.
NewestFirst(f) == {s \in DOMAIN f : \A q \in DOMAIN f : f[q] <= f[s]}

\* The oldest entries; which of several goes is up to the map's iteration.
Oldest(f) == {s \in DOMAIN f : \A q \in DOMAIN f : f[s] <= f[q]}

evictOldestLocked(f) == {Without(f, s) : s \in Oldest(f)}

\* What is left when room has been made for an insertion, wanted or not: the
\* saga to insert may have an entry already.
Cleared ==
    LET pruned == IF Full(entries) THEN evictExpiredLocked(entries) ELSE entries
    IN  IF Full(pruned) THEN evictOldestLocked(pruned) ELSE {pruned}

\* Mutant: the entry holds its deadline, not its time.
insertDeadline(s) ==
    \E f \in Cleared :
        entries' = [q \in DOMAIN f \cup {s} |-> IF q = s THEN now + TTL ELSE f[q]]

insertLocked(s) ==
    \E f \in Cleared :
        entries' = [q \in DOMAIN f \cup {s} |-> IF q = s THEN now ELSE f[q]]

-----------------------------------------------------------------------------
(* Server.SendConfirmation by handler h *)

\* Mutant: an entry as old as the TTL no longer counts.
TryClaimEarly(h, s) ==
    /\ sending[h] = Idle
    /\ IF s \in DOMAIN entries /\ now - entries[s] < TTL
       THEN Answer("claim", s, FALSE) /\ UNCHANGED <<entries, sending>>
       ELSE /\ insertLocked(s)
            /\ Answer("claim", s, TRUE)
            /\ sending' = [sending EXCEPT ![h] = [saga |-> s, since |-> now]]
    /\ UNCHANGED now

\* Mutant: an entry counts for ever.
TryClaimExpired(h, s) ==
    /\ sending[h] = Idle
    /\ IF s \in DOMAIN entries
       THEN Answer("claim", s, FALSE) /\ UNCHANGED <<entries, sending>>
       ELSE /\ insertLocked(s)
            /\ Answer("claim", s, TRUE)
            /\ sending' = [sending EXCEPT ![h] = [saga |-> s, since |-> now]]
    /\ UNCHANGED now

\* A refused handler answers OK at once.
TryClaim(h, s) ==
    /\ sending[h] = Idle
    /\ IF Fresh(s)
       THEN Answer("claim", s, FALSE) /\ UNCHANGED <<entries, sending>>
       ELSE /\ insertLocked(s)
            /\ Answer("claim", s, TRUE)
            /\ sending' = [sending EXCEPT ![h] = [saga |-> s, since |-> now]]
    /\ UNCHANGED now

SendOk(h) ==
    /\ sending[h] # Idle
    /\ sending' = [sending EXCEPT ![h] = Idle]
    /\ UNCHANGED <<entries, now, answer>>

\* The handler drops the entry of its saga, whoever made it last.
Release(h) ==
    /\ sending[h] # Idle
    /\ entries' = Without(entries, sending[h].saga)
    /\ Answer("release", sending[h].saga, TRUE)
    /\ sending' = [sending EXCEPT ![h] = Idle]
    /\ UNCHANGED now

\* The command consumer has sent the email of saga s.
Mark(s) ==
    /\ insertLocked(s)
    /\ Answer("mark", s, TRUE)
    /\ UNCHANGED <<now, sending>>

Seen(s) ==
    /\ entries' = IF Fresh(s) THEN entries ELSE Without(entries, s)
    /\ Answer("seen", s, Fresh(s))
    /\ UNCHANGED <<now, sending>>

\* A send ends before its timeout has passed.
Tick ==
    /\ now < Horizon
    /\ \A h \in Handlers : sending[h] # Idle => now - sending[h].since < SendTimeout
    /\ now' = now + 1
    /\ UNCHANGED <<entries, sending, answer>>

Next ==
    \/ \E h \in Handlers, s \in Sagas : TryClaim(h, s)
    \/ \E h \in Handlers : SendOk(h) \/ Release(h)
    \/ \E s \in Sagas : Mark(s) \/ Seen(s)
    \/ Tick

Spec == Init /\ [][Next]_vars

-----------------------------------------------------------------------------
TypeOK ==
    /\ entries \in [DOMAIN entries -> 0..now]
    /\ DOMAIN entries \subseteq Sagas
    /\ now \in 0..Horizon
    /\ sending \in [Handlers -> [saga : Sagas \cup {NoSaga}, since : 0..now]]
    /\ answer \in [op : {"none", "claim", "mark", "release", "seen"},
                   saga : Sagas \cup {NoSaga}, result : BOOLEAN]

\* However insertions, expiry and releases interleave, the map never exceeds
\* its capacity.
WithinCapacity == Cardinality(DOMAIN entries) <= MaxEntries

\* An entry that counts is lost to its own release only, or to an insertion
\* into a cache full of entries that count, none of them older.
FreshLostWhenFull ==
    [][\A s \in Sagas :
          (Fresh(s) /\ s \notin DOMAIN entries' /\ answer' # [op |-> "release", saga |-> s, result |-> TRUE])
          => /\ Cardinality({q \in Sagas : Fresh(q)}) = MaxEntries
             /\ \A q \in DOMAIN entries : entries[s] <= entries[q]]_vars

\* The entries that count are the claims.
Claimed == {s \in Sagas : Fresh(s)}

\* "Only one concurrent caller for a given saga wins the claim and proceeds":
\* no two handlers send for one saga, though failed sends release, marks
\* refresh and entries expire, as long as the cache is never full of entries
\* that count.  (In a full one even a mark of a saga that has an entry evicts
\* another, which may be the claim of a send in progress.)
OneSender ==
    \A g, h \in Handlers :
        (sending[g] # Idle /\ sending[g].saga = sending[h].saga) => g = h

RoomLeft == Cardinality(Claimed) < MaxEntries

SendersExclude == []RoomLeft => []OneSender

Claims == INSTANCE ClaimSet WITH claims <- Claimed

\* The cache implements the claim set of module Notifier.
ImplementsClaimSet == Claims!Spec
=============================================================================

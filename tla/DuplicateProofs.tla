-------------------------- MODULE DuplicateProofs --------------------------
(***************************************************************************)
(* The bound on the emails of one release to one subscriber, for every     *)
(* number of repositories, subscriptions, releases and faults.             *)
(*                                                                         *)
(* The scanner announces a release whenever it is not the last one it saw. *)
(* What it will see is the way                                             *)
(*                                                                         *)
(*     tag announced -> last tag seen -> cached release -> latest release  *)
(*                                                                         *)
(* and a release of the past can be announced again only where this way    *)
(* goes down.  The proof counts, for each notification, its copies, the    *)
(* one the scanner owes, and the descents ahead of it: their sum grows     *)
(* only with a fault or a withdrawal.                                      *)
(***************************************************************************)
EXTENDS ReleaseProofs

-----------------------------------------------------------------------------
(* Descents. *)

Bit(b) == IF b THEN 1 ELSE 0

Fall(x, y) == Bit(x > y)

Descents(t, x, e, l) == Fall(t, x) + Fall(x, e) + Fall(e, l)

\* A release that is looked up and taken for new: whoever is owed it had the
\* descent before them.
LEMMA LookupFalls ==
    ASSUME NEW t \in Nat, NEW x \in Nat, NEW u \in Nat, NEW e \in Nat, NEW l \in Nat,
           NEW owed \in BOOLEAN, owed => t = u /\ x # t
    PROVE  /\ Bit(owed) + Descents(t, u, e, u) <= Descents(t, x, e, u) + 1
           /\ Bit(owed) + Descents(t, u, u, l) <= Descents(t, x, u, l)
           /\ Bit(owed) + Descents(t, u, l, l) <= Descents(t, x, u, l)
BY DEF Bit, Fall, Descents

\* One station of the way is another one: at most one more descent.
LEMMA OneMoreFall ==
    ASSUME NEW t \in Nat, NEW x \in Nat, NEW y \in Nat, NEW e \in Nat, NEW l \in Nat, NEW k \in Nat
    PROVE  /\ Descents(t, x, e, l) \in Nat
           /\ Descents(t, y, e, l) <= Descents(t, x, e, l) + 1
           /\ Descents(t, x, e, k) <= Descents(t, x, e, l) + 1
           /\ Descents(t, x, k, k) <= Descents(t, x, l, l) + 1
BY DEF Bit, Fall, Descents

\* A release that is published takes descents away.
LEMMA NewerFalls ==
    ASSUME NEW t \in Nat, NEW x \in Nat, NEW e \in Nat, NEW l \in Nat
    PROVE  /\ Descents(t, x, e, l + 1) <= Descents(t, x, e, l)
           /\ Descents(t, x, l + 1, l + 1) <= Descents(t, x, l, l)
BY DEF Bit, Fall, Descents

-----------------------------------------------------------------------------
(* The invariant. *)

\* The scanner has a release of p in hand that it takes for new.
Announces(p) == scan.step \in {"list", "publish"} /\ scan.repo = p

\* Still to be published to s, as far as the scanner knows.
Owed(s, t) ==
    /\ Announces(RepoOf[s]) /\ scan.tag = t
    /\ scan.step = "publish" => s \in scan.subs \ scan.sent

\* The last tag seen of p, once the scanner is done with it.
Standing(p) == IF Announces(p) THEN scan.tag ELSE lastSeen[p]

\* What the next lookup may find.
Entries(p) == cached[p] \cup {latest[p]}

Copies(n) == inbox[n] + deliveries[n] + Bit(delivery.step = "send" /\ n \in delivery.news)

\* A shutdown was counted, and what it cuts short is still to come.
CutShort(p) == scan.cancelled /\ Announces(p)

Causes == serverFaults + notifierFaults + redisFaults + withdrawn

Spent(s, t, e) ==
    Copies(<<s, t>>) + Bit(Owed(s, t)) + Bit(CutShort(RepoOf[s]))
    + Descents(t, Standing(RepoOf[s]), e, latest[RepoOf[s]])

PaidFor ==
    \A s \in Subs, t \in 1..MaxTag : \A e \in Entries(RepoOf[s]) : Spent(s, t, e) <= 1 + Causes

\* The scanner works from the tags as they are: nobody else writes them.  Its
\* list is of the repository in hand.
AsListed ==
    /\ \A p \in scan.todo : scan.seen[p] = lastSeen[p]
    /\ scan.step \in {"fetch", "list", "publish"} =>
          scan.repo \notin scan.todo /\ scan.seen[scan.repo] = lastSeen[scan.repo]
    /\ scan.step = "publish" => \A s \in scan.subs : RepoOf[s] = scan.repo

ScanRecord ==
    [step : ScanSteps, todo : SUBSET Repos, seen : [Repos -> Tags],
     repo : Repos \cup {NoRepo}, tag : Tags,
     subs : SUBSET Subs, sent : SUBSET Subs, cancelled : BOOLEAN]

LEMMA Numbers ==
    ASSUME Typing
    PROVE  /\ scan \in ScanRecord /\ lastSeen \in [Repos -> Tags]
           /\ Causes \in Nat
           /\ serverFaults \in Nat /\ notifierFaults \in Nat /\ redisFaults \in Nat /\ withdrawn \in Nat
           /\ \A s \in Subs : RepoOf[s] \in Repos
           /\ \A p \in Repos : /\ latest[p] \in Nat /\ lastSeen[p] \in Nat /\ Standing(p) \in Nat
                               /\ Entries(p) \subseteq Nat
           /\ \A s \in Subs, t \in 1..MaxTag : /\ t \in Nat /\ <<s, t>> \in News
                                               /\ Copies(<<s, t>>) \in Nat
                                               /\ inbox[<<s, t>>] \in Nat /\ deliveries[<<s, t>>] \in Nat
<1> USE DEF Typing, TypeOK
<1>1. scan \in ScanRecord /\ lastSeen \in [Repos -> Tags]
  BY DEF ScannerTypeOK, ScanRecord
<1>2. serverFaults \in Nat /\ notifierFaults \in Nat /\ redisFaults \in Nat /\ withdrawn \in Nat
  BY FaultBoundsAssumption, GithubAssumption DEF FaultsTypeOK, GithubTypeOK
<1>3. \A s \in Subs : RepoOf[s] \in Repos
  BY RepoAssumption
<1>4. Tags \subseteq Nat
  BY DEF Tags
<1>5. ASSUME NEW p \in Repos
      PROVE  latest[p] \in Nat /\ lastSeen[p] \in Nat /\ Standing(p) \in Nat /\ Entries(p) \subseteq Nat
  <2>1. latest[p] \in Nat /\ lastSeen[p] \in Nat /\ scan.tag \in Nat
    BY <1>1, <1>4 DEF GithubTypeOK, ScanRecord
  <2>2. Entries(p) \subseteq Nat
    BY <2>1, CachedTags DEF Entries
  <2> QED
    BY <2>1, <2>2 DEF Standing
<1>6. ASSUME NEW s \in Subs, NEW t \in 1..MaxTag
      PROVE  /\ t \in Nat /\ <<s, t>> \in News /\ Copies(<<s, t>>) \in Nat
             /\ inbox[<<s, t>>] \in Nat /\ deliveries[<<s, t>>] \in Nat
  <2>1. t \in Nat /\ <<s, t>> \in News
    BY DEF News
  <2>2. inbox[<<s, t>>] \in Nat /\ deliveries[<<s, t>>] \in Nat
    BY <2>1 DEF ScannerTypeOK
  <2> QED
    BY <2>1, <2>2 DEF Copies, Bit
<1>7. Causes \in Nat
  BY <1>2 DEF Causes
<1> QED
  BY <1>1, <1>2, <1>3, <1>5, <1>6, <1>7

-----------------------------------------------------------------------------
(* The list of the scanner. *)

LEMMA AsListedInit == Init => AsListed
BY DEF Init, ScannerInit, NoScan, AsListed

\* An idle scanner, and one on its way to the next repository, has no list.
LEMMA ListLeft ==
    ASSUME Typing, AsListed,
           scan' = NoScan \/ (Goto("next") /\ \A p \in scan.todo : lastSeen'[p] = lastSeen[p])
    PROVE  AsListed'
BY Numbers DEF Goto, NoScan, AsListed, ScanRecord

LEMMA AsListedStep == Typing /\ AsListed /\ [Next]_vars => AsListed'
<1> SUFFICES ASSUME Typing, AsListed, [Next]_vars PROVE AsListed'
  OBVIOUS
<1>0. scan \in ScanRecord /\ lastSeen \in [Repos -> Tags]
  BY Numbers
<1>1. CASE UNCHANGED <<lastSeen, scan>>
  BY <1>1 DEF AsListed
<1>2. CASE UNCHANGED lastSeen /\ (scan' = NoScan \/ Goto("next"))
  BY <1>2, ListLeft
<1>3. CASE StartScan
  BY <1>3 DEF StartScan, NoScan, AsListed
<1>4. CASE ScanNext
  <2>1. ASSUME NEW p \in scan.todo, UNCHANGED lastSeen,
               scan' = [scan EXCEPT !.step = "fetch", !.todo = @ \ {p}, !.repo = p]
        PROVE  AsListed'
    BY <1>0, <2>1 DEF AsListed, ScanRecord
  <2> QED
    BY <1>2, <1>4, <2>1 DEF ScanNext
<1>5. CASE FetchRelease
  <2>1. ASSUME NEW tag, ProcessRepo(tag) PROVE AsListed'
    <3>1. UNCHANGED lastSeen /\ scan.step = "fetch"
      BY <1>5 DEF FetchRelease
    <3>2. CASE Baseline(tag)
      BY <1>0, <3>1, <3>2 DEF Baseline, AsListed, ScanRecord
    <3>3. CASE scan' = [scan EXCEPT !.step = "list", !.tag = tag]
      BY <1>0, <3>1, <3>3 DEF AsListed, ScanRecord
    <3> QED
      BY <1>2, <2>1, <3>1, <3>2, <3>3 DEF ProcessRepo
  <2> QED
    BY <1>2, <1>5, <2>1 DEF FetchRelease
<1>6. CASE ListSubscribers
  <2>1. \A s \in GetConfirmedByRepoID(scan.repo) : RepoOf[s] = scan.repo
    BY DEF GetConfirmedByRepoID
  <2> DEFINE Listed == GetConfirmedByRepoID(scan.repo)
  <2> HIDE DEF Listed
  <2>2. ASSUME scan' = [scan EXCEPT !.step = "publish", !.sent = {}, !.subs = Listed],
               \A s \in Listed : RepoOf[s] = scan.repo
        PROVE  AsListed'
    BY <1>0, <1>6, <2>2 DEF ListSubscribers, AsListed, ScanRecord
  <2> QED
    BY <1>2, <1>6, <2>1, <2>2 DEF ListSubscribers, Listed
<1>7. ASSUME NEW s \in Subs, PublishNews(s) PROVE AsListed'
  BY <1>0, <1>7 DEF PublishNews, AsListed, ScanRecord
<1>8. CASE UpdateLastSeenTag
  <2>1. scan.repo \notin scan.todo /\ scan.todo \subseteq Repos
    BY <1>0, <1>8 DEF UpdateLastSeenTag, AsListed, ScanRecord
  <2>2. \A p \in scan.todo : lastSeen'[p] = lastSeen[p]
    BY <1>0, <1>8, <2>1 DEF UpdateLastSeenTag, Advance
  <2> QED
    BY <1>8, <2>2, ListLeft DEF UpdateLastSeenTag
<1>9. CASE ServerCrash \/ ExitServer
  BY <1>2, <1>9 DEF ServerCrash, ExitServer
<1>10. CASE StopServer
  BY <1>0, <1>10 DEF StopServer, AsListed, ScanRecord
<1>11. CASE World \/ \E s \in Subs : Subscribe(s) \/ ConfirmSub(s) \/ DeleteSub(s)
  BY <1>1, <1>11 DEF World, scannerVars, Subscribe, GetOrCreate, ConfirmSub, DeleteSub
<1>12. CASE UNCHANGED scannerVars
  BY <1>1, <1>12 DEF scannerVars
<1> QED
  BY <1>3, <1>4, <1>5, <1>6, <1>7, <1>8, <1>9, <1>10, <1>11, <1>12 DEF Next, ScannerNext, Scan, vars

-----------------------------------------------------------------------------
(* Steps that pay for what they add. *)

\* Of numbers, to be instantiated: sums of primed variables are beyond SMT.
LEMMA SumsGrow ==
    \A a, b, i, j \in Nat : a <= i /\ b <= j => a + b \in Nat /\ i + j \in Nat /\ a + b <= i + j
OBVIOUS

\* Faults, and nothing else, are counted.
LEMMA CausesGrow ==
    ASSUME Typing, [Next]_vars
    PROVE  /\ Causes \in Nat /\ Causes' \in Nat /\ Causes <= Causes'
           /\ ServerFault /\ UNCHANGED <<redisFaults, withdrawn>> => Causes' = Causes + 1
<1>1. /\ serverFaults \in Nat /\ notifierFaults \in Nat /\ redisFaults \in Nat /\ withdrawn \in Nat
  BY Numbers
<1>2. UNCHANGED faultVars \/ ServerFault \/ NotifierFault
  BY DEF Next, ScannerNext, Scan, StartScan, ScanNext, FetchRelease, ListSubscribers, PublishNews,
         UpdateLastSeenTag, ServerCrash, StopServer, ExitServer, World, Subscribe, GetOrCreate,
         ConfirmSub, DeleteSub, NotifierNext, DeliveryConsumer, ReceiveNews, SendNews, SettleNews,
         LoseSession, NotifierCrash, Works, Fails, NoFault, vars, faultVars
<1>3. /\ serverFaults' \in Nat /\ serverFaults <= serverFaults'
      /\ notifierFaults' \in Nat /\ notifierFaults <= notifierFaults'
  BY <1>1, <1>2 DEF faultVars, ServerFault, NotifierFault
<1>4. /\ redisFaults' = redisFaults \/ RedisFault
      /\ withdrawn' = withdrawn \/ withdrawn' = withdrawn + 1
  BY DEF Next, ScannerNext, Scan, StartScan, ScanNext, FetchRelease, ListSubscribers, PublishNews,
         UpdateLastSeenTag, ServerCrash, StopServer, ExitServer, Subscribe, ConfirmSub, DeleteSub,
         World, RenewQuota, PublishRelease, WithdrawRelease, Expire, ExpireCheck, GetLatestRelease,
         CacheHit, Fetched, Request, RateLimited, FetchFails, Missed, CheckRepo, CheckFails, githubVars, vars
<1>5. /\ redisFaults' \in Nat /\ redisFaults <= redisFaults'
      /\ withdrawn' \in Nat /\ withdrawn <= withdrawn'
  BY <1>1, <1>4 DEF RedisFault
<1>6. Causes \in Nat /\ Causes' \in Nat /\ Causes <= Causes'
  <2>1. /\ serverFaults + notifierFaults \in Nat /\ serverFaults' + notifierFaults' \in Nat
        /\ serverFaults + notifierFaults <= serverFaults' + notifierFaults'
    BY <1>1, <1>3, SumsGrow, Zenon
  <2>2. /\ serverFaults + notifierFaults + redisFaults \in Nat
        /\ serverFaults' + notifierFaults' + redisFaults' \in Nat
        /\ serverFaults + notifierFaults + redisFaults <= serverFaults' + notifierFaults' + redisFaults'
    BY <1>1, <1>5, <2>1, SumsGrow, Zenon
  <2> QED
    BY <1>1, <1>5, <2>2, SumsGrow, Zenon DEF Causes
<1>7. ASSUME ServerFault, UNCHANGED <<redisFaults, withdrawn>> PROVE Causes' = Causes + 1
  <2>1. /\ serverFaults' = serverFaults + 1 /\ notifierFaults' = notifierFaults
        /\ redisFaults' = redisFaults /\ withdrawn' = withdrawn
    BY <1>7 DEF ServerFault
  <2> QED
    BY <1>1, <2>1 DEF Causes
<1> QED
  BY <1>6, <1>7

\* The notification stays what it was, and the way ahead of it is the same or
\* shorter; or it goes one station back, for a fault.
LEMMA PaidStays ==
    ASSUME Typing, PaidFor, [Next]_vars, NEW s \in Subs, NEW t \in 1..MaxTag,
           Copies(<<s, t>>)' = Copies(<<s, t>>),
           latest'[RepoOf[s]] = latest[RepoOf[s]],
           Entries(RepoOf[s])' \subseteq Entries(RepoOf[s]),
           \/ /\ Standing(RepoOf[s])' = Standing(RepoOf[s])
              /\ Owed(s, t)' => Owed(s, t)
              /\ CutShort(RepoOf[s])' => CutShort(RepoOf[s]) \/ Causes' = Causes + 1
           \/ /\ Standing(RepoOf[s])' \in Nat
              /\ ~Announces(RepoOf[s])'
              /\ CutShort(RepoOf[s]) \/ Causes' = Causes + 1,
           NEW e \in Entries(RepoOf[s])'
    PROVE  Spent(s, t, e)' <= 1 + Causes'
<1> DEFINE p == RepoOf[s]
           c == Copies(<<s, t>>)
           x == Standing(p)
           y == Standing(p)'
           l == latest[p]
<1>1. /\ c \in Nat /\ x \in Nat /\ e \in Nat /\ l \in Nat /\ t \in Nat
      /\ Causes \in Nat /\ Causes' \in Nat /\ Causes <= Causes'
  BY Numbers, CausesGrow
<1>2. c + Bit(Owed(s, t)) + Bit(CutShort(p)) + Descents(t, x, e, l) <= 1 + Causes
  BY DEF PaidFor, Spent
<1>3. Spent(s, t, e)' = c + Bit(Owed(s, t)') + Bit(CutShort(p)') + Descents(t, y, e, l)
  BY DEF Spent, Bit, Fall, Descents
<1>4. Descents(t, x, e, l) \in Nat
  BY <1>1, OneMoreFall
<1> HIDE DEF p, c, x, y, l
<1>5. CASE y = x /\ (Owed(s, t)' => Owed(s, t)) /\ (CutShort(p)' => CutShort(p) \/ Causes' = Causes + 1)
  BY <1>1, <1>2, <1>3, <1>4, <1>5 DEF Bit
<1>6. CASE y \in Nat /\ ~Announces(p)' /\ (CutShort(p) \/ Causes' = Causes + 1)
  <2>1. ~Owed(s, t)' /\ ~CutShort(p)'
    BY <1>6 DEF Owed, CutShort, p
  <2>2. Descents(t, y, e, l) <= Descents(t, x, e, l) + 1 /\ Descents(t, y, e, l) \in Nat
    BY <1>1, <1>6, OneMoreFall
  <2> QED
    BY <1>1, <1>2, <1>3, <1>4, <1>6, <2>1, <2>2 DEF Bit
<1> QED
  BY <1>5, <1>6 DEF p, x, y

-----------------------------------------------------------------------------
(* The scanner looks up. *)

\* A lookup leaves less to find, and what it finds was there to be found or
\* costs a fault of Redis.
LEMMA LookupPays ==
    ASSUME Typing, Typing', NEW p \in Repos, NEW u \in Tags, GetLatestRelease(p, u), Works
    PROVE  /\ latest' = latest
           /\ \A q \in Repos : Entries(q)' \subseteq Entries(q)
           /\ \/ u = latest[p] /\ Causes' = Causes + 1
              \/ u \in Entries(p) /\ Entries(p)' \subseteq {u, latest[p]} /\ Causes' = Causes
<1>1. /\ serverFaults' = serverFaults /\ notifierFaults' = notifierFaults
      /\ redisFaults \in Nat
      /\ serverFaults \in Nat /\ notifierFaults \in Nat /\ withdrawn \in Nat
  BY Numbers DEF Works, NoFault, faultVars
<1>2. /\ \E S \in {{}} \cup {{t} : t \in Tags} : cached[p] = S
      /\ cached = [q \in Repos |-> cached[q]]
  BY DEF Typing, TypeOK, GithubTypeOK
<1>3. CASE CacheHit(p, u)
  <2>1. cached[p] = {u}
    BY <1>2, <1>3 DEF CacheHit
  <2>2. /\ latest' = latest /\ cached' = cached
        /\ redisFaults' = redisFaults /\ withdrawn' = withdrawn
    BY <1>3 DEF CacheHit, githubVars
  <2>3. Causes' = Causes
    BY <1>1, <2>2 DEF Causes
  <2> QED
    BY <2>1, <2>2, <2>3 DEF Entries
<1>4. CASE Fetched(p, u)
  <2>1. latest' = latest /\ withdrawn' = withdrawn /\ u = latest[p]
    BY <1>4 DEF Fetched, Request
  <2>2. cached' \in {cached, [cached EXCEPT ![p] = {u}]}
    BY <1>4 DEF Fetched
  <2>3. \A q \in Repos : cached'[q] \subseteq cached[q] \cup {latest[q]}
    BY <1>2, <2>1, <2>2
  <2>4. \A q \in Repos : Entries(q)' \subseteq Entries(q)
    BY <2>1, <2>3 DEF Entries
  <2>5. CASE RedisFault
    <3>1. redisFaults' = redisFaults + 1
      BY <2>5 DEF RedisFault
    <3>2. Causes' = Causes + 1
      BY <1>1, <2>1, <3>1 DEF Causes
    <3> QED
      BY <2>1, <2>4, <3>2
  <2>6. CASE ~RedisFault
    <3>1. cached[p] = {} /\ redisFaults' = redisFaults
      BY <1>4, <2>6 DEF Fetched
    <3>2. Causes' = Causes
      BY <1>1, <2>1, <3>1 DEF Causes
    <3>3. Entries(p) = {u}
      BY <2>1, <3>1 DEF Entries
    <3> QED
      BY <2>1, <2>4, <3>2, <3>3
  <2> QED
    BY <2>5, <2>6
<1> QED
  BY <1>3, <1>4 DEF GetLatestRelease

\* A release is taken for new: it is owed to subscribers of the repository that
\* had a descent ahead of them, or were not mailed it yet.
LEMMA NewsIsPaid ==
    ASSUME Typing, Typing', AsListed, PaidFor, scan.step = "fetch", Works, UNCHANGED lastSeen,
           UNCHANGED <<deliveries, inbox, delivery>>,
           NEW p \in Repos, p = scan.repo, NEW u \in Tags, GetLatestRelease(p, u),
           Baseline(u) \/ (/\ scan.seen[p] \notin {0, u}
                           /\ scan' = [scan EXCEPT !.step = "list", !.tag = u]),
           NEW s \in Subs, NEW t \in 1..MaxTag, RepoOf[s] = p, NEW e \in Entries(p)'
    PROVE  Spent(s, t, e)' <= 1 + Causes'
<1> DEFINE c == Copies(<<s, t>>)
           x == lastSeen[p]
           l == latest[p]
           owed == Owed(s, t)'
<1>0. scan \in ScanRecord /\ ~scan.cancelled
  BY Numbers DEF Works
<1>1. /\ latest' = latest
      /\ Entries(p)' \subseteq Entries(p)
      /\ \/ u = l /\ Causes' = Causes + 1
         \/ u \in Entries(p) /\ Entries(p)' \subseteq {u, l} /\ Causes' = Causes
  BY <1>0, LookupPays
<1>2. /\ c \in Nat /\ x \in Nat /\ e \in Nat /\ l \in Nat /\ t \in Nat /\ u \in Nat
      /\ Causes \in Nat
  BY <1>0, <1>1, Numbers DEF Tags
<1>3. /\ scan'.step \in {"list", "publish"} /\ scan'.repo = p /\ scan'.tag = u /\ ~scan'.cancelled
      /\ scan'.step = "publish" => scan'.subs = {}
      /\ scan'.step = "list" => x # u
  BY <1>0 DEF Baseline, ScanRecord, AsListed
<1>4. owed \in BOOLEAN /\ (owed => t = u /\ x # t)
  BY <1>3 DEF Owed, Announces
<1>5. \A d \in Entries(p) : c + Descents(t, x, d, l) <= 1 + Causes
  <2>1. ~Announces(p)
    BY DEF Announces
  <2>2. ASSUME NEW d \in Entries(p) PROVE c + Descents(t, x, d, l) <= 1 + Causes
    <3>1. Spent(s, t, d) <= 1 + Causes
      BY <2>2 DEF PaidFor
    <3>2. Spent(s, t, d) = c + 0 + 0 + Descents(t, x, d, l)
      BY <2>1 DEF Spent, Owed, CutShort, Standing, Bit
    <3>3. Descents(t, x, d, l) \in Nat
      BY <1>0, <1>2, <2>2, Numbers, OneMoreFall
    <3> QED
      BY <1>2, <3>1, <3>2, <3>3
  <2> QED
    BY <2>2
<1>6. Spent(s, t, e)' = c + Bit(owed) + 0 + Descents(t, u, e, l)
  <2>1. Standing(p)' = u /\ ~CutShort(p)' /\ Copies(<<s, t>>)' = c
    BY <1>3 DEF Standing, Announces, CutShort, Copies, Bit
  <2> QED
    BY <1>1, <2>1 DEF Spent, Bit, Fall, Descents
<1>7. /\ Descents(t, u, e, l) \in Nat /\ Descents(t, x, e, l) \in Nat
      /\ Descents(t, x, u, l) \in Nat /\ Bit(owed) \in Nat
  BY <1>2, OneMoreFall DEF Bit
<1> HIDE DEF c, x, l, owed
<1>8. CASE u = l /\ Causes' = Causes + 1
  <2>1. Bit(owed) + Descents(t, u, e, l) <= Descents(t, x, e, l) + 1
    BY <1>2, <1>4, <1>8, LookupFalls
  <2>2. c + Descents(t, x, e, l) <= 1 + Causes
    BY <1>1, <1>5
  <2> QED
    BY <1>2, <1>6, <1>7, <1>8, <2>1, <2>2
<1>9. CASE u \in Entries(p) /\ Entries(p)' \subseteq {u, l} /\ Causes' = Causes
  <2>1. e \in {u, l}
    BY <1>9
  <2>2. Bit(owed) + Descents(t, u, e, l) <= Descents(t, x, u, l)
    BY <1>2, <1>4, <2>1, LookupFalls
  <2>3. c + Descents(t, x, u, l) <= 1 + Causes
    BY <1>5, <1>9
  <2> QED
    BY <1>2, <1>6, <1>7, <1>9, <2>2, <2>3
<1> QED
  BY <1>1, <1>8, <1>9

LEMMA FetchPaid ==
    ASSUME Typing, Typing', AsListed, PaidFor, FetchRelease, UNCHANGED notifierVars,
           NEW s \in Subs, NEW t \in 1..MaxTag, NEW e \in Entries(RepoOf[s])'
    PROVE  Spent(s, t, e)' <= 1 + Causes'
<1> DEFINE p == RepoOf[s]
<1>0. /\ scan \in ScanRecord /\ p \in Repos
      /\ scan.step = "fetch" /\ scan.repo \in Repos
      /\ UNCHANGED <<lastSeen, deliveries, inbox, delivery>>
  BY Numbers DEF FetchRelease, Typing, AtWork, notifierVars
<1>1. [Next]_vars
  BY DEF Next, ScannerNext, Scan
<1>2. latest' = latest /\ Entries(p)' \subseteq Entries(p)
  <2>1. ASSUME NEW u \in Tags, GetLatestRelease(scan.repo, u), Works
        PROVE  latest' = latest /\ Entries(p)' \subseteq Entries(p)
    BY <1>0, <2>1, LookupPays
  <2>2. ASSUME UNCHANGED <<latest, cached>> PROVE latest' = latest /\ Entries(p)' \subseteq Entries(p)
    BY <2>2 DEF Entries
  <2>3. RateLimited(scan.repo) \/ FetchFails(scan.repo) \/ UNCHANGED githubVars => UNCHANGED <<latest, cached>>
    BY DEF RateLimited, FetchFails, Request, githubVars
  <2> QED
    BY <2>1, <2>2, <2>3 DEF FetchRelease
<1>3. ~Announces(p)
  BY <1>0 DEF Announces
<1>4. Copies(<<s, t>>)' = Copies(<<s, t>>)
  BY <1>0 DEF Copies, Bit
<1>5. CASE ~Announces(p)'
  <2>1. Standing(p)' = Standing(p) /\ ~Owed(s, t)' /\ ~CutShort(p)'
    BY <1>0, <1>3, <1>5 DEF Standing, Owed, CutShort
  <2> QED
    BY <1>1, <1>2, <1>4, <2>1, PaidStays
<1>6. CASE Announces(p)'
  <2>1. Goto("next") \/ scan' = NoScan => scan'.step \notin {"list", "publish"}
    BY <1>0 DEF Goto, NoScan, ScanRecord
  <2>2. PICK u \in Tags : GetLatestRelease(scan.repo, u) /\ Works /\ ProcessRepo(u)
    BY <1>6, <2>1 DEF FetchRelease, Announces
  <2>3. \/ Baseline(u)
        \/ scan.seen[scan.repo] \notin {0, u} /\ scan' = [scan EXCEPT !.step = "list", !.tag = u]
    BY <1>6, <2>1, <2>2 DEF ProcessRepo, Announces
  <2>4. scan'.repo = scan.repo
    BY <1>0, <2>3 DEF Baseline, ScanRecord
  <2>5. p = scan.repo
    BY <1>6, <2>4 DEF Announces
  <2> QED
    BY <1>0, <2>2, <2>3, <2>5, NewsIsPaid
<1> QED
  BY <1>5, <1>6

-----------------------------------------------------------------------------
(* The scanner publishes, and is done. *)

LEMMA PublishPaid ==
    ASSUME Typing, Typing', AsListed, PaidFor, NEW q \in Subs, PublishNews(q), UNCHANGED notifierVars,
           NEW s \in Subs, NEW t \in 1..MaxTag, NEW e \in Entries(RepoOf[s])'
    PROVE  Spent(s, t, e)' <= 1 + Causes'
<1> DEFINE p == RepoOf[s]
           n == <<s, t>>
<1>0. /\ scan \in ScanRecord /\ p \in Repos /\ n \in News
      /\ deliveries \in [News -> Nat] /\ inbox[n] \in Nat /\ Copies(n) \in Nat
      /\ UNCHANGED <<lastSeen, inbox, delivery, latest, cached, redisFaults, withdrawn>>
      /\ scan.step = "publish" /\ q \in scan.subs \ scan.sent
      /\ scan' = [scan EXCEPT !.sent = @ \cup {q}]
  BY Numbers DEF PublishNews, notifierVars, githubVars, Typing, TypeOK, ScannerTypeOK
<1>1. [Next]_vars
  BY DEF Next, ScannerNext, Scan
<1>2. /\ scan'.step = scan.step /\ scan'.repo = scan.repo /\ scan'.tag = scan.tag
      /\ scan'.subs = scan.subs /\ scan'.cancelled = scan.cancelled /\ scan'.sent = scan.sent \cup {q}
  BY <1>0 DEF ScanRecord
<1>3. /\ Announces(p)' = Announces(p) /\ CutShort(p)' = CutShort(p)
      /\ Standing(p)' = Standing(p) /\ (Owed(s, t)' => Owed(s, t))
      /\ latest'[p] = latest[p] /\ Entries(p)' = Entries(p)
  BY <1>0, <1>2 DEF Announces, CutShort, Standing, Owed, Entries
<1>4. CASE deliveries'[n] = deliveries[n]
  <2>1. Copies(n)' = Copies(n)
    BY <1>0, <1>4 DEF Copies, Bit
  <2> QED
    BY <1>1, <1>3, <2>1, PaidStays
<1>5. CASE Put(n) /\ q = s /\ scan.tag = t
  <2>1. Owed(s, t) /\ ~Owed(s, t)'
    BY <1>0, <1>2, <1>5 DEF Owed, Announces, AsListed
  <2>2. deliveries'[n] = deliveries[n] + 1 /\ deliveries[n] \in Nat
    BY <1>0, <1>5 DEF Put
  <2>3. Copies(n)' = Copies(n) + 1
    BY <1>0, <2>2 DEF Copies, Bit
  <2>4. Spent(s, t, e)' = Copies(n) + 1 + 0 + Bit(CutShort(p)) + Descents(t, Standing(p), e, latest[p])
    BY <1>3, <2>1, <2>3 DEF Spent, Bit, Fall, Descents
  <2>5. Spent(s, t, e) = Copies(n) + 1 + Bit(CutShort(p)) + Descents(t, Standing(p), e, latest[p])
    BY <2>1 DEF Spent, Bit
  <2>6. Spent(s, t, e) <= 1 + Causes /\ e \in Entries(p)
    BY <1>3 DEF PaidFor
  <2>7. /\ Descents(t, Standing(p), e, latest[p]) \in Nat /\ Bit(CutShort(p)) \in Nat
        /\ Causes \in Nat /\ Causes' \in Nat /\ Causes <= Causes'
    BY <1>0, <1>1, <2>6, Numbers, CausesGrow, OneMoreFall DEF Bit
  <2> QED
    BY <1>0, <2>4, <2>5, <2>6, <2>7
<1>6. deliveries'[n] = deliveries[n] \/ (Put(n) /\ q = s /\ scan.tag = t)
  <2>1. CASE n = <<q, scan.tag>>
    BY <1>0, <2>1 DEF PublishNews
  <2>2. CASE n # <<q, scan.tag>>
    BY <1>0, <2>2 DEF PublishNews, Put
  <2> QED
    BY <2>1, <2>2
<1> QED
  BY <1>4, <1>5, <1>6

\* Whatever else the scanner does, the notification stays what it was.
LEMMA ScannerPaid ==
    ASSUME Typing, Typing', PaidFor, UNCHANGED notifierVars,
           \/ StartScan \/ ScanNext \/ ListSubscribers \/ UpdateLastSeenTag
           \/ ServerCrash \/ StopServer \/ ExitServer,
           NEW s \in Subs, NEW t \in 1..MaxTag, NEW e \in Entries(RepoOf[s])'
    PROVE  Spent(s, t, e)' <= 1 + Causes'
<1> DEFINE p == RepoOf[s]
<1>0. /\ scan \in ScanRecord /\ lastSeen \in [Repos -> Tags] /\ p \in Repos
      /\ UNCHANGED <<latest, cached, redisFaults, withdrawn, deliveries, inbox, delivery>>
  BY Numbers DEF StartScan, ScanNext, ListSubscribers, UpdateLastSeenTag, ServerCrash, StopServer,
                 ExitServer, githubVars, notifierVars
<1>1. [Next]_vars
  BY DEF Next, ScannerNext, Scan
<1>2. /\ Copies(<<s, t>>)' = Copies(<<s, t>>)
      /\ latest'[p] = latest[p] /\ Entries(p)' = Entries(p)
  BY <1>0 DEF Copies, Bit, Entries
<1>3. ServerFault => Causes' = Causes + 1
  BY <1>0, <1>1, CausesGrow
<1>4. Fails => scan.cancelled \/ Causes' = Causes + 1
  BY <1>3 DEF Fails
<1>5. ASSUME Standing(p)' = Standing(p), ~Announces(p)'
      PROVE  Spent(s, t, e)' <= 1 + Causes'
  <2>1. ~Owed(s, t)' /\ ~CutShort(p)'
    BY <1>5 DEF Owed, CutShort
  <2> QED
    BY <1>1, <1>2, <1>5, <2>1, PaidStays
<1>6. ASSUME UNCHANGED lastSeen, ~Announces(p)', scan.cancelled \/ Causes' = Causes + 1
      PROVE  Spent(s, t, e)' <= 1 + Causes'
  <2>1. CASE Announces(p)
    <3>1. CutShort(p) \/ Causes' = Causes + 1
      BY <1>6, <2>1 DEF CutShort
    <3>2. Standing(p)' \in Nat
      <4>1. Standing(p)' = lastSeen[p]
        BY <1>6 DEF Standing
      <4> QED
        BY <1>0, <4>1, Numbers
    <3> QED
      BY <1>1, <1>2, <1>6, <3>1, <3>2, PaidStays
  <2>2. CASE ~Announces(p)
    BY <1>5, <1>6, <2>2 DEF Standing
  <2> QED
    BY <2>1, <2>2
<1>7. Goto("next") \/ scan' = NoScan => ~Announces(p)'
  BY <1>0 DEF Goto, NoScan, ScanRecord, Announces
<1>8. CASE StartScan \/ ScanNext
  <2>1. scan.step \in {"idle", "next"} /\ scan'.step \in {"idle", "next", "fetch"} /\ UNCHANGED lastSeen
    <3>1. StartScan => scan.step = "idle" /\ scan'.step = "next" /\ UNCHANGED lastSeen
      BY DEF StartScan, NoScan
    <3>2. ScanNext => scan.step = "next" /\ scan'.step \in {"idle", "fetch"} /\ UNCHANGED lastSeen
      <4>1. scan' = NoScan => scan'.step = "idle"
        BY DEF NoScan
      <4>2. ASSUME NEW r, scan' = [scan EXCEPT !.step = "fetch", !.todo = @ \ {r}, !.repo = r]
            PROVE  scan'.step = "fetch"
        BY <1>0, <4>2 DEF ScanRecord
      <4> QED
        BY <4>1, <4>2 DEF ScanNext
    <3> QED
      BY <1>8, <3>1, <3>2
  <2> QED
    BY <1>5, <2>1 DEF Announces, Standing
<1>9. CASE ListSubscribers
  <2>1. UNCHANGED lastSeen /\ scan.step = "list"
    BY <1>9 DEF ListSubscribers
  <2>2. CASE Fails /\ Goto("next")
    BY <1>4, <1>6, <1>7, <2>1, <2>2
  <2>3. CASE scan' = [scan EXCEPT !.step = "publish", !.sent = {},
                                  !.subs = GetConfirmedByRepoID(scan.repo)]
    <3>1. /\ scan'.step = "publish" /\ scan'.repo = scan.repo /\ scan'.tag = scan.tag
          /\ scan'.cancelled = scan.cancelled
      BY <1>0, <2>3 DEF ScanRecord
    <3>2. /\ Announces(p)' = Announces(p) /\ Standing(p)' = Standing(p)
          /\ (Owed(s, t)' => Owed(s, t)) /\ CutShort(p)' = CutShort(p)
      BY <2>1, <3>1 DEF Announces, Standing, Owed, CutShort
    <3> QED
      BY <1>1, <1>2, <3>2, PaidStays
  <2> QED
    BY <1>9, <2>2, <2>3 DEF ListSubscribers
<1>10. CASE UpdateLastSeenTag
  <2>1. Goto("next") /\ scan.step = "publish"
    BY <1>10 DEF UpdateLastSeenTag
  <2>2. CASE Advance
    <3>1. lastSeen'[p] = IF p = scan.repo THEN scan.tag ELSE lastSeen[p]
      BY <1>0, <2>2 DEF Advance
    <3>2. Standing(p)' = Standing(p)
      BY <1>7, <2>1, <3>1 DEF Standing, Announces
    <3> QED
      BY <1>5, <1>7, <2>1, <3>2
  <2>3. CASE Fails /\ UNCHANGED lastSeen
    BY <1>4, <1>6, <1>7, <2>1, <2>3
  <2> QED
    BY <1>10, <2>2, <2>3 DEF UpdateLastSeenTag
<1>11. CASE ServerCrash \/ ExitServer
  BY <1>3, <1>6, <1>7, <1>11 DEF ServerCrash, ExitServer
<1>12. CASE StopServer
  <2>1. /\ scan'.step = scan.step /\ scan'.repo = scan.repo /\ scan'.tag = scan.tag
        /\ scan'.subs = scan.subs /\ scan'.sent = scan.sent
        /\ UNCHANGED lastSeen /\ Causes' = Causes + 1
    BY <1>0, <1>3, <1>12 DEF StopServer, ScanRecord
  <2>2. Standing(p)' = Standing(p) /\ Owed(s, t)' = Owed(s, t)
    BY <2>1 DEF Announces, Standing, Owed
  <2> QED
    BY <1>1, <1>2, <2>1, <2>2, PaidStays
<1> QED
  BY <1>8, <1>9, <1>10, <1>11, <1>12

-----------------------------------------------------------------------------
(* The world and the notifier. *)

LEMMA WorldPaid ==
    ASSUME Typing, Typing', PaidFor, World, UNCHANGED notifierVars,
           NEW s \in Subs, NEW t \in 1..MaxTag, NEW e \in Entries(RepoOf[s])'
    PROVE  Spent(s, t, e)' <= 1 + Causes'
<1> DEFINE p == RepoOf[s]
           c == Copies(<<s, t>>) + Bit(Owed(s, t)) + Bit(CutShort(p))
           x == Standing(p)
           l == latest[p]
<1>0. /\ p \in Repos /\ latest \in [Repos -> Tags] /\ cached = [r \in Repos |-> cached[r]]
      /\ UNCHANGED <<lastSeen, scan, deliveries, inbox, delivery, serverFaults, notifierFaults>>
  BY Numbers DEF World, scannerVars, faultVars, notifierVars, Typing, TypeOK, GithubTypeOK
<1>1. [Next]_vars
  BY DEF Next, ScannerNext
<1>2. /\ Copies(<<s, t>>)' = Copies(<<s, t>>)
      /\ Standing(p)' = x /\ Owed(s, t)' = Owed(s, t) /\ CutShort(p)' = CutShort(p)
  BY <1>0 DEF Copies, Bit, Standing, Owed, CutShort, Announces
<1>3. /\ Copies(<<s, t>>) \in Nat /\ x \in Nat /\ l \in Nat /\ t \in Nat
      /\ Entries(p) \subseteq Nat
      /\ Causes \in Nat /\ Causes' \in Nat /\ Causes <= Causes'
  BY <1>0, <1>1, Numbers, CausesGrow
<1>4. c \in Nat
  BY <1>3 DEF Bit
<1>5. \A d \in Entries(p) : c + Descents(t, x, d, l) <= 1 + Causes
  BY DEF PaidFor, Spent
<1>6. Spent(s, t, e)' = c + Descents(t, x, e, latest'[p])
  BY <1>2 DEF Spent, Bit, Fall, Descents
<1>7. l \in Entries(p)
  BY DEF Entries
<1>8. CASE latest'[p] = l /\ Entries(p)' \subseteq Entries(p)
  BY <1>1, <1>2, <1>8, PaidStays
<1> HIDE DEF p, c, x, l
<1>9. CASE latest'[p] = l + 1 /\ cached'[p] = cached[p]
  <2>0. l + 1 \in Nat
    BY <1>3
  <2>1. /\ Descents(t, x, l + 1, l + 1) <= Descents(t, x, l, l)
        /\ Descents(t, x, l + 1, l + 1) \in Nat /\ Descents(t, x, l, l) \in Nat
    BY <1>3, <2>0, NewerFalls, OneMoreFall, Zenon
  <2>2. ASSUME e \in Entries(p)
        PROVE  /\ Descents(t, x, e, l + 1) <= Descents(t, x, e, l)
               /\ Descents(t, x, e, l + 1) \in Nat /\ Descents(t, x, e, l) \in Nat
    BY <1>3, <2>0, <2>2, NewerFalls, OneMoreFall, Zenon
  <2>3. e = l + 1 \/ e \in Entries(p)
    BY <1>9 DEF Entries, p
  <2> QED
    BY <1>3, <1>4, <1>5, <1>6, <1>7, <1>9, <2>1, <2>2, <2>3
<1>10. CASE latest'[p] \in Nat /\ cached'[p] = cached[p] /\ Causes' = Causes + 1
  <2> DEFINE k == latest'[p]
  <2>0. k \in Nat /\ Spent(s, t, e)' = c + Descents(t, x, e, k)
    BY <1>6, <1>10
  <2>1. e = k \/ e \in Entries(p)
    BY <1>10 DEF Entries, p
  <2> HIDE DEF k
  <2>2. /\ Descents(t, x, k, k) <= Descents(t, x, l, l) + 1
        /\ Descents(t, x, k, k) \in Nat /\ Descents(t, x, l, l) \in Nat
    BY <1>3, <2>0, OneMoreFall
  <2>3. ASSUME e \in Entries(p)
        PROVE  /\ Descents(t, x, e, k) <= Descents(t, x, e, l) + 1
               /\ Descents(t, x, e, k) \in Nat /\ Descents(t, x, e, l) \in Nat
    BY <1>3, <2>0, <2>3, OneMoreFall
  <2> QED
    BY <1>3, <1>4, <1>5, <1>7, <1>10, <2>0, <2>1, <2>2, <2>3
<1>11. CASE RenewQuota \/ \E r \in Repos : Expire(r) \/ ExpireCheck(r)
  <2>1. latest'[p] = l
    BY <1>11 DEF RenewQuota, Expire, ExpireCheck, l
  <2>2. cached'[p] \subseteq cached[p]
    BY <1>0, <1>11 DEF RenewQuota, Expire, ExpireCheck, p
  <2>3. Entries(p)' \subseteq Entries(p)
    BY <2>1, <2>2 DEF Entries, p, l
  <2> QED
    BY <1>8, <2>1, <2>3
<1>12. ASSUME NEW r \in Repos, PublishRelease(r) \/ WithdrawRelease(r)
       PROVE  Spent(s, t, e)' <= 1 + Causes'
  <2>1. cached'[p] = cached[p]
    BY <1>12 DEF PublishRelease, WithdrawRelease
  <2>2. CASE r # p
    <3>1. latest'[p] = l
      BY <1>0, <1>12, <2>2 DEF PublishRelease, WithdrawRelease, p, l
    <3>2. Entries(p)' = Entries(p)
      BY <2>1, <3>1 DEF Entries, p, l
    <3> QED
      BY <1>8, <3>1, <3>2
  <2>3. CASE r = p /\ PublishRelease(r)
    BY <1>0, <1>9, <2>1, <2>3 DEF PublishRelease, l, p
  <2>4. CASE r = p /\ WithdrawRelease(r)
    <3>1. latest'[p] = l - 1 /\ l > 0 /\ withdrawn' = withdrawn + 1 /\ redisFaults' = redisFaults
      BY <1>0, <2>4 DEF WithdrawRelease, l, p
    <3>2. Causes' = Causes + 1
      BY <1>0, <3>1, Numbers DEF Causes
    <3>3. latest'[p] \in Nat
      BY <1>3, <3>1
    <3> QED
      BY <1>10, <2>1, <3>2, <3>3
  <2> QED
    BY <1>12, <2>2, <2>3, <2>4
<1> QED
  BY <1>11, <1>12 DEF World

\* Subscribe requests take of the limit and of the cache of checks only.
LEMMA UsersPaid ==
    ASSUME Typing, Typing', PaidFor, NEW q \in Subs, Subscribe(q) \/ ConfirmSub(q) \/ DeleteSub(q),
           UNCHANGED notifierVars,
           NEW s \in Subs, NEW t \in 1..MaxTag, NEW e \in Entries(RepoOf[s])'
    PROVE  Spent(s, t, e)' <= 1 + Causes'
<1>1. [Next]_vars
  BY DEF Next, ScannerNext
<1>2. UNCHANGED <<lastSeen, scan, deliveries, inbox, delivery, latest, cached>>
  BY DEF Subscribe, GetOrCreate, ConfirmSub, DeleteSub, CheckRepo, CheckFails, Request, githubVars, notifierVars
<1>3. /\ Copies(<<s, t>>)' = Copies(<<s, t>>)
      /\ Standing(RepoOf[s])' = Standing(RepoOf[s])
      /\ Owed(s, t)' = Owed(s, t) /\ CutShort(RepoOf[s])' = CutShort(RepoOf[s])
      /\ latest'[RepoOf[s]] = latest[RepoOf[s]] /\ Entries(RepoOf[s])' = Entries(RepoOf[s])
  BY <1>2 DEF Copies, Bit, Standing, Owed, CutShort, Announces, Entries
<1> QED
  BY <1>1, <1>3, PaidStays

\* The notifier moves copies; a fault of its side makes at most one.
LEMMA NotifierPaid ==
    ASSUME Typing, Typing', PaidFor, NotifierNext, UNCHANGED <<scannerVars, githubVars>>,
           NEW s \in Subs, NEW t \in 1..MaxTag, NEW e \in Entries(RepoOf[s])'
    PROVE  Spent(s, t, e)' <= 1 + Causes'
<1> DEFINE p == RepoOf[s]
           n == <<s, t>>
           c == Bit(Owed(s, t)) + Bit(CutShort(p)) + Descents(t, Standing(p), e, latest[p])
<1>0. /\ p \in Repos /\ n \in News /\ Copies(n) \in Nat
      /\ deliveries \in [News -> Nat] /\ inbox \in [News -> Nat]
      /\ delivery \in [step : {"idle", "send", "ack", "nack"}, news : SUBSET News, stale : BOOLEAN]
      /\ UNCHANGED <<lastSeen, scan, latest, cached, redisFaults, withdrawn>>
  BY Numbers DEF scannerVars, githubVars, Typing, TypeOK, ScannerTypeOK
<1>1. [Next]_vars
  BY DEF Next
<1>2. Causes \in Nat /\ Causes' \in Nat /\ Causes <= Causes'
  BY <1>1, CausesGrow
<1>3. NotifierFault => Causes' = Causes + 1
  BY <1>0, Numbers DEF NotifierFault, Causes
<1>4. Spent(s, t, e) = Copies(n) + c /\ Spent(s, t, e) <= 1 + Causes /\ c \in Nat
  <2>1. e \in Entries(p)
    BY <1>0 DEF Entries
  <2>2. Descents(t, Standing(p), e, latest[p]) \in Nat /\ Bit(Owed(s, t)) \in Nat /\ Bit(CutShort(p)) \in Nat
    BY <1>0, <2>1, Numbers, OneMoreFall DEF Bit
  <2>3. Spent(s, t, e) <= 1 + Causes
    BY <2>1 DEF PaidFor
  <2> QED
    BY <1>0, <2>2, <2>3 DEF Spent
<1>5. Spent(s, t, e)' = Copies(n)' + c
  <2>1. /\ Standing(p)' = Standing(p) /\ Owed(s, t)' = Owed(s, t) /\ CutShort(p)' = CutShort(p)
        /\ latest'[p] = latest[p]
    BY <1>0 DEF Standing, Owed, CutShort, Announces
  <2>2. Copies(n)' \in Nat
    BY Typing', <1>0 DEF Copies, Bit, Typing, TypeOK, ScannerTypeOK
  <2> QED
    BY <1>0, <1>4, <2>1, <2>2 DEF Spent, Bit, Fall, Descents
<1> HIDE DEF p, n, c
<1>6. ASSUME NEW m \in News, ReceiveNews(m) PROVE Copies(n)' = Copies(n)
  BY <1>0, <1>6 DEF ReceiveNews, Copies, Bit
<1>7. ASSUME NEW m \in News, SendNews(m) PROVE Copies(n)' <= Copies(n) /\ Copies(n)' \in Nat
  BY <1>0, <1>7 DEF SendNews, Delivers, Copies, Bit
<1>8. SettleNews => Copies(n)' = Copies(n)
  BY <1>0 DEF SettleNews, NoDelivery, Copies, Bit
<1>9. LoseSession \/ NotifierCrash => NotifierFault /\ Copies(n)' <= Copies(n) + 1 /\ Copies(n)' \in Nat
  BY <1>0 DEF LoseSession, NotifierCrash, Requeued, NoDelivery, Copies, Bit
<1>10. Copies(n)' \in Nat /\ (Copies(n)' <= Copies(n) \/ (Copies(n)' <= Copies(n) + 1 /\ Causes' = Causes + 1))
  BY <1>0, <1>3, <1>6, <1>7, <1>8, <1>9 DEF NotifierNext, DeliveryConsumer
<1> QED
  BY <1>0, <1>2, <1>4, <1>5, <1>10

-----------------------------------------------------------------------------
(* The theorem. *)

LEMMA PaidInit == Init => PaidFor
<1> SUFFICES ASSUME Init, NEW s \in Subs, NEW t \in 1..MaxTag, NEW e \in Entries(RepoOf[s])
             PROVE  Spent(s, t, e) <= 1 + Causes
  BY DEF PaidFor
<1> DEFINE p == RepoOf[s]
<1>1. p \in Repos /\ <<s, t>> \in News
  BY RepoAssumption DEF News
<1>2. Entries(p) = {0} /\ latest[p] = 0 /\ lastSeen[p] = 0
  BY <1>1 DEF Init, GithubInit, ScannerInit, Entries
<1>3. Copies(<<s, t>>) = 0
  BY <1>1 DEF Init, ScannerInit, NoDelivery, Copies, Bit
<1>4. ~Announces(p)
  BY DEF Init, ScannerInit, NoScan, Announces
<1>5. Spent(s, t, e) = Fall(t, 0)
  BY <1>2, <1>3, <1>4 DEF Spent, Owed, CutShort, Standing, Descents, Fall, Bit
<1>6. Causes = 0
  BY DEF Init, FaultsInit, GithubInit, Causes
<1> QED
  BY <1>5, <1>6 DEF Fall, Bit

LEMMA PaidStep ==
    ASSUME Typing, Typing', AsListed, PaidFor, [Next]_vars
    PROVE  PaidFor'
<1> SUFFICES ASSUME NEW s \in Subs, NEW t \in 1..MaxTag, NEW e \in Entries(RepoOf[s])'
             PROVE  Spent(s, t, e)' <= 1 + Causes'
  BY DEF PaidFor
<1>1. CASE ScannerNext /\ UNCHANGED notifierVars
  BY <1>1, FetchPaid, PublishPaid, ScannerPaid, WorldPaid, UsersPaid DEF ScannerNext, Scan
<1>2. CASE NotifierNext /\ UNCHANGED <<scannerVars, githubVars>>
  BY <1>2, NotifierPaid
<1>3. CASE UNCHANGED vars
  <2>1. /\ Copies(<<s, t>>)' = Copies(<<s, t>>)
        /\ Standing(RepoOf[s])' = Standing(RepoOf[s])
        /\ Owed(s, t)' = Owed(s, t) /\ CutShort(RepoOf[s])' = CutShort(RepoOf[s])
        /\ latest'[RepoOf[s]] = latest[RepoOf[s]] /\ Entries(RepoOf[s])' = Entries(RepoOf[s])
    BY <1>3 DEF vars, scannerVars, githubVars, notifierVars,
                Copies, Bit, Standing, Owed, CutShort, Announces, Entries
  <2> QED
    BY <2>1, PaidStays
<1> QED
  BY <1>1, <1>2, <1>3 DEF Next

\* However scans, shutdowns, lost sessions and crashes interleave with the
\* releases: a release is mailed to a subscriber once, and again at most once
\* for each fault and each withdrawal.
THEOREM DuplicatesArePaid == Spec => []DuplicateBound
<1>1. ASSUME Typing, PaidFor PROVE DuplicateBound
  <2>1. ASSUME NEW s \in Subs, NEW t \in 1..MaxTag PROVE inbox[<<s, t>>] <= 1 + Causes
    <3> DEFINE l == latest[RepoOf[s]]
               d == Descents(t, Standing(RepoOf[s]), l, l)
    <3>1. l \in Entries(RepoOf[s])
      BY DEF Entries
    <3>2. Spent(s, t, l) <= 1 + Causes
      BY <1>1, <3>1 DEF PaidFor
    <3>3. d \in Nat
      BY <1>1, Numbers, OneMoreFall
    <3>4. Spent(s, t, l) = Copies(<<s, t>>) + Bit(Owed(s, t)) + Bit(CutShort(RepoOf[s])) + d
      BY DEF Spent
    <3> HIDE DEF d
    <3> QED
      BY <1>1, <3>2, <3>3, <3>4, Numbers DEF Copies, Bit
  <2>2. ASSUME NEW n \in News PROVE inbox[n] <= 1 + Causes
    <3>1. PICK s \in Subs, t \in 1..MaxTag : n = <<s, t>>
      BY DEF News
    <3> QED
      BY <2>1, <3>1
  <2> QED
    BY <1>1, <2>2, Numbers DEF DuplicateBound, Causes
<1> QED
  BY <1>1, AlwaysTyped, PaidInit, PaidStep, AsListedInit, AsListedStep, PTL DEF Spec
=============================================================================

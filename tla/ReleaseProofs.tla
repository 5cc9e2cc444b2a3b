--------------------------- MODULE ReleaseProofs ---------------------------
(***************************************************************************)
(* Theorems about ReleaseNotification, for every number of repositories,   *)
(* subscriptions, releases and faults.                                     *)
(***************************************************************************)
EXTENDS ReleaseNotification, FiniteSetTheorems, TLAPS

-----------------------------------------------------------------------------
(* Typing.  A scanner at work has a repository, and past the fetch a       *)
(* release.                                                                *)

AtWork ==
    /\ scan.step \in {"fetch", "list", "publish"} => scan.repo \in Repos
    /\ scan.step \in {"list", "publish"} => scan.tag \in 1..MaxTag

Typing == TypeOK /\ AtWork

LEMMA TypingInit == Init => Typing
BY FaultBoundsAssumption, GithubAssumption, RepoAssumption
   DEF Init, Typing, AtWork, TypeOK, FaultsInit, FaultsTypeOK, GithubInit, GithubTypeOK,
       ScannerInit, ScannerTypeOK, NoScan, NoDelivery, ScanSteps, SubRows, Tags, News

\* GitHub, its rate limit and the cache.
LEMMA LookupTypes ==
    ASSUME GithubTypeOK, NEW p \in Repos
    PROVE  /\ \A tag \in Tags : GetLatestRelease(p, tag) => GithubTypeOK'
           /\ RateLimited(p) => GithubTypeOK'
           /\ FetchFails(p) => GithubTypeOK'
           /\ CheckRepo(p) \/ CheckFails(p) => GithubTypeOK'
<1> USE GithubAssumption
<1>1. ASSUME NEW tag \in Tags, CacheHit(p, tag) PROVE GithubTypeOK'
  BY <1>1 DEF CacheHit, githubVars, GithubTypeOK
<1>2. ASSUME NEW tag \in Tags, Fetched(p, tag) PROVE GithubTypeOK'
  <2>1. /\ latest' = latest /\ withdrawn' = withdrawn /\ checked' = checked
        /\ quota' \in 0..Quota
        /\ redisFaults' \in 0..MaxRedisFaults
    BY <1>2 DEF Fetched, Request, RedisFault, GithubTypeOK
  <2>2. cached' \in {cached, [cached EXCEPT ![p] = {tag}]}
    BY <1>2 DEF Fetched
  <2>3. cached' \in [Repos -> {{}} \cup {{t} : t \in Tags}]
    BY <2>2 DEF GithubTypeOK
  <2> QED
    BY <2>1, <2>3 DEF GithubTypeOK
<1>3. RateLimited(p) => GithubTypeOK'
  BY DEF RateLimited, Missed, RedisFault, GithubTypeOK
<1>4. FetchFails(p) => GithubTypeOK'
  BY DEF FetchFails, Missed, RedisFault, Request, GithubTypeOK
<1>5. CheckRepo(p) \/ CheckFails(p) => GithubTypeOK'
  BY DEF CheckRepo, CheckFails, RedisFault, Request, githubVars, GithubTypeOK
<1> QED
  BY <1>1, <1>2, <1>3, <1>4, <1>5 DEF GetLatestRelease

LEMMA WorldTypes ==
    ASSUME GithubTypeOK
    PROVE  /\ RenewQuota => GithubTypeOK'
           /\ \A p \in Repos : PublishRelease(p) \/ WithdrawRelease(p) \/ Expire(p) \/ ExpireCheck(p) => GithubTypeOK'
           /\ UNCHANGED githubVars => GithubTypeOK'
BY GithubAssumption
   DEF RenewQuota, PublishRelease, WithdrawRelease, Expire, ExpireCheck, githubVars, GithubTypeOK, Tags

LEMMA FaultTypes ==
    ASSUME FaultsTypeOK
    PROVE  NoFault \/ ServerFault \/ NotifierFault => FaultsTypeOK'
BY FaultBoundsAssumption DEF NoFault, ServerFault, NotifierFault, faultVars, FaultsTypeOK

LEMMA QueueTypes ==
    ASSUME deliveries \in [News -> Nat], NEW n
    PROVE  Put(n) => deliveries' \in [News -> Nat]
<1>1. CASE n \in News
  BY <1>1 DEF Put
<1>2. CASE n \notin News
  BY <1>2 DEF Put
<1> QED
  BY <1>1, <1>2

\* The conjuncts of Typing about the scanner; and about the notifier.
ScanTyping == ScannerTypeOK /\ AtWork

NotifierTyping ==
    /\ delivery \in [step : {"idle", "send", "ack", "nack"}, news : SUBSET News, stale : BOOLEAN]
    /\ delivery.news = {} <=> delivery.step = "idle"
    /\ inbox \in [News -> Nat]
    /\ deadLetters \subseteq News

LEMMA TypingParts ==
    Typing <=> FaultsTypeOK /\ GithubTypeOK /\ ScanTyping /\ NotifierTyping
BY DEF Typing, TypeOK, ScanTyping, NotifierTyping

\* The idle scanner is well typed, whatever it leaves off.
LEMMA NoScanTyped ==
    ASSUME ScannerTypeOK, UNCHANGED <<lastSeen, subs, deliveries>>, scan' = NoScan
    PROVE  ScanTyping'
BY GithubAssumption, RepoAssumption
   DEF NoScan, ScanTyping, ScannerTypeOK, AtWork, ScanSteps, Tags

LEMMA FetchTypes ==
    ASSUME Typing, FetchRelease
    PROVE  FaultsTypeOK' /\ GithubTypeOK' /\ ScanTyping'
<1> USE DEF Typing, TypeOK
<1>1. scan.step = "fetch" /\ scan.repo \in Repos /\ UNCHANGED <<lastSeen, subs, deliveries>>
  BY DEF FetchRelease, AtWork
<1>2. ASSUME NEW tag \in Tags, tag # 0, ProcessRepo(tag) PROVE ScanTyping'
  <2>1. tag \in 1..MaxTag
    BY <1>2, GithubAssumption DEF Tags
  <2>2. CASE Baseline(tag)
    BY <1>1, <2>1, <2>2 DEF Baseline, ScanTyping, ScannerTypeOK, AtWork, ScanSteps
  <2>3. CASE Goto("next")
    BY <1>1, <2>3 DEF Goto, ScanTyping, ScannerTypeOK, AtWork, ScanSteps
  <2>4. CASE scan' = [scan EXCEPT !.step = "list", !.tag = tag]
    BY <1>1, <2>1, <2>4 DEF ScanTyping, ScannerTypeOK, AtWork, ScanSteps
  <2> QED
    BY <1>2, <2>2, <2>3, <2>4 DEF ProcessRepo
<1>3. Goto("next") => ScanTyping'
  BY <1>1 DEF Goto, ScanTyping, ScannerTypeOK, AtWork, ScanSteps
<1>4. scan' = NoScan => ScanTyping'
  BY <1>1, NoScanTyped
<1>5. CASE /\ \E tag \in Tags :
                 /\ GetLatestRelease(scan.repo, tag)
                 /\ IF tag = 0 THEN Goto("next") ELSE ProcessRepo(tag)
           /\ Works
  BY <1>1, <1>2, <1>3, <1>5, LookupTypes, FaultTypes DEF Works
<1>6. CASE RateLimited(scan.repo) /\ scan' = NoScan /\ Works
  BY <1>1, <1>4, <1>6, LookupTypes, FaultTypes DEF Works
<1>7. CASE FetchFails(scan.repo) /\ (Goto("next") \/ scan' = NoScan) /\ ServerFault
  BY <1>1, <1>3, <1>4, <1>7, LookupTypes, FaultTypes
<1>8. CASE scan.cancelled /\ Goto("next") /\ NoFault /\ UNCHANGED githubVars
  BY <1>1, <1>3, <1>8, WorldTypes, FaultTypes
<1> QED
  BY <1>5, <1>6, <1>7, <1>8 DEF FetchRelease

LEMMA ScannerStep ==
    ASSUME Typing, ScannerNext
    PROVE  FaultsTypeOK' /\ GithubTypeOK' /\ ScanTyping'
<1> USE GithubAssumption, RepoAssumption DEF Typing, TypeOK
<1>1. CASE StartScan
  <2>1. scan' = [step |-> "next", todo |-> GetAllWithConfirmedSubscriptions,
                 seen |-> lastSeen, repo |-> NoRepo, tag |-> 0, subs |-> {}, sent |-> {},
                 cancelled |-> FALSE]
    BY <1>1 DEF StartScan, NoScan
  <2>2. /\ GetAllWithConfirmedSubscriptions \in SUBSET Repos
        /\ lastSeen \in [Repos -> Tags]
        /\ 0 \in Tags
    BY DEF GetAllWithConfirmedSubscriptions, ScannerTypeOK, Tags
  <2>3. /\ scan' \in [step : ScanSteps, todo : SUBSET Repos, seen : [Repos -> Tags],
                      repo : Repos \cup {NoRepo}, tag : Tags,
                      subs : SUBSET Subs, sent : SUBSET Subs, cancelled : BOOLEAN]
        /\ scan'.step = "next" /\ scan'.sent \subseteq scan'.subs
    BY <2>1, <2>2 DEF ScanSteps
  <2>4. ScanTyping'
    BY <1>1, <2>3 DEF StartScan, ScanTyping, ScannerTypeOK, AtWork
  <2> QED
    BY <1>1, <2>4, WorldTypes, FaultTypes DEF StartScan, NoFault
<1>2. CASE ScanNext
  <2> UNCHANGED <<lastSeen, subs, deliveries>>
    BY <1>2 DEF ScanNext
  <2>1. scan' = NoScan => ScanTyping'
    BY NoScanTyped
  <2>2. ASSUME NEW p \in scan.todo,
               scan' = [scan EXCEPT !.step = "fetch", !.todo = @ \ {p}, !.repo = p]
        PROVE  ScanTyping'
    BY <1>2, <2>2 DEF ScanNext, ScanTyping, ScannerTypeOK, AtWork, ScanSteps
  <2>3. ScanTyping'
    BY <1>2, <2>1, <2>2 DEF ScanNext
  <2> QED
    BY <1>2, <2>3, WorldTypes, FaultTypes DEF ScanNext, NoFault
<1>3. CASE FetchRelease
  BY <1>3, FetchTypes
<1>4. CASE ListSubscribers
  <2> DEFINE Listed == GetConfirmedByRepoID(scan.repo)
  <2>1. /\ Listed \subseteq Subs
        /\ UNCHANGED <<lastSeen, subs, deliveries>>
        /\ scan.repo \in Repos /\ scan.tag \in 1..MaxTag
    BY <1>4 DEF GetConfirmedByRepoID, ListSubscribers, AtWork
  <2> HIDE DEF Listed
  <2>2. ASSUME scan' = [scan EXCEPT !.step = "publish", !.sent = {}, !.subs = Listed]
        PROVE  ScanTyping'
    BY <2>1, <2>2 DEF ScanTyping, ScannerTypeOK, AtWork, ScanSteps
  <2>3. ASSUME Goto("next")
        PROVE  ScanTyping'
    BY <1>4, <2>3 DEF ListSubscribers, Goto, ScanTyping, ScannerTypeOK, AtWork, ScanSteps
  <2>4. ScanTyping'
    BY <1>4, <2>2, <2>3 DEF ListSubscribers, Listed
  <2> QED
    BY <1>4, <2>4, WorldTypes, FaultTypes DEF ListSubscribers, Works, Fails
<1>5. ASSUME NEW s \in Subs, PublishNews(s) PROVE FaultsTypeOK' /\ GithubTypeOK' /\ ScanTyping'
  <2>1. deliveries' \in [News -> Nat]
    BY <1>5, QueueTypes DEF PublishNews, ScannerTypeOK
  <2>2. ScanTyping'
    BY <1>5, <2>1 DEF PublishNews, ScanTyping, ScannerTypeOK, AtWork, ScanSteps
  <2> QED
    BY <1>5, <2>2, WorldTypes, FaultTypes DEF PublishNews, Works, Fails
<1>6. CASE UpdateLastSeenTag
  <2>1. lastSeen' \in [Repos -> Tags]
    BY <1>6 DEF UpdateLastSeenTag, Advance, ScannerTypeOK
  <2>2. ScanTyping'
    BY <1>6, <2>1 DEF UpdateLastSeenTag, Goto, ScanTyping, ScannerTypeOK, AtWork, ScanSteps
  <2> QED
    BY <1>6, <2>2, WorldTypes, FaultTypes DEF UpdateLastSeenTag, Works, Fails
<1>7. CASE ServerCrash
  <2>1. ScanTyping'
    BY <1>7 DEF ServerCrash, NoScan, ScanTyping, ScannerTypeOK, AtWork, ScanSteps, Tags
  <2> QED
    BY <1>7, <2>1, WorldTypes, FaultTypes DEF ServerCrash
<1>8. CASE StopServer
  <2>1. ScanTyping'
    BY <1>8 DEF StopServer, ScanTyping, ScannerTypeOK, AtWork
  <2> QED
    BY <1>8, <2>1, WorldTypes, FaultTypes DEF StopServer
<1>9. CASE ExitServer
  <2>1. ScanTyping'
    BY <1>9, NoScanTyped DEF ExitServer
  <2> QED
    BY <1>9, <2>1, WorldTypes, FaultTypes DEF ExitServer, NoFault, faultVars
<1>10. CASE World
  <2>1. ScanTyping'
    BY <1>10 DEF World, scannerVars, ScanTyping, ScannerTypeOK, AtWork
  <2> QED
    BY <1>10, <2>1, WorldTypes, FaultTypes DEF World, NoFault
<1>11. ASSUME NEW s \in Subs, Subscribe(s) \/ ConfirmSub(s) \/ DeleteSub(s)
      PROVE  FaultsTypeOK' /\ GithubTypeOK' /\ ScanTyping'
  <2>1. ScanTyping'
    BY <1>11 DEF Subscribe, GetOrCreate, ConfirmSub, DeleteSub, ScanTyping, ScannerTypeOK, AtWork, SubRows
  <2>2. Subscribe(s) => FaultsTypeOK' /\ GithubTypeOK'
    BY LookupTypes, FaultTypes DEF Subscribe
  <2>3. ConfirmSub(s) \/ DeleteSub(s) => FaultsTypeOK' /\ GithubTypeOK'
    BY WorldTypes, FaultTypes DEF ConfirmSub, DeleteSub, NoFault
  <2> QED
    BY <1>11, <2>1, <2>2, <2>3
<1> QED
  BY <1>1, <1>2, <1>3, <1>4, <1>5, <1>6, <1>7, <1>8, <1>9, <1>10, <1>11 DEF ScannerNext, Scan

LEMMA RequeuedType ==
    ASSUME deliveries \in [News -> Nat]
    PROVE  Requeued \in [News -> Nat]
BY DEF Requeued

LEMMA NotifierStep ==
    ASSUME Typing, NotifierNext
    PROVE  FaultsTypeOK' /\ deliveries' \in [News -> Nat] /\ NotifierTyping'
<1> USE DEF Typing, TypeOK
<1>1. ASSUME NEW n \in News, ReceiveNews(n)
      PROVE  FaultsTypeOK' /\ deliveries' \in [News -> Nat] /\ NotifierTyping'
  BY <1>1, FaultTypes DEF ReceiveNews, NotifierTyping, ScannerTypeOK, NoFault
<1>2. ASSUME NEW n \in News, SendNews(n)
      PROVE  FaultsTypeOK' /\ deliveries' \in [News -> Nat] /\ NotifierTyping'
  <2>1. inbox' \in [News -> Nat]
    BY <1>2 DEF SendNews, Delivers
  <2> QED
    BY <1>2, <2>1, FaultTypes DEF SendNews, NotifierTyping, ScannerTypeOK
<1>3. CASE SettleNews
  BY <1>3, FaultTypes DEF SettleNews, NoDelivery, NotifierTyping, ScannerTypeOK, NoFault
<1>4. CASE LoseSession
  BY <1>4, FaultTypes, RequeuedType DEF LoseSession, NotifierTyping, ScannerTypeOK
<1>5. CASE NotifierCrash
  BY <1>5, FaultTypes, RequeuedType DEF NotifierCrash, NoDelivery, NotifierTyping, ScannerTypeOK
<1> QED
  BY <1>1, <1>2, <1>3, <1>4, <1>5 DEF NotifierNext, DeliveryConsumer

LEMMA TypingStep == Typing /\ [Next]_vars => Typing'
<1> SUFFICES ASSUME Typing, [Next]_vars PROVE Typing'
  OBVIOUS
<1>1. CASE ScannerNext /\ UNCHANGED notifierVars
  <2>1. NotifierTyping'
    BY <1>1, TypingParts DEF notifierVars, NotifierTyping
  <2> QED
    BY <1>1, <2>1, ScannerStep, TypingParts DEF Typing, TypeOK, ScanTyping, NotifierTyping
<1>2. CASE NotifierNext /\ UNCHANGED <<scannerVars, githubVars>>
  <2>1. GithubTypeOK'
    BY <1>2, WorldTypes DEF Typing, TypeOK
  <2>2. ScanTyping'
    BY <1>2, NotifierStep DEF scannerVars, ScanTyping, ScannerTypeOK, AtWork, Typing, TypeOK
  <2> QED
    BY <1>2, <2>1, <2>2, NotifierStep DEF Typing, TypeOK, ScanTyping, NotifierTyping
<1>3. CASE UNCHANGED vars
  BY <1>3, WorldTypes
     DEF vars, scannerVars, notifierVars, faultVars, Typing, TypeOK, AtWork, FaultsTypeOK, ScannerTypeOK
<1> QED
  BY <1>1, <1>2, <1>3 DEF Next

LEMMA AlwaysTyped == Spec => []Typing
BY TypingInit, TypingStep, PTL DEF Spec

\* Type correctness of the whole way of a release.
THEOREM ReleaseTypeOK == Spec => []TypeOK
BY AlwaysTyped, PTL DEF Typing

-----------------------------------------------------------------------------
(* Nobody unconfirmed.  A subscription never becomes unconfirmed again, so  *)
(* a list of subscribers that were confirmed when it was read stays one of  *)
(* subscribers who confirmed.                                               *)

HasConfirmed(s) == subs[s] \in {"confirmed", "deleted"}

Addressed ==
    /\ \A s \in Subs, tag \in 1..MaxTag : Reached(s, tag) => HasConfirmed(s)
    /\ \A s \in scan.subs : HasConfirmed(s)

LEMMA ConfirmedForGood ==
    ASSUME Typing, [Next]_vars, NEW s \in Subs, HasConfirmed(s)
    PROVE  HasConfirmed(s)'
<1> USE DEF HasConfirmed, Typing, TypeOK, ScannerTypeOK
<1>1. CASE UNCHANGED subs
  BY <1>1
<1>2. ASSUME NEW q \in Subs, Subscribe(q) \/ ConfirmSub(q) \/ DeleteSub(q) PROVE HasConfirmed(s)'
  BY <1>2 DEF Subscribe, ConfirmSub, DeleteSub
<1>3. CASE Scan
  BY <1>1, <1>3
     DEF Scan, StartScan, ScanNext, FetchRelease, ListSubscribers, PublishNews, UpdateLastSeenTag
<1>4. CASE ServerCrash \/ StopServer \/ ExitServer \/ World
  BY <1>1, <1>4 DEF ServerCrash, StopServer, ExitServer, World, scannerVars
<1>5. CASE NotifierNext /\ UNCHANGED <<scannerVars, githubVars>>
  BY <1>1, <1>5 DEF scannerVars
<1>6. CASE UNCHANGED vars
  BY <1>1, <1>6 DEF vars, scannerVars
<1> QED
  BY <1>2, <1>3, <1>4, <1>5, <1>6 DEF Next, ScannerNext

\* What the scanner adds to what was reached is on its list.
LEMMA ScannerReaches ==
    ASSUME Typing, ScannerNext, UNCHANGED notifierVars,
           NEW s \in Subs, NEW tag \in 1..MaxTag, Reached(s, tag)'
    PROVE  Reached(s, tag) \/ s \in scan.subs
<1> USE DEF Typing, TypeOK, ScannerTypeOK, Reached, notifierVars, News
<1>1. CASE UNCHANGED deliveries
  BY <1>1
<1>2. ASSUME NEW q \in Subs, PublishNews(q) PROVE Reached(s, tag) \/ s \in scan.subs
  <2>1. q \in scan.subs
    BY <1>2 DEF PublishNews
  <2>2. CASE s = q
    BY <2>1, <2>2
  <2>3. CASE s # q
    BY <1>2, <2>3 DEF PublishNews, Put
  <2> QED
    BY <2>2, <2>3
<1>3. CASE ScannerNext /\ ~\E q \in Subs : PublishNews(q)
  BY <1>1, <1>3
     DEF ScannerNext, Scan, StartScan, ScanNext, FetchRelease, ListSubscribers,
         UpdateLastSeenTag, ServerCrash, StopServer, ExitServer, World, Subscribe, GetOrCreate, ConfirmSub, DeleteSub
<1> QED
  BY <1>2, <1>3

\* The notifier adds nothing to what was reached: it moves it.
LEMMA NotifierReaches ==
    ASSUME Typing, NotifierNext,
           NEW s \in Subs, NEW tag \in 1..MaxTag, Reached(s, tag)'
    PROVE  Reached(s, tag)
<1> DEFINE n == <<s, tag>>
<1>0. n \in News
  BY DEF News
<1>h. Reached(s, tag) <=> deliveries[n] > 0 \/ n \in delivery.news \/ inbox[n] > 0 \/ n \in deadLetters
  BY DEF Reached
<1>p. deliveries'[n] > 0 \/ n \in delivery'.news \/ inbox'[n] > 0 \/ n \in deadLetters'
  BY DEF Reached
<1> USE DEF Typing, TypeOK, ScannerTypeOK
<1> HIDE DEF n
<1>1. ASSUME NEW m \in News, ReceiveNews(m) PROVE Reached(s, tag)
  BY <1>0, <1>h, <1>p, <1>1 DEF ReceiveNews
<1>2. ASSUME NEW m \in News, SendNews(m) PROVE Reached(s, tag)
  BY <1>0, <1>h, <1>p, <1>2 DEF SendNews, Delivers
<1>3. CASE SettleNews
  BY <1>0, <1>h, <1>p, <1>3 DEF SettleNews, NoDelivery
<1>4. CASE LoseSession
  BY <1>0, <1>h, <1>p, <1>4 DEF LoseSession, Requeued
<1>5. CASE NotifierCrash
  BY <1>0, <1>h, <1>p, <1>5 DEF NotifierCrash, Requeued, NoDelivery
<1> QED
  BY <1>1, <1>2, <1>3, <1>4, <1>5 DEF NotifierNext, DeliveryConsumer

\* A list that a step makes is the old one, an empty one, or just read.
LEMMA ListedConfirmed ==
    ASSUME Typing, ScannerNext, NEW s \in scan'.subs
    PROVE  s \in scan.subs \/ (s \in Subs /\ subs[s] = "confirmed")
<1>0. scan \in [step : ScanSteps, todo : SUBSET Repos, seen : [Repos -> Tags],
                repo : Repos \cup {NoRepo}, tag : Tags,
                subs : SUBSET Subs, sent : SUBSET Subs, cancelled : BOOLEAN]
  BY DEF Typing, TypeOK, ScannerTypeOK
<1>1. NoScan.subs = {}
  BY DEF NoScan
<1>2. ASSUME NEW step, Goto(step) PROVE scan'.subs = scan.subs
  BY <1>0, <1>2 DEF Goto
<1>3. CASE StartScan
  <2>1. scan'.subs = {}
    BY <1>3 DEF StartScan, NoScan
  <2> QED
    BY <2>1
<1>4. CASE ScanNext \/ ServerCrash \/ StopServer \/ ExitServer
  <2>1. scan' = NoScan \/ scan'.subs = scan.subs
    BY <1>0, <1>4 DEF ScanNext, ServerCrash, StopServer, ExitServer
  <2> QED
    BY <1>1, <2>1
<1>5. CASE FetchRelease
  <2>1. ASSUME NEW tag, ProcessRepo(tag) PROVE scan'.subs \in {{}, scan.subs}
    <3>1. Baseline(tag) => scan'.subs = {}
      BY <1>0 DEF Baseline
    <3>2. scan' = [scan EXCEPT !.step = "list", !.tag = tag] => scan'.subs = scan.subs
      BY <1>0
    <3> QED
      BY <1>2, <2>1, <3>1, <3>2 DEF ProcessRepo
  <2>2. Goto("next") \/ scan' = NoScan \/ \E tag : ProcessRepo(tag)
    BY <1>5 DEF FetchRelease
  <2> QED
    BY <1>1, <1>2, <2>1, <2>2
<1>6. CASE ListSubscribers
  <2>1. scan'.subs = GetConfirmedByRepoID(scan.repo) \/ Goto("next")
    BY <1>0, <1>6 DEF ListSubscribers
  <2>2. \A q \in GetConfirmedByRepoID(scan.repo) : q \in Subs /\ subs[q] = "confirmed"
    BY DEF GetConfirmedByRepoID
  <2> QED
    BY <1>2, <2>1, <2>2
<1>7. CASE UpdateLastSeenTag
  BY <1>2, <1>7 DEF UpdateLastSeenTag
<1>8. ASSUME NEW q \in Subs, PublishNews(q) PROVE s \in scan.subs
  BY <1>0, <1>8 DEF PublishNews
<1>9. CASE World \/ \E q \in Subs : Subscribe(q) \/ ConfirmSub(q) \/ DeleteSub(q)
  BY <1>9 DEF World, scannerVars, Subscribe, GetOrCreate, ConfirmSub, DeleteSub
<1> QED
  BY <1>3, <1>4, <1>5, <1>6, <1>7, <1>8, <1>9 DEF ScannerNext, Scan

LEMMA AddressedInit == Init => Addressed
BY DEF Init, ScannerInit, NoScan, NoDelivery, News, Addressed, Reached

LEMMA AddressedStep == Typing /\ Typing' /\ Addressed /\ [Next]_vars => Addressed'
<1> SUFFICES ASSUME Typing, Typing', Addressed, [Next]_vars PROVE Addressed'
  OBVIOUS
<1>1. CASE ScannerNext /\ UNCHANGED notifierVars
  <2>1. ASSUME NEW s \in Subs, NEW tag \in 1..MaxTag, Reached(s, tag)' PROVE HasConfirmed(s)'
    BY <1>1, <2>1, ScannerReaches, ConfirmedForGood DEF Addressed
  <2>2. ASSUME NEW s \in scan'.subs PROVE HasConfirmed(s)'
    <3>1. s \in Subs
      BY DEF Typing, TypeOK, ScannerTypeOK
    <3>2. HasConfirmed(s)
      BY <1>1, ListedConfirmed DEF Addressed, HasConfirmed
    <3> QED
      BY <3>1, <3>2, ConfirmedForGood
  <2> QED
    BY <2>1, <2>2 DEF Addressed
<1>2. CASE NotifierNext /\ UNCHANGED <<scannerVars, githubVars>>
  <2>1. ASSUME NEW s \in Subs, NEW tag \in 1..MaxTag, Reached(s, tag)' PROVE HasConfirmed(s)'
    BY <1>2, <2>1, NotifierReaches, ConfirmedForGood DEF Addressed
  <2> QED
    BY <1>2, <2>1 DEF Addressed, HasConfirmed, scannerVars
<1>3. CASE UNCHANGED vars
  BY <1>3 DEF vars, scannerVars, notifierVars, Addressed, HasConfirmed, Reached
<1> QED
  BY <1>1, <1>2, <1>3 DEF Next

\* A user who did not confirm is in no list, in no message and in no inbox,
\* however confirmations and deletions interleave with a scan.
THEOREM NobodyUnconfirmed == Spec => []UnconfirmedHearNothing
<1>1. Addressed => UnconfirmedHearNothing
  BY DEF Addressed, HasConfirmed, UnconfirmedHearNothing
<1> QED
  BY <1>1, AlwaysTyped, AddressedInit, AddressedStep, PTL DEF Spec

-----------------------------------------------------------------------------
(* Leavers.  A list that is read after a user left is without them, and     *)
(* only a list makes new notifications.                                     *)

Forgotten ==
    \A s \in Subs :
        subs[s] = "deleted" /\ s \notin scan.subs
        => /\ s \notin scan'.subs
           /\ \A tag \in 1..MaxTag : Reached(s, tag)' => Reached(s, tag)

LEMMA LeaversForgotten ==
    ASSUME Typing, [Next]_vars
    PROVE  Forgotten
<1> SUFFICES ASSUME NEW s \in Subs, subs[s] = "deleted", s \notin scan.subs
             PROVE  /\ s \notin scan'.subs
                    /\ \A tag \in 1..MaxTag : Reached(s, tag)' => Reached(s, tag)
  BY DEF Forgotten
<1>1. CASE ScannerNext /\ UNCHANGED notifierVars
  BY <1>1, ListedConfirmed, ScannerReaches
<1>2. CASE NotifierNext /\ UNCHANGED <<scannerVars, githubVars>>
  BY <1>2, NotifierReaches DEF scannerVars
<1>3. CASE UNCHANGED vars
  BY <1>3 DEF vars, scannerVars, notifierVars, Reached
<1> QED
  BY <1>1, <1>2, <1>3 DEF Next

\* Once a user has left, and no list in hand still has them, no scan ever makes
\* a notification for them again.
THEOREM LeaversStayForgotten == Spec => LeaversAreForgotten
<1>1. Typing /\ [Next]_vars => [Forgotten]_vars
  BY LeaversForgotten
<1>2. Spec => [][Forgotten]_vars
  BY <1>1, AlwaysTyped, PTL DEF Spec
<1> QED
  BY <1>2 DEF Forgotten, LeaversAreForgotten

-----------------------------------------------------------------------------
(* Order.  As long as Redis never failed and nothing was withdrawn, what    *)
(* was announced, what is cached and what GitHub holds follow one another.  *)

Quiet == redisFaults = 0 /\ withdrawn = 0

Ordered ==
    \A p \in Repos :
        /\ lastSeen[p] <= latest[p]
        /\ \A t \in cached[p] : lastSeen[p] <= t /\ t <= latest[p]

\* The release in hand is no older than the last one, no newer than any the
\* next lookup may find.
InHand ==
    scan.step \in {"list", "publish"} =>
        /\ lastSeen[scan.repo] <= scan.tag
        /\ scan.tag <= latest[scan.repo]
        /\ \A t \in cached[scan.repo] : scan.tag <= t

InOrder == Quiet => Ordered /\ InHand

LEMMA CachedTags ==
    ASSUME Typing, NEW p \in Repos, NEW t \in cached[p]
    PROVE  t \in Nat
BY DEF Typing, TypeOK, GithubTypeOK, Tags

\* Releases come: the order holds whatever is in hand.
LEMMA WorldInOrder ==
    ASSUME Typing, InOrder, World
    PROVE  InOrder'
<1> SUFFICES ASSUME Quiet' PROVE Ordered' /\ InHand'
  BY DEF InOrder
<1>1. UNCHANGED <<lastSeen, scan>>
  BY DEF World, scannerVars
<1>2. Quiet
  BY DEF World, RenewQuota, PublishRelease, WithdrawRelease, Expire, ExpireCheck, Quiet, Typing, TypeOK, GithubTypeOK
<1>3. \A p \in Repos : latest[p] \in Nat /\ lastSeen[p] \in Nat
  BY DEF Typing, TypeOK, GithubTypeOK, ScannerTypeOK, Tags
<1>4. \A p \in Repos : latest[p] <= latest'[p] /\ latest'[p] \in Nat
  BY <1>3 DEF World, RenewQuota, PublishRelease, WithdrawRelease, Expire, ExpireCheck, Quiet, Typing, TypeOK, GithubTypeOK
<1>5. \A p \in Repos : cached'[p] \subseteq cached[p]
  BY DEF World, RenewQuota, PublishRelease, WithdrawRelease, Expire, ExpireCheck, Typing, TypeOK, GithubTypeOK
<1>6. Ordered /\ InHand
  BY <1>2 DEF InOrder
<1>7. Ordered'
  BY <1>1, <1>3, <1>4, <1>5, <1>6, CachedTags DEF Ordered
<1>8. scan.step \in {"list", "publish"} => scan.repo \in Repos /\ scan.tag \in Nat
  BY GithubAssumption DEF Typing, AtWork
<1>9. InHand'
  BY <1>1, <1>3, <1>4, <1>5, <1>6, <1>8 DEF InHand
<1> QED
  BY <1>7, <1>9

\* A lookup finds a release no older than the last one; nothing older is left
\* in the cache.
LEMMA LookupInOrder ==
    ASSUME Typing, Ordered, NEW p \in Repos, NEW tag \in Tags,
           GetLatestRelease(p, tag), Quiet'
    PROVE  /\ latest' = latest
           /\ \A q \in Repos : \A t \in cached'[q] : t \in cached[q] \/ t = latest[q]
           /\ lastSeen[p] <= tag
           /\ tag <= latest[p]
           /\ \A t \in cached'[p] : tag <= t
<1>1. \A q \in Repos : latest[q] \in Nat /\ lastSeen[q] \in Nat
  BY DEF Typing, TypeOK, GithubTypeOK, ScannerTypeOK, Tags
<1>2. /\ redisFaults \in Nat
      /\ \E S \in {{}} \cup {{t} : t \in Tags} : cached[p] = S
      /\ DOMAIN cached = Repos
      /\ cached = [q \in Repos |-> cached[q]]
  BY GithubAssumption DEF Typing, TypeOK, GithubTypeOK
<1>3. CASE CacheHit(p, tag)
  <2>1. cached[p] = {tag}
    BY <1>2, <1>3 DEF CacheHit
  <2> QED
    BY <1>1, <1>3, <2>1, GithubAssumption DEF CacheHit, githubVars, Ordered, Tags
<1>4. CASE Fetched(p, tag)
  <2>1. ~RedisFault
    BY <1>2 DEF RedisFault, Quiet
  <2>2. /\ latest' = latest
        /\ tag = latest[p]
        /\ cached' = [cached EXCEPT ![p] = {tag}]
    BY <1>4, <2>1 DEF Fetched, Request
  <2> QED
    BY <1>1, <1>2, <2>2 DEF Ordered
<1> QED
  BY <1>3, <1>4 DEF GetLatestRelease

LEMMA FetchInOrder ==
    ASSUME Typing, InOrder, FetchRelease
    PROVE  InOrder'
<1> SUFFICES ASSUME Quiet' PROVE Ordered' /\ InHand'
  BY DEF InOrder
<1>1. scan.step = "fetch" /\ scan.repo \in Repos /\ UNCHANGED lastSeen
  BY DEF FetchRelease, Typing, AtWork
<1>2. /\ redisFaults \in Nat /\ withdrawn \in Nat
      /\ \A q \in Repos : latest[q] \in Nat /\ lastSeen[q] \in Nat
  BY GithubAssumption DEF Typing, TypeOK, GithubTypeOK, ScannerTypeOK, Tags
<1>3. Quiet
  BY <1>2 DEF FetchRelease, GetLatestRelease, CacheHit, Fetched, RateLimited, FetchFails, Missed,
              Request, RedisFault, githubVars, Quiet
<1>4. Ordered
  BY <1>3 DEF InOrder
<1>5. scan \in [step : ScanSteps, todo : SUBSET Repos, seen : [Repos -> Tags],
                repo : Repos \cup {NoRepo}, tag : Tags,
                subs : SUBSET Subs, sent : SUBSET Subs, cancelled : BOOLEAN]
  BY DEF Typing, TypeOK, ScannerTypeOK
<1>6. (Goto("next") \/ scan' = NoScan) => InHand'
  BY <1>5 DEF Goto, NoScan, InHand
<1>7. UNCHANGED <<latest, cached>> => Ordered'
  BY <1>1, <1>4 DEF Ordered
<1>8. ASSUME NEW tag \in Tags, GetLatestRelease(scan.repo, tag),
             Goto("next") \/ ProcessRepo(tag)
      PROVE  Ordered' /\ InHand'
  <2>1. /\ latest' = latest
        /\ \A q \in Repos : \A t \in cached'[q] : t \in cached[q] \/ t = latest[q]
        /\ lastSeen[scan.repo] <= tag
        /\ tag <= latest[scan.repo]
        /\ \A t \in cached'[scan.repo] : tag <= t
    BY <1>1, <1>4, <1>8, LookupInOrder
  <2>2. Ordered'
    BY <1>1, <1>2, <1>4, <2>1 DEF Ordered
  <2>3. scan'.step \in {"list", "publish"} => scan'.tag = tag /\ scan'.repo = scan.repo
    BY <1>5, <1>8 DEF ProcessRepo, Baseline, Goto
  <2>4. InHand'
    BY <1>1, <2>1, <2>3 DEF InHand
  <2> QED
    BY <2>2, <2>4
<1>9. CASE \E tag \in Tags : GetLatestRelease(scan.repo, tag) /\ (Goto("next") \/ ProcessRepo(tag))
  BY <1>8, <1>9
<1>10. CASE RateLimited(scan.repo) /\ scan' = NoScan
  BY <1>6, <1>7, <1>10 DEF RateLimited
<1>11. CASE FetchFails(scan.repo) /\ (Goto("next") \/ scan' = NoScan)
  BY <1>6, <1>7, <1>11 DEF FetchFails, Request
<1>12. CASE Goto("next") /\ UNCHANGED githubVars
  BY <1>6, <1>7, <1>12 DEF githubVars
<1> QED
  BY <1>9, <1>10, <1>11, <1>12 DEF FetchRelease

LEMMA InOrderInit == Init => InOrder
BY DEF Init, GithubInit, ScannerInit, NoScan, InOrder, Ordered, InHand

LEMMA InOrderStep == Typing /\ InOrder /\ [Next]_vars => InOrder'
<1> SUFFICES ASSUME Typing, InOrder, [Next]_vars PROVE InOrder'
  OBVIOUS
<1>0. /\ scan \in [step : ScanSteps, todo : SUBSET Repos, seen : [Repos -> Tags],
                   repo : Repos \cup {NoRepo}, tag : Tags,
                   subs : SUBSET Subs, sent : SUBSET Subs, cancelled : BOOLEAN]
      /\ lastSeen \in [Repos -> Tags]
      /\ scan.step \in {"list", "publish"} => scan.repo \in Repos
  BY DEF Typing, TypeOK, ScannerTypeOK, AtWork
<1>1. CASE UNCHANGED githubVars /\ UNCHANGED lastSeen
            /\ (scan' = NoScan \/ scan'.step \notin {"list", "publish"}
                \/ (scan.step \in {"list", "publish"} /\ scan'.repo = scan.repo /\ scan'.tag = scan.tag))
  BY <1>1 DEF githubVars, NoScan, InOrder, Quiet, Ordered, InHand
<1>2. CASE StartScan \/ ScanNext \/ ServerCrash \/ StopServer \/ ExitServer
  BY <1>0, <1>1, <1>2 DEF StartScan, ScanNext, ServerCrash, StopServer, ExitServer, NoScan
<1>3. CASE FetchRelease
  BY <1>3, FetchInOrder
<1>4. CASE ListSubscribers \/ \E s \in Subs : PublishNews(s)
  BY <1>0, <1>1, <1>4 DEF ListSubscribers, PublishNews, Goto
<1>5. CASE UpdateLastSeenTag
  <2>1. scan.step = "publish" /\ scan'.step = "next" /\ UNCHANGED githubVars
    BY <1>0, <1>5 DEF UpdateLastSeenTag, Goto
  <2>2. UNCHANGED lastSeen \/ lastSeen' = [lastSeen EXCEPT ![scan.repo] = scan.tag]
    BY <1>5 DEF UpdateLastSeenTag, Advance
  <2> QED
    BY <1>0, <2>1, <2>2 DEF githubVars, InOrder, Quiet, Ordered, InHand
<1>6. CASE World
  BY <1>6, WorldInOrder
<1>7. CASE \E s \in Subs : Subscribe(s) \/ ConfirmSub(s) \/ DeleteSub(s)
  <2>1. UNCHANGED <<lastSeen, scan, latest, withdrawn, cached>>
    BY <1>7 DEF Subscribe, GetOrCreate, CheckRepo, CheckFails, Request, ConfirmSub, DeleteSub, githubVars
  <2>2. redisFaults \in Nat
    BY GithubAssumption DEF Typing, TypeOK, GithubTypeOK
  <2>3. redisFaults' = redisFaults \/ redisFaults' = redisFaults + 1
    BY <1>7 DEF Subscribe, CheckRepo, CheckFails, RedisFault, ConfirmSub, DeleteSub, githubVars
  <2> QED
    BY <2>1, <2>2, <2>3 DEF InOrder, Quiet, Ordered, InHand
<1>8. CASE NotifierNext /\ UNCHANGED <<scannerVars, githubVars>>
  BY <1>8 DEF scannerVars, githubVars, InOrder, Quiet, Ordered, InHand
<1>9. CASE UNCHANGED vars
  BY <1>9 DEF vars, scannerVars, githubVars, InOrder, Quiet, Ordered, InHand
<1> QED
  BY <1>2, <1>3, <1>4, <1>5, <1>6, <1>7, <1>8, <1>9 DEF Next, ScannerNext, Scan

LEMMA AlwaysInOrder == Spec => []InOrder
BY AlwaysTyped, InOrderInit, InOrderStep, PTL DEF Spec

GoesBackWithCause == \A p \in Repos : lastSeen'[p] < lastSeen[p] => redisFaults + withdrawn > 0

LEMMA TagsAdvance ==
    ASSUME Typing, InOrder, [Next]_vars
    PROVE  GoesBackWithCause
<1>1. /\ lastSeen \in [Repos -> Tags]
      /\ redisFaults \in Nat /\ withdrawn \in Nat
      /\ \A p \in Repos : lastSeen[p] \in Nat
  BY GithubAssumption DEF Typing, TypeOK, ScannerTypeOK, GithubTypeOK, Tags
<1>2. CASE UNCHANGED lastSeen
  BY <1>1, <1>2 DEF GoesBackWithCause
<1>3. CASE UpdateLastSeenTag
  <2>1. scan.step = "publish" /\ scan.repo \in Repos /\ scan.tag \in Nat
    BY <1>3, GithubAssumption DEF UpdateLastSeenTag, Typing, AtWork
  <2>2. UNCHANGED lastSeen \/ lastSeen' = [lastSeen EXCEPT ![scan.repo] = scan.tag]
    BY <1>3 DEF UpdateLastSeenTag, Advance
  <2>3. Quiet => lastSeen[scan.repo] <= scan.tag
    BY <2>1 DEF InOrder, InHand
  <2>4. ~Quiet => redisFaults + withdrawn > 0
    BY <1>1 DEF Quiet
  <2>5. ASSUME NEW p \in Repos, lastSeen'[p] < lastSeen[p] PROVE p = scan.repo /\ lastSeen'[p] = scan.tag
    BY <1>1, <2>1, <2>2, <2>5
  <2> QED
    BY <1>1, <2>1, <2>3, <2>4, <2>5 DEF GoesBackWithCause
<1>4. CASE ScannerNext /\ ~UpdateLastSeenTag
  BY <1>2, <1>4
     DEF ScannerNext, Scan, StartScan, ScanNext, FetchRelease, ListSubscribers, PublishNews,
         ServerCrash, StopServer, ExitServer, World, scannerVars, Subscribe, GetOrCreate, ConfirmSub, DeleteSub
<1>5. CASE NotifierNext /\ UNCHANGED <<scannerVars, githubVars>>
  BY <1>2, <1>5 DEF scannerVars
<1>6. CASE UNCHANGED vars
  BY <1>2, <1>6 DEF vars, scannerVars
<1> QED
  BY <1>3, <1>4, <1>5, <1>6 DEF Next

\* The scanner never takes an older release for a new one unless GitHub
\* withdrew one or Redis failed, however long its lists and entries lie about.
THEOREM NoOldNews == Spec => OldNewsNeedsCause
<1>1. Typing /\ InOrder /\ [Next]_vars => [GoesBackWithCause]_vars
  BY TagsAdvance
<1>2. Spec => [][GoesBackWithCause]_vars
  BY <1>1, AlwaysTyped, AlwaysInOrder, PTL DEF Spec
<1> QED
  BY <1>2 DEF GoesBackWithCause, OldNewsNeedsCause

-----------------------------------------------------------------------------
(* Loss.  A notification that was reached stays so, hence the unreached of  *)
(* those served are at most the publishes that failed.  In a scan that is   *)
(* cancelled every publish may fail, and last_seen_tag stays.               *)

\* What the goroutine has in hand is not lost with it: a notification whose
\* session is gone is in the queue again, one to be acked was delivered.
HandOver ==
    /\ \A m, n \in delivery.news : m = n
    /\ \A n \in delivery.news :
          /\ delivery.stale => deliveries[n] > 0
          /\ delivery.step = "ack" => inbox[n] > 0

Unreached == {s \in scan.sent : ~Reached(s, scan.tag)}

LossesPaid ==
    scan.step = "publish" /\ ~scan.cancelled =>
        /\ IsFiniteSet(scan.sent)
        /\ Cardinality(Unreached) <= serverFaults

Accounted == HandOver /\ LossesPaid

LEMMA ScannerKeepsQueue ==
    ASSUME Typing, ScannerNext
    PROVE  \A n \in News : deliveries[n] <= deliveries'[n]
<1>1. \A n \in News : deliveries[n] \in Nat
  BY DEF Typing, TypeOK, ScannerTypeOK
<1>2. UNCHANGED deliveries \/ \E n : Put(n)
  BY DEF ScannerNext, Scan, StartScan, ScanNext, FetchRelease, ListSubscribers, PublishNews,
         UpdateLastSeenTag, ServerCrash, StopServer, ExitServer, World, Subscribe, GetOrCreate, ConfirmSub, DeleteSub
<1>3. ASSUME NEW n, Put(n) PROVE \A m \in News : deliveries[m] <= deliveries'[m]
  <2>1. deliveries \in [News -> Nat]
    BY DEF Typing, TypeOK, ScannerTypeOK
  <2> QED
    BY <1>1, <1>3, <2>1 DEF Put
<1> QED
  BY <1>1, <1>2, <1>3

LEMMA HandOverInit == Init => HandOver
BY DEF Init, NoDelivery, HandOver

LEMMA HandOverStep == Typing /\ HandOver /\ [Next]_vars => HandOver'
<1> SUFFICES ASSUME Typing, HandOver, [Next]_vars PROVE HandOver'
  OBVIOUS
<1>0. /\ deliveries \in [News -> Nat] /\ inbox \in [News -> Nat]
      /\ delivery \in [step : {"idle", "send", "ack", "nack"}, news : SUBSET News, stale : BOOLEAN]
  BY DEF Typing, TypeOK, ScannerTypeOK
<1>1. CASE ScannerNext /\ UNCHANGED notifierVars
  <2>1. \A n \in delivery.news : n \in News /\ deliveries[n] <= deliveries'[n]
    BY <1>0, <1>1, ScannerKeepsQueue
  <2>2. \A n \in News : deliveries[n] \in Nat /\ (deliveries[n] <= deliveries'[n] /\ deliveries[n] > 0
                                                  => deliveries'[n] > 0)
    <3>1. deliveries' \in [News -> Nat]
      BY <1>1, ScannerStep DEF ScanTyping, ScannerTypeOK
    <3> QED
      BY <1>0, <3>1
  <2> QED
    BY <1>1, <2>1, <2>2 DEF notifierVars, HandOver
<1>2. ASSUME NEW n \in News, ReceiveNews(n) PROVE HandOver'
  BY <1>2 DEF ReceiveNews, HandOver
<1>3. ASSUME NEW n \in News, SendNews(n) PROVE HandOver'
  <2>1. delivery.news' = delivery.news /\ delivery.stale' = delivery.stale /\ UNCHANGED deliveries
    BY <1>0, <1>3 DEF SendNews
  <2>2. delivery.step' = "ack" => inbox' = [inbox EXCEPT ![n] = @ + 1]
    BY <1>0, <1>3 DEF SendNews, Delivers
  <2>3. \A m \in delivery.news : m = n
    BY <1>3 DEF SendNews, HandOver
  <2> QED
    BY <1>0, <2>1, <2>2, <2>3 DEF HandOver
<1>4. CASE SettleNews \/ NotifierCrash
  BY <1>4 DEF SettleNews, NotifierCrash, NoDelivery, HandOver
<1>5. CASE LoseSession
  <2>1. delivery.news' = delivery.news /\ delivery.step' = delivery.step /\ UNCHANGED inbox
    BY <1>0, <1>5 DEF LoseSession
  <2>2. \A m \in delivery.news : deliveries'[m] > 0
    BY <1>0, <1>5 DEF LoseSession, Requeued
  <2> QED
    BY <2>1, <2>2 DEF HandOver
<1>6. CASE UNCHANGED vars
  BY <1>6 DEF vars, notifierVars, HandOver
<1> QED
  BY <1>1, <1>2, <1>3, <1>4, <1>5, <1>6 DEF Next, NotifierNext, DeliveryConsumer

\* Whatever was reached stays reached.
LEMMA ReachedForGood ==
    ASSUME Typing, HandOver, [Next]_vars,
           NEW s \in Subs, NEW tag \in 1..MaxTag, Reached(s, tag)
    PROVE  Reached(s, tag)'
<1> DEFINE n == <<s, tag>>
<1>0. /\ n \in News
      /\ deliveries \in [News -> Nat] /\ inbox \in [News -> Nat]
      /\ delivery \in [step : {"idle", "send", "ack", "nack"}, news : SUBSET News, stale : BOOLEAN]
  BY DEF News, Typing, TypeOK, ScannerTypeOK
<1>h. deliveries[n] > 0 \/ n \in delivery.news \/ inbox[n] > 0 \/ n \in deadLetters
  BY DEF Reached
<1>p. Reached(s, tag)' <=> deliveries'[n] > 0 \/ n \in delivery'.news \/ inbox'[n] > 0 \/ n \in deadLetters'
  BY DEF Reached
<1> HIDE DEF n
<1>1. CASE ScannerNext /\ UNCHANGED notifierVars
  <2>1. deliveries'[n] \in Nat /\ deliveries[n] \in Nat
    BY <1>0, <1>1, ScannerStep DEF ScanTyping, ScannerTypeOK
  <2> QED
    BY <1>0, <1>1, <1>h, <1>p, <2>1, ScannerKeepsQueue DEF notifierVars
<1>2. ASSUME NEW m \in News, ReceiveNews(m) PROVE Reached(s, tag)'
  BY <1>0, <1>2, <1>h, <1>p DEF ReceiveNews, Typing, TypeOK
<1>3. ASSUME NEW m \in News, SendNews(m) PROVE Reached(s, tag)'
  BY <1>0, <1>3, <1>h, <1>p DEF SendNews, Delivers
<1>4. CASE SettleNews
  BY <1>0, <1>4, <1>h, <1>p DEF SettleNews, NoDelivery, HandOver
<1>5. CASE LoseSession
  BY <1>0, <1>5, <1>h, <1>p DEF LoseSession, Requeued
<1>6. CASE NotifierCrash
  BY <1>0, <1>6, <1>h, <1>p DEF NotifierCrash, Requeued, NoDelivery, HandOver
<1>7. CASE UNCHANGED vars
  BY <1>7, <1>h, <1>p DEF vars, notifierVars
<1> QED
  BY <1>1, <1>2, <1>3, <1>4, <1>5, <1>6, <1>7 DEF Next, NotifierNext, DeliveryConsumer

\* Faults are counted, never forgotten.
LEMMA FaultsGrow ==
    ASSUME Typing, [Next]_vars
    PROVE  serverFaults \in Nat /\ serverFaults' \in Nat /\ serverFaults <= serverFaults'
<1>1. serverFaults \in Nat
  BY FaultBoundsAssumption DEF Typing, TypeOK, FaultsTypeOK
<1>2. UNCHANGED faultVars \/ ServerFault \/ NotifierFault
  BY DEF Next, ScannerNext, Scan, StartScan, ScanNext, FetchRelease, ListSubscribers, PublishNews,
         UpdateLastSeenTag, ServerCrash, StopServer, ExitServer, World, Subscribe, GetOrCreate,
         ConfirmSub, DeleteSub, NotifierNext, DeliveryConsumer, ReceiveNews, SendNews, SettleNews,
         LoseSession, NotifierCrash, Works, Fails, NoFault, vars, faultVars
<1> QED
  BY <1>1, <1>2 DEF ServerFault, NotifierFault, faultVars

\* A step that leaves the list of those served alone leaves no more unreached.
LEMMA UnreachedShrinks ==
    ASSUME Typing, HandOver, LossesPaid, [Next]_vars, scan.step = "publish", ~scan.cancelled,
           scan'.sent = scan.sent, scan'.tag = scan.tag
    PROVE  LossesPaid'
<1>1. scan.sent \subseteq Subs /\ scan.tag \in 1..MaxTag
  BY DEF Typing, TypeOK, ScannerTypeOK, AtWork
<1>2. \A s \in scan.sent : ~Reached(s, scan.tag)' => ~Reached(s, scan.tag)
  BY <1>1, ReachedForGood
<1>3. Unreached' \subseteq Unreached
  BY <1>2 DEF Unreached, Reached
<1>4. IsFiniteSet(scan.sent) /\ Cardinality(Unreached) <= serverFaults
  BY DEF LossesPaid
<1>5. IsFiniteSet(Unreached)
  BY <1>4, FS_Subset DEF Unreached
<1>6. Cardinality(Unreached') <= Cardinality(Unreached)
      /\ Cardinality(Unreached') \in Nat /\ Cardinality(Unreached) \in Nat
  BY <1>3, <1>5, FS_Subset, FS_CardinalityType
<1>7. Cardinality(Unreached)' <= serverFaults'
  BY <1>4, <1>6, FaultsGrow
<1> QED
  BY <1>4, <1>7 DEF LossesPaid

LEMMA PublishPays ==
    ASSUME Typing, Typing', HandOver, LossesPaid, NEW q \in Subs, PublishNews(q), UNCHANGED notifierVars,
           ~scan.cancelled
    PROVE  LossesPaid'
<1>0. /\ scan.step = "publish" /\ scan'.step = "publish"
      /\ scan'.sent = scan.sent \cup {q} /\ scan'.tag = scan.tag
  BY DEF PublishNews, Typing, TypeOK, ScannerTypeOK
<1>1. [Next]_vars
  BY DEF Next, ScannerNext, Scan
<1>2. /\ scan.sent \subseteq Subs /\ scan.tag \in 1..MaxTag
      /\ IsFiniteSet(scan.sent) /\ Cardinality(Unreached) <= serverFaults
  BY <1>0 DEF Typing, TypeOK, ScannerTypeOK, AtWork, LossesPaid
<1>3. IsFiniteSet(scan'.sent)
  BY <1>0, <1>2, FS_AddElement
<1>4. IsFiniteSet(Unreached) /\ Cardinality(Unreached) \in Nat
  BY <1>2, FS_Subset, FS_CardinalityType DEF Unreached
<1>5. \A s \in scan.sent : ~Reached(s, scan.tag)' => ~Reached(s, scan.tag)
  BY <1>0, <1>1, <1>2, ReachedForGood
<1>6. Unreached' \subseteq Unreached \cup {q}
  BY <1>0, <1>5 DEF Unreached, Reached
<1>7. serverFaults \in Nat /\ serverFaults' \in Nat /\ serverFaults <= serverFaults'
  BY <1>1, FaultsGrow
<1>8. CASE Put(<<q, scan.tag>>)
  <2>1. <<q, scan.tag>> \in News
    BY <1>2 DEF News
  <2>2. deliveries'[<<q, scan.tag>>] > 0
    BY <1>8, <2>1 DEF Put, Typing, TypeOK, ScannerTypeOK
  <2>3. q \notin Unreached'
    BY <1>0, <2>2 DEF Unreached, Reached
  <2>4. Unreached' \subseteq Unreached
    BY <1>6, <2>3
  <2>5. Cardinality(Unreached') <= Cardinality(Unreached) /\ Cardinality(Unreached') \in Nat
    BY <1>4, <2>4, FS_Subset, FS_CardinalityType
  <2>6. Cardinality(Unreached)' <= serverFaults'
    BY <1>2, <1>4, <1>7, <2>5
  <2> QED
    BY <1>3, <2>6 DEF LossesPaid
<1>9. CASE ServerFault
  <2>1. serverFaults' = serverFaults + 1
    BY <1>9 DEF ServerFault
  <2>2. IsFiniteSet(Unreached \cup {q}) /\ Cardinality(Unreached \cup {q}) <= Cardinality(Unreached) + 1
    <3> DEFINE U == Unreached
    <3>1. IsFiniteSet(U) /\ Cardinality(U) \in Nat
      BY <1>4
    <3> HIDE DEF U
    <3>2. IsFiniteSet(U \cup {q}) /\ (Cardinality(U \cup {q}) = Cardinality(U)
                                      \/ Cardinality(U \cup {q}) = Cardinality(U) + 1)
      BY <3>1, FS_AddElement
    <3>3. IsFiniteSet(U \cup {q}) /\ Cardinality(U \cup {q}) <= Cardinality(U) + 1
      BY <3>1, <3>2
    <3> QED
      BY <3>3 DEF U
  <2>3. /\ Cardinality(Unreached') <= Cardinality(Unreached \cup {q})
        /\ Cardinality(Unreached') \in Nat
        /\ Cardinality(Unreached \cup {q}) \in Nat
    BY <1>6, <2>2, FS_Subset, FS_CardinalityType
  <2>4. Cardinality(Unreached)' <= serverFaults'
    BY <1>2, <1>4, <1>7, <2>1, <2>2, <2>3
  <2> QED
    BY <1>3, <2>4 DEF LossesPaid
<1> QED
  BY <1>8, <1>9 DEF PublishNews, Works, Fails

\* A loop that starts has served nobody.
LEMMA LoopStarts ==
    ASSUME FaultsTypeOK, FaultsTypeOK', scan'.sent = {}
    PROVE  LossesPaid'
<1>1. Unreached' = {}
  BY DEF Unreached
<1>2. Cardinality(Unreached)' = 0
  BY <1>1, FS_EmptySet
<1>3. IsFiniteSet(scan'.sent)
  BY FS_EmptySet
<1> QED
  BY <1>2, <1>3, FaultBoundsAssumption DEF LossesPaid, FaultsTypeOK

LEMMA LossesInit == Init => LossesPaid
BY DEF Init, ScannerInit, NoScan, LossesPaid

LEMMA LossesStep == Typing /\ Typing' /\ Accounted /\ [Next]_vars => LossesPaid'
<1> SUFFICES ASSUME Typing, Typing', HandOver, LossesPaid, [Next]_vars PROVE LossesPaid'
  BY DEF Accounted
<1>0. scan \in [step : ScanSteps, todo : SUBSET Repos, seen : [Repos -> Tags],
                repo : Repos \cup {NoRepo}, tag : Tags,
                subs : SUBSET Subs, sent : SUBSET Subs, cancelled : BOOLEAN]
  BY DEF Typing, TypeOK, ScannerTypeOK
<1>1. scan'.step # "publish" \/ scan'.cancelled => LossesPaid'
  BY DEF LossesPaid
<1>2. scan' = scan => LossesPaid'
  BY <1>1, UnreachedShrinks
<1>3. scan'.sent = {} => LossesPaid'
  BY LoopStarts DEF Typing, TypeOK
<1>4. ASSUME NEW step \in {"next", "fetch"}, Goto(step) PROVE LossesPaid'
  BY <1>0, <1>1, <1>4 DEF Goto
<1>5. CASE StartScan \/ ScanNext \/ ServerCrash \/ StopServer \/ ExitServer
  <2>1. NoScan.step = "idle"
    BY DEF NoScan
  <2>2. StartScan => scan'.step = "next"
    BY DEF StartScan, NoScan
  <2>3. ScanNext => scan'.step = "fetch" \/ scan' = NoScan
    BY <1>0 DEF ScanNext
  <2>4. StopServer => scan'.cancelled
    BY <1>0 DEF StopServer
  <2> QED
    BY <1>0, <1>1, <1>5, <2>1, <2>2, <2>3, <2>4 DEF ServerCrash, ExitServer
<1>6. CASE FetchRelease
  <2>1. ASSUME NEW tag, ProcessRepo(tag) PROVE LossesPaid'
    <3>1. Baseline(tag) => scan'.sent = {}
      BY <1>0 DEF Baseline
    <3>2. scan' = [scan EXCEPT !.step = "list", !.tag = tag] => scan'.step # "publish"
      BY <1>0
    <3> QED
      BY <1>1, <1>3, <1>4, <2>1, <3>1, <3>2 DEF ProcessRepo
  <2>2. Goto("next") \/ scan' = NoScan \/ \E tag : ProcessRepo(tag)
    BY <1>6 DEF FetchRelease
  <2>3. scan' = NoScan => scan'.step # "publish"
    BY DEF NoScan
  <2> QED
    BY <1>1, <1>4, <2>1, <2>2, <2>3
<1>7. CASE ListSubscribers
  <2>1. scan'.sent = {} \/ Goto("next")
    BY <1>0, <1>7 DEF ListSubscribers
  <2> QED
    BY <1>3, <1>4, <2>1
<1>8. ASSUME NEW q \in Subs, PublishNews(q), UNCHANGED notifierVars PROVE LossesPaid'
  <2>1. scan.cancelled => scan'.cancelled
    BY <1>0, <1>8 DEF PublishNews
  <2> QED
    BY <1>1, <1>8, <2>1, PublishPays
<1>9. CASE UpdateLastSeenTag
  BY <1>4, <1>9 DEF UpdateLastSeenTag
<1>10. CASE World \/ \E q \in Subs : Subscribe(q) \/ ConfirmSub(q) \/ DeleteSub(q)
  BY <1>2, <1>10 DEF World, scannerVars, Subscribe, GetOrCreate, ConfirmSub, DeleteSub
<1>11. CASE UNCHANGED scannerVars
  BY <1>2, <1>11 DEF scannerVars
<1> QED
  BY <1>5, <1>6, <1>7, <1>8, <1>9, <1>10, <1>11 DEF Next, ScannerNext, Scan, vars

LEMMA AlwaysAccounted == Spec => []Accounted
<1>1. Init => Accounted
  BY HandOverInit, LossesInit DEF Accounted
<1>2. Typing /\ Typing' /\ Accounted /\ [Next]_vars => Accounted'
  BY HandOverStep, LossesStep DEF Accounted
<1> QED
  BY <1>1, <1>2, AlwaysTyped, PTL DEF Spec

LossesCounted ==
    \A p \in Repos :
        lastSeen'[p] # lastSeen[p]
        => Cardinality({s \in scan.subs : ~Reached(s, scan.tag)}) <= serverFaults

LEMMA AdvanceCounted ==
    ASSUME Accounted, [Next]_vars
    PROVE  LossesCounted
<1>1. CASE UNCHANGED lastSeen
  BY <1>1 DEF LossesCounted
<1>2. CASE UpdateLastSeenTag
  <2>1. scan.step = "publish" /\ scan.sent = scan.subs
    BY <1>2 DEF UpdateLastSeenTag
  <2>2. CASE scan.cancelled
    BY <1>1, <1>2, <2>2 DEF UpdateLastSeenTag, Works
  <2>3. CASE ~scan.cancelled
    <3>1. {s \in scan.subs : ~Reached(s, scan.tag)} = Unreached
      BY <2>1 DEF Unreached
    <3>2. Cardinality(Unreached) <= serverFaults
      BY <2>1, <2>3 DEF Accounted, LossesPaid
    <3> QED
      BY <3>1, <3>2 DEF LossesCounted
  <2> QED
    BY <2>2, <2>3
<1>3. CASE ScannerNext /\ ~UpdateLastSeenTag
  BY <1>1, <1>3
     DEF ScannerNext, Scan, StartScan, ScanNext, FetchRelease, ListSubscribers, PublishNews,
         ServerCrash, StopServer, ExitServer, World, scannerVars, Subscribe, GetOrCreate, ConfirmSub, DeleteSub
<1>4. CASE UNCHANGED scannerVars
  BY <1>1, <1>4 DEF scannerVars
<1> QED
  BY <1>2, <1>3, <1>4 DEF Next, vars

\* When last_seen_tag moves on, the subscribers of the list whom the release
\* did not reach are no more than the faults of the server's side, however
\* crashes, sessions and sends went meanwhile.
THEOREM LossesAreFaults == Spec => LossBound
<1>1. Accounted /\ [Next]_vars => [LossesCounted]_vars
  BY AdvanceCounted
<1>2. Spec => [][LossesCounted]_vars
  BY <1>1, AlwaysAccounted, PTL DEF Spec
<1> QED
  BY <1>2 DEF LossesCounted, LossBound
=============================================================================

------------------------------ MODULE Scanner ------------------------------
(***************************************************************************)
(* The release scanner of cmd/server: one goroutine that looks for new     *)
(* releases of the repositories that have confirmed subscriptions,         *)
(* publishes one notification per subscriber and then advances             *)
(* last_seen_tag.  Users subscribe, confirm and unsubscribe meanwhile.     *)
(***************************************************************************)
EXTENDS GithubCache

CONSTANTS
    Subs,       \* subscriptions
    RepoOf,     \* the repository of each
    NoRepo

ASSUME RepoAssumption == RepoOf \in [Subs -> Repos] /\ NoRepo \notin Repos

VARIABLES
    lastSeen,   \* repositories.last_seen_tag; 0 stands for NULL
    subs,       \* row of table subscriptions
    scan,       \* the scanner: step, repositories left, last_seen_tag as listed,
                \* current repository and release, its subscribers, those served,
                \* and whether its ctx is done
    deliveries  \* notifications in queue notifier.deliveries

scannerVars == <<lastSeen, subs, scan>>

SubRows == {"none", "unconfirmed", "confirmed", "deleted"}
ScanSteps == {"idle", "next", "fetch", "list", "publish"}
News == Subs \X (1..MaxTag)

NoScan == [step |-> "idle", todo |-> {}, seen |-> [p \in Repos |-> 0], repo |-> NoRepo,
           tag |-> 0, subs |-> {}, sent |-> {}, cancelled |-> FALSE]

ScannerInit ==
    /\ lastSeen = [p \in Repos |-> 0]
    /\ subs = [s \in Subs |-> "none"]
    /\ scan = NoScan
    /\ deliveries = [n \in News |-> 0]

ScannerTypeOK ==
    /\ lastSeen \in [Repos -> Tags]
    /\ subs \in [Subs -> SubRows]
    /\ scan \in [step : ScanSteps, todo : SUBSET Repos, seen : [Repos -> Tags],
                 repo : Repos \cup {NoRepo}, tag : Tags,
                 subs : SUBSET Subs, sent : SUBSET Subs, cancelled : BOOLEAN]
    /\ scan.sent \subseteq scan.subs
    /\ deliveries \in [News -> Nat]

-----------------------------------------------------------------------------
(* Queries. *)

\* Mutant: the query has lost its condition on column confirmed.
GetByRepoID(p) == {s \in Subs : RepoOf[s] = p /\ subs[s] \notin {"none", "deleted"}}

\* Mutant: users who unsubscribed are only flagged, and listed all the same.
GetFlaggedByRepoID(p) == {s \in Subs : RepoOf[s] = p /\ subs[s] \notin {"none", "unconfirmed"}}

GetConfirmedByRepoID(p) == {s \in Subs : RepoOf[s] = p /\ subs[s] = "confirmed"}

GetAllWithConfirmedSubscriptions == {p \in Repos : GetConfirmedByRepoID(p) # {}}

\* Once ctx is done, every request, statement and publish fails of itself.
Works == ~scan.cancelled /\ NoFault
Fails == IF scan.cancelled THEN NoFault ELSE ServerFault

-----------------------------------------------------------------------------
(* Scanner.scan.  Without a repository to check, or when the list cannot   *)
(* be read, a scan does nothing.                                           *)

StartScan ==
    /\ scan.step = "idle"
    /\ GetAllWithConfirmedSubscriptions # {}
    /\ scan' = [NoScan EXCEPT !.step = "next", !.seen = lastSeen,
                              !.todo = GetAllWithConfirmedSubscriptions]
    /\ UNCHANGED <<lastSeen, subs, deliveries, githubVars, faultVars>>

ScanNext ==
    /\ scan.step = "next"
    /\ \/ (scan.todo = {} \/ scan.cancelled) /\ scan' = NoScan
       \/ ~scan.cancelled /\ \E p \in scan.todo :
              scan' = [scan EXCEPT !.step = "fetch", !.todo = @ \ {p}, !.repo = p]
    /\ UNCHANGED <<lastSeen, subs, deliveries, githubVars, faultVars>>

Goto(step) == scan' = [scan EXCEPT !.step = step]

\* The first release seen of a repository becomes its baseline: nobody is told.
Baseline(tag) == scan' = [scan EXCEPT !.step = "publish", !.tag = tag, !.subs = {}, !.sent = {}]

\* Mutant: the release is announced whatever last_seen_tag says.
ProcessAlways(tag) == scan' = [scan EXCEPT !.step = "list", !.tag = tag]

\* Scanner.processRepo: the tags are compared for equality only.
ProcessRepo(tag) ==
    \/ scan.seen[scan.repo] = 0 /\ Baseline(tag)
    \/ scan.seen[scan.repo] = tag /\ Goto("next")
    \/ scan.seen[scan.repo] \notin {0, tag} /\ scan' = [scan EXCEPT !.step = "list", !.tag = tag]

\* Mutant: an error that is not handled leaves an empty release.
FetchIgnoresError ==
    /\ scan.step = "fetch"
    /\ \/ /\ \E tag \in Tags :
                 /\ GetLatestRelease(scan.repo, tag)
                 /\ IF tag = 0 THEN Goto("next") ELSE ProcessRepo(tag)
          /\ Works
       \/ RateLimited(scan.repo) /\ scan' = NoScan /\ Works
       \/ FetchFails(scan.repo) /\ (ProcessRepo(0) \/ scan' = NoScan) /\ ServerFault
       \/ scan.cancelled /\ Goto("next") /\ NoFault /\ UNCHANGED githubVars
    /\ UNCHANGED <<lastSeen, subs, deliveries>>

\* No release yet, or an error: on to the next repository.  The rate limit
\* ends the scan; so does a 429 of a secondary limit, with requests left,
\* which is counted as a fault.
FetchRelease ==
    /\ scan.step = "fetch"
    /\ \/ /\ \E tag \in Tags :
                 /\ GetLatestRelease(scan.repo, tag)
                 /\ IF tag = 0 THEN Goto("next") ELSE ProcessRepo(tag)
          /\ Works
       \/ RateLimited(scan.repo) /\ scan' = NoScan /\ Works
       \/ FetchFails(scan.repo) /\ (Goto("next") \/ scan' = NoScan) /\ ServerFault
       \/ scan.cancelled /\ Goto("next") /\ NoFault /\ UNCHANGED githubVars
    /\ UNCHANGED <<lastSeen, subs, deliveries>>

ListSubscribers ==
    /\ scan.step = "list"
    /\ \/ /\ Works
          /\ scan' = [scan EXCEPT !.step = "publish", !.sent = {},
                                  !.subs = GetConfirmedByRepoID(scan.repo)]
       \/ Fails /\ Goto("next")
    /\ UNCHANGED <<lastSeen, subs, deliveries, githubVars>>

Put(n) == deliveries' = [deliveries EXCEPT ![n] = @ + 1]

\* A publish that fails is logged; it may have been enqueued all the same.
PublishNews(s) ==
    /\ scan.step = "publish"
    /\ s \in scan.subs \ scan.sent
    /\ \/ Works /\ Put(<<s, scan.tag>>)
       \/ Fails /\ (Put(<<s, scan.tag>>) \/ UNCHANGED deliveries)
    /\ scan' = [scan EXCEPT !.sent = @ \cup {s}]
    /\ UNCHANGED <<lastSeen, subs, githubVars>>

Advance == lastSeen' = [lastSeen EXCEPT ![scan.repo] = scan.tag]

\* Mutant: the tag is advanced though ctx is done.
UpdateLastSeenTagAnyway ==
    /\ scan.step = "publish"
    /\ scan.sent = scan.subs
    /\ \/ NoFault /\ Advance
       \/ ServerFault /\ (Advance \/ UNCHANGED lastSeen)
    /\ Goto("next")
    /\ UNCHANGED <<subs, deliveries, githubVars>>

\* After the loop, whatever became of its publishes; the first tag of a
\* repository needs no loop.
UpdateLastSeenTag ==
    /\ scan.step = "publish"
    /\ scan.sent = scan.subs
    /\ \/ Works /\ Advance
       \/ ~scan.cancelled /\ ServerFault /\ Advance
       \/ Fails /\ UNCHANGED lastSeen
    /\ Goto("next")
    /\ UNCHANGED <<subs, deliveries, githubVars>>

Scan ==
    \/ StartScan \/ ScanNext \/ FetchRelease \/ ListSubscribers
    \/ \E s \in Subs : PublishNews(s)
    \/ UpdateLastSeenTag

\* The process dies and is restarted: the scan starts over.
ServerCrash ==
    /\ scan.step # "idle"
    /\ ServerFault
    /\ scan' = NoScan
    /\ UNCHANGED <<lastSeen, subs, deliveries, githubVars>>

\* A shutdown in the middle of a scan: ctx is cancelled.  It is counted, so
\* that scans are not cut short for ever.
StopServer ==
    /\ scan.step # "idle" /\ ~scan.cancelled
    /\ ServerFault
    /\ scan' = [scan EXCEPT !.cancelled = TRUE]
    /\ UNCHANGED <<lastSeen, subs, deliveries, githubVars>>

\* main waits for other goroutines and not for the scanner: it returns at any
\* point of what is left of the scan.
ExitServer ==
    /\ scan.cancelled
    /\ scan' = NoScan
    /\ UNCHANGED <<lastSeen, subs, deliveries, githubVars, faultVars>>

-----------------------------------------------------------------------------
(* The subscriptions meanwhile. *)

\* The upsert gives back the row of the repository and leaves its tag alone.
GetOrCreate == UNCHANGED lastSeen

\* The way of a subscribe request to its row; the saga that begins there is in
\* SubscribeSaga.
Subscribe(s) ==
    /\ subs[s] = "none"
    /\ \/ /\ CheckRepo(RepoOf[s]) /\ NoFault
          /\ subs' = [subs EXCEPT ![s] = "unconfirmed"]
       \/ CheckFails(RepoOf[s]) /\ ServerFault /\ UNCHANGED subs
    /\ GetOrCreate
    /\ UNCHANGED <<scan, deliveries>>

ConfirmSub(s) ==
    /\ subs[s] = "unconfirmed"
    /\ subs' = [subs EXCEPT ![s] = "confirmed"]
    /\ UNCHANGED <<lastSeen, scan, deliveries, githubVars, faultVars>>

\* The user unsubscribes, or a saga is compensated.
DeleteSub(s) ==
    /\ subs[s] \in {"unconfirmed", "confirmed"}
    /\ subs' = [subs EXCEPT ![s] = "deleted"]
    /\ UNCHANGED <<lastSeen, scan, deliveries, githubVars, faultVars>>

World ==
    /\ \/ RenewQuota
       \/ \E p \in Repos : PublishRelease(p) \/ WithdrawRelease(p) \/ Expire(p) \/ ExpireCheck(p)
    /\ UNCHANGED <<scannerVars, deliveries, faultVars>>

ScannerNext ==
    \/ Scan \/ ServerCrash \/ StopServer \/ ExitServer \/ World
    \/ \E s \in Subs : Subscribe(s) \/ ConfirmSub(s) \/ DeleteSub(s)
=============================================================================

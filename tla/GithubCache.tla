---------------------------- MODULE GithubCache ----------------------------
(***************************************************************************)
(* What the server learns from GitHub: from Redis while an entry lasts,    *)
(* else from the GitHub API while the rate limit allows.  The scanner asks *)
(* for the latest release of a repository, a subscribe request whether the *)
(* repository exists; both draw on the same limit.                         *)
(*                                                                         *)
(* Releases are numbered in the order of their publication; 0 stands for   *)
(* no release (GitHub's 404, the cache's "notfound").  All of Repos exist: *)
(* a request for any other name is refused and leaves nothing behind.      *)
(***************************************************************************)
EXTENDS Faults

CONSTANTS
    Repos,
    MaxTag,             \* bound on the releases of a repository
    Quota,              \* GitHub requests per rate-limit window
    MaxRedisFaults,     \* bound on the faults of Redis
    MaxWithdrawn        \* bound on the releases withdrawn

ASSUME GithubAssumption ==
    MaxTag \in Nat /\ Quota \in Nat /\ MaxRedisFaults \in Nat /\ MaxWithdrawn \in Nat

VARIABLES
    latest,         \* GitHub: the latest release, by repository
    withdrawn,      \* GitHub: the number of releases withdrawn
    quota,          \* GitHub: requests left in this window
    cached,         \* Redis: what is stored, by repository, at most one release
    checked,        \* Redis: the repositories stored as existing
    redisFaults

githubVars == <<latest, withdrawn, quota, cached, checked, redisFaults>>

Tags == 0..MaxTag

GithubInit ==
    /\ latest = [p \in Repos |-> 0]
    /\ withdrawn = 0
    /\ quota = Quota
    /\ cached = [p \in Repos |-> {}]
    /\ checked = {}
    /\ redisFaults = 0

GithubTypeOK ==
    /\ latest \in [Repos -> Tags]
    /\ withdrawn \in 0..MaxWithdrawn
    /\ quota \in 0..Quota
    /\ cached \in [Repos -> {{}} \cup {{t} : t \in Tags}]
    /\ checked \subseteq Repos
    /\ redisFaults \in 0..MaxRedisFaults

RedisFault ==
    /\ redisFaults < MaxRedisFaults
    /\ redisFaults' = redisFaults + 1

-----------------------------------------------------------------------------
(* The world. *)

PublishRelease(p) ==
    /\ latest[p] < MaxTag
    /\ latest' = [latest EXCEPT ![p] = @ + 1]
    /\ UNCHANGED <<withdrawn, quota, cached, checked, redisFaults>>

\* The owner deletes the latest release, or makes it a draft: the one before
\* is the latest again.
WithdrawRelease(p) ==
    /\ latest[p] > 0
    /\ withdrawn < MaxWithdrawn
    /\ latest' = [latest EXCEPT ![p] = @ - 1]
    /\ withdrawn' = withdrawn + 1
    /\ UNCHANGED <<quota, cached, checked, redisFaults>>

RenewQuota ==
    /\ quota < Quota
    /\ quota' = Quota
    /\ UNCHANGED <<latest, withdrawn, cached, checked, redisFaults>>

\* Mutant: entries are stored without a TTL.
NeverExpire(p) == FALSE /\ UNCHANGED githubVars

\* The TTL of an entry passes.  (Without Redis no entry lasts at all.)
Expire(p) ==
    /\ cached[p] # {}
    /\ cached' = [cached EXCEPT ![p] = {}]
    /\ UNCHANGED <<latest, withdrawn, quota, checked, redisFaults>>

ExpireCheck(p) ==
    /\ p \in checked
    /\ checked' = checked \ {p}
    /\ UNCHANGED <<latest, withdrawn, quota, cached, redisFaults>>

-----------------------------------------------------------------------------
(* CachedReleaseFetcher.GetLatestRelease over ReleaseFetcherClient.  When  *)
(* Redis fails, the lookup misses, the store is lost, or both.             *)

CacheHit(p, tag) ==
    /\ tag \in cached[p]
    /\ UNCHANGED githubVars

Missed(p) ==
    \/ cached[p] = {} /\ UNCHANGED redisFaults
    \/ RedisFault

Request == quota > 0 /\ quota' = quota - 1 /\ UNCHANGED <<latest, withdrawn>>

Fetched(p, tag) ==
    /\ Request /\ UNCHANGED checked
    /\ tag = latest[p]
    /\ \/ /\ cached[p] = {} /\ UNCHANGED redisFaults
          /\ cached' = [cached EXCEPT ![p] = {tag}]
       \/ RedisFault /\ cached' \in {cached, [cached EXCEPT ![p] = {tag}]}

GetLatestRelease(p, tag) == CacheHit(p, tag) \/ Fetched(p, tag)

\* ErrRateLimit with the window's requests used up: nothing is cached.  (A
\* secondary limit answers so with requests left: see FetchFails.)
RateLimited(p) ==
    /\ quota = 0
    /\ Missed(p)
    /\ UNCHANGED <<latest, withdrawn, quota, cached, checked>>

\* Any other error of the request, which may not have reached GitHub, and the
\* ErrRateLimit of a secondary limit.
FetchFails(p) ==
    /\ Missed(p)
    /\ Request \/ UNCHANGED <<latest, withdrawn, quota>>
    /\ UNCHANGED <<cached, checked>>

-----------------------------------------------------------------------------
(* CachedRepoChecker.CheckRepo over RepoCheckerClient. *)

CheckRepo(p) ==
    \/ p \in checked /\ UNCHANGED githubVars
    \/ /\ Request /\ UNCHANGED cached
       /\ \/ p \notin checked /\ UNCHANGED redisFaults /\ checked' = checked \cup {p}
          \/ RedisFault /\ checked' \in {checked, checked \cup {p}}

\* A request of the limit is gone and the subscriber is told to try again.
CheckFails(p) ==
    /\ Request /\ UNCHANGED <<cached, checked>>
    /\ IF p \in checked THEN RedisFault ELSE UNCHANGED redisFaults
=============================================================================

--------------------------- MODULE CredentialCache --------------------------
(***************************************************************************)
(* packages/http-provider: the credential cache of an auth strategy        *)
(* (TokenExchangeStrategy, JwtSelfSignedStrategy) shared by concurrent     *)
(* requests, and the interceptors HttpProviderFactory puts around each     *)
(* request: credentials first, and on a 401 one invalidation and replay.   *)
(*                                                                         *)
(* Between an acquisition's end, its then and its finally other callbacks  *)
(* may run, as they may before a waiting request continues.  A credential  *)
(* is named by the acquisition it came from.  What axios does with a       *)
(* failure in a request interceptor is part of the model: the failure      *)
(* passes through the response interceptors of the same request.           *)
(***************************************************************************)
EXTENDS Naturals

CONSTANTS
    Requests,     \* the requests, each made at most once
    MaxFetches,   \* bound: acquisitions there are names for
    Lifetime,     \* config.claims.exp
    Buffer,       \* EXPIRY_BUFFER_SECONDS
    MaxTime,      \* bound: the clock
    Modes         \* the strategies and environments considered

\* callers:  the requests that are made
\* fetches:  bound: acquisitions in one behaviour
\* expires:  JwtSelfSignedStrategy; its tokens expire
\* refusals: the token endpoint of TokenExchangeStrategy may answer 401
Mode == [callers : SUBSET Requests, fetches : 0 .. MaxFetches, expires : BOOLEAN,
         refusals : BOOLEAN]

ASSUME CredentialAssumption ==
    /\ MaxFetches \in Nat
    /\ Lifetime \in Nat \ {0}
    /\ Buffer \in Nat
    /\ MaxTime \in Nat
    /\ Modes \subseteq {m \in Mode : ~(m.expires /\ m.refusals)}

VARIABLES
    mode,           \* the member of Modes this behaviour lives in
    now,            \* Date.now()
    cached,         \* cachedCredentials / cachedToken: an acquisition, 0 when undefined
    expiresAt,      \* expiresAt of the cached token
    inFlight,       \* inFlightCredentials / inFlightToken: an acquisition, 0 when undefined
    inFlightEpoch,  \* inFlightEpoch, 0 when undefined
    cacheEpoch,     \* cacheEpoch, counted from 1
    fetches,        \* acquisitions started so far
    phase,          \* phase[f]: where acquisition f is
    outcome,        \* outcome[f]: how it ended
    epoch,          \* epoch[f]: its requestEpoch
    issued,         \* issued[f]: when its token was signed
    replayed,       \* replayed[f]: _retried is set on the config of its token request
    rpc,            \* rpc[r]: the await request r is at, or its outcome
    source,         \* source[r]: the acquisition r waits for or took its credential from
    own,            \* own[r]: r sends what its caller asked for (not a token request)
    retried,        \* retried[r]: _retried is set on the config of r
    since,          \* since[r]: history, the epoch r's last 401 opened
    replays         \* replays[r]: history, how often r was replayed

cacheVars == <<cached, expiresAt, inFlight, inFlightEpoch, cacheEpoch>>
fetchVars == <<fetches, phase, outcome, epoch, issued>>
requestVars == <<rpc, source, own, retried, replayed, since, replays>>
vars == <<mode, now, cacheVars, fetchVars, requestVars>>

Fetch == 1 .. MaxFetches
Settled == {"ok", "failed"}

TypeOK ==
    /\ mode \in Modes
    /\ now \in 0 .. MaxTime
    /\ cached \in Fetch \cup {0} /\ inFlight \in Fetch \cup {0}
    /\ expiresAt \in Nat /\ inFlightEpoch \in Nat /\ cacheEpoch \in Nat \ {0}
    /\ fetches \in 0 .. MaxFetches
    /\ inFlight = 0 <=> inFlightEpoch = 0
    /\ phase \in [Fetch -> {"unused", "running", "ended", "stored", "settled"}]
    /\ \A f \in Fetch : phase[f] = "unused" <=> f > fetches
    /\ outcome \in [Fetch -> {"none", "token", "refused", "error"}]
    /\ epoch \in [Fetch -> Nat]
    /\ issued \in [Fetch -> 0 .. MaxTime]
    /\ replayed \in [Fetch -> BOOLEAN]
    /\ rpc \in [Requests -> {"new", "replaying", "waiting", "sent"} \cup Settled]
    /\ source \in [Requests -> Fetch \cup {0}]
    /\ own \in [Requests -> BOOLEAN]
    /\ retried \in [Requests -> BOOLEAN]
    /\ since \in [Requests -> Nat]
    /\ replays \in [Requests -> Nat]

Init ==
    /\ mode \in Modes
    /\ now = 0
    /\ cached = 0 /\ expiresAt = 0 /\ inFlight = 0 /\ inFlightEpoch = 0 /\ cacheEpoch = 1
    /\ fetches = 0
    /\ phase = [f \in Fetch |-> "unused"]
    /\ outcome = [f \in Fetch |-> "none"]
    /\ epoch = [f \in Fetch |-> 0]
    /\ issued = [f \in Fetch |-> 0]
    /\ replayed = [f \in Fetch |-> FALSE]
    /\ rpc = [r \in Requests |-> "new"]
    /\ source = [r \in Requests |-> 0]
    /\ own = [r \in Requests |-> TRUE]
    /\ retried = [r \in Requests |-> FALSE]
    /\ since = [r \in Requests |-> 0]
    /\ replays = [r \in Requests |-> 0]

-----------------------------------------------------------------------------
(* getCredentials, up to its await. *)

Goto(r, label) == rpc' = [rpc EXCEPT ![r] = label]
TakeFrom(r, f) == source' = [source EXCEPT ![r] = f]

\* The request interceptor runs: for the caller's request, or for a replay.
Asking(r) == r \in mode.callers /\ rpc[r] \in {"new", "replaying"}

\* The request is over; what was kept for it is dropped.
End(r, result) ==
    /\ Goto(r, result)
    /\ TakeFrom(r, 0)
    /\ own' = [own EXCEPT ![r] = TRUE]
    /\ retried' = [retried EXCEPT ![r] = FALSE]
    /\ since' = [since EXCEPT ![r] = 0]
    /\ replays' = [replays EXCEPT ![r] = 0]
    /\ UNCHANGED replayed

\* The cached credential may still be used.
Usable == cached # 0 /\ (mode.expires => now + Buffer < expiresAt)

UseCached(r) ==
    /\ Asking(r)
    /\ Usable
    /\ TakeFrom(r, cached)
    /\ Goto(r, "sent")
    /\ UNCHANGED <<mode, now, cacheVars, fetchVars, own, retried, replayed, since, replays>>

\* Mutant of Joinable: any acquisition in flight will do.
JoinableAny == inFlight # 0

\* There is an acquisition in flight, started in the current epoch.
Joinable == inFlight # 0 /\ inFlightEpoch = cacheEpoch

Join(r) ==
    /\ Asking(r)
    /\ ~Usable
    /\ Joinable
    /\ TakeFrom(r, inFlight)
    /\ Goto(r, "waiting")
    /\ UNCHANGED <<mode, now, cacheVars, fetchVars, own, retried, replayed, since, replays>>

StartFetch(r) ==
    LET f == fetches + 1 IN
    /\ Asking(r)
    /\ ~Usable
    /\ ~Joinable
    /\ fetches < mode.fetches
    /\ fetches' = f
    /\ phase' = [phase EXCEPT ![f] = "running"]
    /\ epoch' = [epoch EXCEPT ![f] = cacheEpoch]
    /\ inFlight' = f
    /\ inFlightEpoch' = cacheEpoch
    /\ TakeFrom(r, f)
    /\ Goto(r, "waiting")
    /\ UNCHANGED <<mode, now, cached, expiresAt, cacheEpoch, outcome, issued, own, retried,
                   replayed, since, replays>>

-----------------------------------------------------------------------------
(* The acquisition. *)

\* The token endpoint answers, or the token is signed; either may fail.
FetchEnds(f) ==
    /\ phase[f] = "running"
    /\ phase' = [phase EXCEPT ![f] = "ended"]
    /\ \E o \in {"token", "error"} \cup IF mode.refusals THEN {"refused"} ELSE {} :
          outcome' = [outcome EXCEPT ![f] = o]
    /\ issued' = [issued EXCEPT ![f] = now]
    /\ UNCHANGED <<mode, now, cacheVars, fetches, epoch, requestVars>>

\* Mutant of ThenStores: an acquisition of an older epoch is dropped, waiters and all.
ThenDropsStale(f) ==
    /\ phase[f] = "ended" /\ outcome[f] = "token"
    /\ cacheEpoch = epoch[f]
    /\ phase' = [phase EXCEPT ![f] = "stored"]
    /\ cached' = f /\ expiresAt' = now + Lifetime
    /\ UNCHANGED <<mode, now, inFlight, inFlightEpoch, cacheEpoch, fetches, outcome, epoch,
                   issued, requestVars>>

\* then: cache the credential, unless the cache was invalidated since it was asked for.
ThenStores(f) ==
    /\ phase[f] = "ended" /\ outcome[f] = "token"
    /\ phase' = [phase EXCEPT ![f] = "stored"]
    /\ IF cacheEpoch = epoch[f]
       THEN cached' = f /\ expiresAt' = now + Lifetime
       ELSE UNCHANGED <<cached, expiresAt>>
    /\ UNCHANGED <<mode, now, inFlight, inFlightEpoch, cacheEpoch, fetches, outcome, epoch,
                   issued, requestVars>>

Finalizable(f) == phase[f] = "stored" \/ (phase[f] = "ended" /\ outcome[f] # "token")

\* Mutant of FinallyClears: only a success clears (then instead of finally).
FinallyClearsOnSuccess(f) ==
    /\ Finalizable(f)
    /\ phase' = [phase EXCEPT ![f] = "settled"]
    /\ IF inFlightEpoch = epoch[f] /\ outcome[f] = "token"
       THEN inFlight' = 0 /\ inFlightEpoch' = 0
       ELSE UNCHANGED <<inFlight, inFlightEpoch>>
    /\ UNCHANGED <<mode, now, cached, expiresAt, cacheEpoch, fetches, outcome, epoch, issued,
                   requestVars>>

\* finally: no longer in flight, unless a newer one took its place.
FinallyClears(f) ==
    /\ Finalizable(f)
    /\ phase' = [phase EXCEPT ![f] = "settled"]
    /\ IF inFlightEpoch = epoch[f]
       THEN inFlight' = 0 /\ inFlightEpoch' = 0
       ELSE UNCHANGED <<inFlight, inFlightEpoch>>
    /\ UNCHANGED <<mode, now, cached, expiresAt, cacheEpoch, fetches, outcome, epoch, issued,
                   requestVars>>

-----------------------------------------------------------------------------
(* The interceptors. *)

Arrived(r, o) == rpc[r] = "waiting" /\ phase[source[r]] = "settled" /\ outcome[source[r]] = o

\* The credential is put on the request, and the request goes out.
CredentialsArrive(r) ==
    /\ Arrived(r, "token")
    /\ Goto(r, "sent")
    /\ UNCHANGED <<mode, now, cacheVars, fetchVars, source, own, retried, replayed, since,
                   replays>>

\* invalidate(), then instance.request(axiosError.config).
InvalidateAndReplay(r) ==
    /\ cacheEpoch' = cacheEpoch + 1
    /\ cached' = 0 /\ expiresAt' = 0
    /\ since' = [since EXCEPT ![r] = cacheEpoch + 1]
    /\ replays' = [replays EXCEPT ![r] = @ + 1]
    /\ Goto(r, "replaying")
    /\ TakeFrom(r, 0)
    /\ UNCHANGED <<mode, now, inFlight, inFlightEpoch, fetchVars>>

\* The acquisition failed without a 401: the request fails with it.
CredentialsFail(r) ==
    /\ \/ Arrived(r, "error")
       \/ Arrived(r, "refused") /\ replayed[source[r]]
    /\ End(r, "failed")
    /\ UNCHANGED <<mode, now, cacheVars, fetchVars>>

\* The token endpoint's 401 reaches the response interceptor of the request that waited:
\* axiosError.config is the token request's, and it is the one replayed.
CredentialsRefused(r) ==
    /\ Arrived(r, "refused")
    /\ ~replayed[source[r]]
    /\ replayed' = [replayed EXCEPT ![source[r]] = TRUE]
    /\ own' = [own EXCEPT ![r] = FALSE]
    /\ InvalidateAndReplay(r)
    /\ UNCHANGED retried

\* The upstream answers with success, or fails other than with a 401.
Answered(r) ==
    /\ rpc[r] = "sent"
    /\ \E s \in Settled : End(r, s)
    /\ UNCHANGED <<mode, now, cacheVars, fetchVars>>

Retriable(r) == own[r] /\ ~retried[r]

\* The upstream answers 401: the first time the request is replayed.
Unauthorized(r) ==
    /\ rpc[r] = "sent"
    /\ IF Retriable(r)
       THEN /\ retried' = [retried EXCEPT ![r] = TRUE]
            /\ InvalidateAndReplay(r)
            /\ UNCHANGED <<own, replayed>>
       ELSE End(r, "failed") /\ UNCHANGED <<mode, now, cacheVars, fetchVars>>

\* Time passes.  A signed token is stored within Buffer of its signing.
Tick ==
    /\ mode.expires
    /\ now < MaxTime
    /\ \A f \in Fetch : phase[f] = "ended" => now < issued[f] + Buffer
    /\ now' = now + 1
    /\ UNCHANGED <<mode, cacheVars, fetchVars, requestVars>>

-----------------------------------------------------------------------------
RequestStep(r) ==
    \/ UseCached(r) \/ Join(r) \/ StartFetch(r)
    \/ CredentialsArrive(r) \/ CredentialsFail(r) \/ CredentialsRefused(r)
    \/ Answered(r) \/ Unauthorized(r)

FetchStep(f) == FetchEnds(f) \/ ThenStores(f) \/ FinallyClears(f)

Next ==
    \/ \E r \in Requests : RequestStep(r)
    \/ \E f \in Fetch : FetchStep(f)
    \/ Tick

Spec == Init /\ [][Next]_vars

\* Settled promises continue, and every HTTP exchange ends: by an answer or by the
\* provider's resilience timeout, which covers the token request too.
Fairness ==
    /\ \A r \in Requests : WF_vars(rpc[r] # "new" /\ RequestStep(r))
    /\ \A f \in Fetch : WF_vars(FetchStep(f))

FairSpec == Spec /\ Fairness

-----------------------------------------------------------------------------
(* Properties. *)

\* "Stale in-flight completions cannot overwrite newer refresh cycles": what is cached was
\* asked for in the current epoch, and is the only acquisition of that epoch that could be.
CacheIsCurrent ==
    cached # 0 => epoch[cached] = cacheEpoch /\ phase[cached] \in {"stored", "settled"}

\* "Concurrent calls share one in-flight refresh": within one epoch at most one acquisition
\* is on its way, however invalidations and late endings interleave.
SingleFlight ==
    \A f, g \in Fetch :
        /\ phase[f] \in {"running", "ended"} /\ phase[g] \in {"running", "ended"}
        /\ epoch[f] = epoch[g]
        => f = g

\* A replay never goes out with a credential asked for before the 401 that caused it: not
\* from the cache, and not from an acquisition another request had in flight at the time.
ReplayIsFresh ==
    \A r \in Requests : rpc[r] \in {"waiting", "sent"} => epoch[source[r]] >= since[r]

\* What the epochs are for: the cache, the acquisitions and the replays are those of now.
CredentialsSound == CacheIsCurrent /\ SingleFlight /\ ReplayIsFresh

\* A request does not join an acquisition that is over: its failure is not handed on to
\* later requests, which try again.
JoinsOnlyOpen ==
    [][\A r \in Requests : Asking(r) /\ rpc'[r] = "waiting"
          => phase[source'[r]] # "settled"]_vars

\* A token taken from the cache has not expired, although the cache counts its life from the
\* moment it was stored and not from when it was signed.
NeverExpired ==
    [][\A r \in Requests : mode.expires /\ Asking(r) /\ rpc'[r] = "sent"
          => now < issued[source'[r]] + Lifetime]_vars

\* What a request uses is alive: an acquisition under way, or a token before its end.
UsedInTime == JoinsOnlyOpen /\ NeverExpired

\* Every request ends, with at most one replay, unless the token endpoint itself says 401.
RequestSettles ==
    ~mode.refusals => \A r \in Requests : rpc[r] # "new" ~> rpc[r] \in Settled

\* "The automatic single retry on a 401": no request is replayed twice.
SingleRetry == \A r \in Requests : replays[r] <= 1
=============================================================================

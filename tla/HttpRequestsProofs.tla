------------------------- MODULE HttpRequestsProofs -------------------------
(***************************************************************************)
(* What surrounds a request to an external API: first the credentials its  *)
(* interceptors add, for any number of requests and acquisitions and any   *)
(* life and buffer of tokens; then the policy its adapter runs under, for  *)
(* any number of calls and any configuration.  The two share no state.     *)
(***************************************************************************)
EXTENDS CredentialCache, ResiliencePolicy, TLAPS

-----------------------------------------------------------------------------
\* The credentials.

\* An acquisition is open until its finally has run.
Open(f) == phase[f] \in {"running", "ended", "stored"}

EpochBounds == \A f \in Fetch : phase[f] # "unused" => epoch[f] \in 1 .. cacheEpoch

\* The acquisition in flight is open, and inFlightEpoch is its epoch.
FlightOpen == inFlight # 0 => Open(inFlight) /\ inFlightEpoch = epoch[inFlight]

\* An open acquisition of the current epoch is the one in flight: nobody starts another.
OpenInFlight == \A f \in Fetch : Open(f) /\ epoch[f] = cacheEpoch => inFlight = f

OneOpen == \A f, g \in Fetch : Open(f) /\ Open(g) /\ epoch[f] = epoch[g] => f = g

\* What the cache believes of a token's end is at most Buffer late.
ExpiryInv ==
    mode.expires =>
        /\ cached # 0 => expiresAt <= issued[cached] + Buffer + Lifetime
        /\ \A f \in Fetch : phase[f] = "ended" => now <= issued[f] + Buffer

FetchInv ==
    EpochBounds /\ FlightOpen /\ OpenInFlight /\ OneOpen /\ CacheIsCurrent /\ ExpiryInv

SourceKnown ==
    \A r \in Requests : rpc[r] \in {"waiting", "sent"} =>
        source[r] # 0 /\ phase[source[r]] # "unused"

SinceBound == \A r \in Requests : since[r] <= cacheEpoch

RequestInv == SourceKnown /\ SinceBound /\ ReplayIsFresh

IInv == TypeOK /\ FetchInv /\ RequestInv

-----------------------------------------------------------------------------
LEMMA InitInv == Init => IInv
<1> SUFFICES ASSUME Init PROVE IInv
    OBVIOUS
<1>1. TypeOK
    BY CredentialAssumption DEF Init, TypeOK, Fetch
<1>2. FetchInv
    BY CredentialAssumption
       DEF Init, FetchInv, EpochBounds, FlightOpen, OpenInFlight, OneOpen, CacheIsCurrent,
           ExpiryInv, Open, Fetch
<1>3. RequestInv
    BY DEF Init, RequestInv, SourceKnown, SinceBound, ReplayIsFresh
<1>4. QED
    BY <1>1, <1>2, <1>3 DEF IInv

\* A step of a request that touches neither the cache nor an acquisition.
LEMMA FetchInvKept ==
    ASSUME FetchInv, UNCHANGED <<mode, now, cacheVars, fetchVars>>
    PROVE  FetchInv'
BY DEF FetchInv, EpochBounds, FlightOpen, OpenInFlight, OneOpen, CacheIsCurrent, ExpiryInv,
       Open, cacheVars, fetchVars

\* A step of an acquisition that ends no acquisition's use and opens no epoch.
LEMMA RequestInvKept ==
    ASSUME RequestInv, UNCHANGED <<requestVars, cacheEpoch, epoch>>,
           \A r \in Requests : source[r] # 0 /\ phase[source[r]] # "unused"
                               => phase'[source[r]] # "unused"
    PROVE  RequestInv'
BY DEF RequestInv, SourceKnown, SinceBound, ReplayIsFresh, requestVars

LEMMA UseCachedStep ==
    ASSUME IInv, NEW r \in Requests, UseCached(r)
    PROVE  IInv'
<1> USE DEF IInv, UseCached, Goto, TakeFrom
<1>1. TypeOK'
    BY DEF TypeOK, Usable, cacheVars, fetchVars
<1>2. FetchInv'
    BY FetchInvKept
<1>3. cached # 0 /\ cached \in Fetch /\ phase[cached] # "unused" /\ epoch[cached] = cacheEpoch
    BY DEF Usable, FetchInv, CacheIsCurrent, TypeOK
<1>4. RequestInv'
    BY <1>3 DEF RequestInv, SourceKnown, SinceBound, ReplayIsFresh, TypeOK, cacheVars, fetchVars
<1>5. QED
    BY <1>1, <1>2, <1>4

LEMMA JoinStep ==
    ASSUME IInv, NEW r \in Requests, Join(r)
    PROVE  IInv'
<1> USE DEF IInv, Join, Goto, TakeFrom
<1>1. TypeOK'
    BY DEF TypeOK, Joinable, cacheVars, fetchVars
<1>2. FetchInv'
    BY FetchInvKept
<1>3. inFlight # 0 /\ phase[inFlight] # "unused" /\ epoch[inFlight] = cacheEpoch
    BY DEF Joinable, FetchInv, FlightOpen, Open
<1>4. RequestInv'
    BY <1>3 DEF RequestInv, SourceKnown, SinceBound, ReplayIsFresh, TypeOK, cacheVars, fetchVars
<1>5. QED
    BY <1>1, <1>2, <1>4

LEMMA StartFetchStep ==
    ASSUME IInv, NEW r \in Requests, StartFetch(r)
    PROVE  IInv'
<1> DEFINE f == fetches + 1
<1> USE DEF IInv
<1>1. /\ f \in Fetch /\ f # 0 /\ phase[f] = "unused" /\ fetches' = f
      /\ mode.fetches \in 0 .. MaxFetches
    BY CredentialAssumption DEF StartFetch, TypeOK, Mode, Fetch
<1>2. /\ phase' = [phase EXCEPT ![f] = "running"]
      /\ epoch' = [epoch EXCEPT ![f] = cacheEpoch]
      /\ inFlight' = f /\ inFlightEpoch' = cacheEpoch
      /\ source' = [source EXCEPT ![r] = f]
      /\ rpc' = [rpc EXCEPT ![r] = "waiting"]
      /\ ~Joinable
      /\ UNCHANGED <<mode, now, cached, expiresAt, cacheEpoch, outcome, issued, own, retried,
                     replayed, since, replays>>
    BY DEF StartFetch, Goto, TakeFrom
<1>3. TypeOK'
    <2>1. \A g \in Fetch : phase'[g] = "unused" <=> g > fetches'
        BY <1>1, <1>2 DEF TypeOK, Fetch
    <2>2. fetches' \in 0 .. MaxFetches
        BY <1>1 DEF Fetch
    <2>3. QED
        BY <1>1, <1>2, <2>1, <2>2 DEF TypeOK
<1>4. FetchInv'
    <2>1. \A g \in Fetch : Open(g) => g # f
        BY <1>1 DEF Open
    <2>2. \A g \in Fetch : Open(g) => epoch[g] # cacheEpoch
        BY <1>2 DEF FetchInv, OpenInFlight, FlightOpen, Joinable, TypeOK, Fetch
    <2>3. EpochBounds'
        BY <1>1, <1>2 DEF FetchInv, EpochBounds, TypeOK
    <2>4. FlightOpen' /\ OpenInFlight' /\ OneOpen'
        BY <1>1, <1>2, <2>2
           DEF FetchInv, FlightOpen, OpenInFlight, OneOpen, Open, TypeOK
    <2>5. CacheIsCurrent' /\ ExpiryInv'
        BY <1>1, <1>2 DEF FetchInv, CacheIsCurrent, ExpiryInv, TypeOK
    <2>6. QED
        BY <2>3, <2>4, <2>5 DEF FetchInv
<1>5. RequestInv'
    BY <1>1, <1>2 DEF RequestInv, SourceKnown, SinceBound, ReplayIsFresh, TypeOK
<1>6. QED
    BY <1>3, <1>4, <1>5

LEMMA FetchEndsStep ==
    ASSUME IInv, NEW f \in Fetch, FetchEnds(f)
    PROVE  IInv'
<1> USE DEF IInv
<1>1. PICK o \in {"token", "error", "refused"} : outcome' = [outcome EXCEPT ![f] = o]
    BY DEF FetchEnds
<1>2. /\ phase[f] = "running" /\ phase' = [phase EXCEPT ![f] = "ended"]
      /\ issued' = [issued EXCEPT ![f] = now]
      /\ UNCHANGED <<mode, now, cacheVars, fetches, epoch, requestVars>>
    BY DEF FetchEnds
<1>3. TypeOK'
    BY <1>1, <1>2 DEF TypeOK, cacheVars, requestVars
<1>4. FetchInv'
    <2>1. EpochBounds' /\ FlightOpen' /\ OpenInFlight' /\ OneOpen'
        BY <1>2 DEF FetchInv, EpochBounds, FlightOpen, OpenInFlight, OneOpen, Open, TypeOK,
                    cacheVars
    <2>2. cached # f /\ CacheIsCurrent'
        BY <1>2, CredentialAssumption DEF FetchInv, CacheIsCurrent, TypeOK, cacheVars, Fetch
    <2>3. ExpiryInv'
        BY <1>2, <2>2, CredentialAssumption DEF FetchInv, ExpiryInv, TypeOK, cacheVars
    <2>4. QED
        BY <2>1, <2>2, <2>3 DEF FetchInv
<1>5. RequestInv'
    BY <1>2, RequestInvKept DEF TypeOK, cacheVars
<1>6. QED
    BY <1>3, <1>4, <1>5

LEMMA ThenStoresStep ==
    ASSUME IInv, NEW f \in Fetch, ThenStores(f)
    PROVE  IInv'
<1> USE DEF IInv
<1>1. /\ phase[f] = "ended" /\ phase' = [phase EXCEPT ![f] = "stored"]
      /\ UNCHANGED <<mode, now, inFlight, inFlightEpoch, cacheEpoch, fetches, outcome, epoch,
                     issued, requestVars>>
    BY DEF ThenStores
<1>2. \/ epoch[f] = cacheEpoch /\ cached' = f /\ expiresAt' = now + Lifetime
      \/ UNCHANGED <<cached, expiresAt>>
    BY DEF ThenStores
<1>3. f # 0
    BY DEF Fetch
<1>4. TypeOK'
    BY <1>1, <1>2, CredentialAssumption DEF TypeOK, requestVars
<1>5. FetchInv'
    <2>1. EpochBounds' /\ FlightOpen' /\ OpenInFlight' /\ OneOpen'
        BY <1>1 DEF FetchInv, EpochBounds, FlightOpen, OpenInFlight, OneOpen, Open, TypeOK
    <2>2. CacheIsCurrent'
        BY <1>1, <1>2 DEF FetchInv, CacheIsCurrent, TypeOK
    <2>3. ExpiryInv'
        BY <1>1, <1>2, CredentialAssumption DEF FetchInv, ExpiryInv, TypeOK
    <2>4. QED
        BY <2>1, <2>2, <2>3 DEF FetchInv
<1>6. RequestInv'
    BY <1>1, RequestInvKept DEF TypeOK
<1>7. QED
    BY <1>4, <1>5, <1>6

LEMMA FinallyClearsStep ==
    ASSUME IInv, NEW f \in Fetch, FinallyClears(f)
    PROVE  IInv'
<1> USE DEF IInv
<1>1. /\ phase[f] \in {"stored", "ended"} /\ phase' = [phase EXCEPT ![f] = "settled"]
      /\ UNCHANGED <<mode, now, cached, expiresAt, cacheEpoch, fetches, outcome, epoch, issued,
                     requestVars>>
    BY DEF FinallyClears, Finalizable
<1>2. \/ inFlightEpoch = epoch[f] /\ inFlight' = 0 /\ inFlightEpoch' = 0
      \/ inFlightEpoch # epoch[f] /\ UNCHANGED <<inFlight, inFlightEpoch>>
    BY DEF FinallyClears
<1>3. TypeOK'
    BY <1>1, <1>2 DEF TypeOK, requestVars
<1>4. FetchInv'
    <2>1. Open(f) /\ \A g \in Fetch : Open(g)' => Open(g) /\ g # f
        BY <1>1 DEF Open, TypeOK
    <2>2. EpochBounds' /\ OneOpen'
        BY <1>1, <2>1 DEF FetchInv, EpochBounds, OneOpen, TypeOK
    <2>3. FlightOpen'
        BY <1>1, <1>2 DEF FetchInv, FlightOpen, Open, TypeOK
    <2>4. OpenInFlight'
        BY <1>1, <1>2, <2>1 DEF FetchInv, FlightOpen, OpenInFlight, OneOpen, TypeOK, Fetch
    <2>5. CacheIsCurrent' /\ ExpiryInv'
        BY <1>1 DEF FetchInv, CacheIsCurrent, ExpiryInv, TypeOK
    <2>6. QED
        BY <2>2, <2>3, <2>4, <2>5 DEF FetchInv
<1>5. RequestInv'
    BY <1>1, RequestInvKept DEF TypeOK
<1>6. QED
    BY <1>3, <1>4, <1>5

LEMMA ArriveStep ==
    ASSUME IInv, NEW r \in Requests, CredentialsArrive(r)
    PROVE  IInv'
<1> USE DEF IInv, CredentialsArrive, Goto
<1>1. TypeOK'
    BY DEF TypeOK, cacheVars, fetchVars
<1>2. FetchInv'
    BY FetchInvKept
<1>3. RequestInv'
    BY DEF Arrived, RequestInv, SourceKnown, SinceBound, ReplayIsFresh, TypeOK, cacheVars,
           fetchVars
<1>4. QED
    BY <1>1, <1>2, <1>3

\* CredentialsFail, Answered, and a 401 that is not retried.
LEMMA EndStep ==
    ASSUME IInv, NEW r \in Requests, NEW ended \in Settled, End(r, ended),
           UNCHANGED <<mode, now, cacheVars, fetchVars>>
    PROVE  IInv'
<1> USE DEF IInv, End, Goto, TakeFrom
<1>1. TypeOK'
    BY DEF TypeOK, cacheVars, fetchVars, Settled
<1>2. FetchInv'
    BY FetchInvKept
<1>3. RequestInv'
    BY DEF RequestInv, SourceKnown, SinceBound, ReplayIsFresh, TypeOK, cacheVars, fetchVars,
           Settled
<1>4. QED
    BY <1>1, <1>2, <1>3

\* A new epoch: nothing is cached, and nothing open is of it.
LEMMA ReplayStep ==
    ASSUME IInv, NEW r \in Requests, InvalidateAndReplay(r),
           own' \in [Requests -> BOOLEAN], retried' \in [Requests -> BOOLEAN],
           replayed' \in [Fetch -> BOOLEAN]
    PROVE  IInv'
<1> USE DEF IInv, InvalidateAndReplay, Goto, TakeFrom
<1>1. TypeOK'
    <2>1. cacheEpoch' \in Nat \ {0} /\ since' \in [Requests -> Nat]
          /\ replays' \in [Requests -> Nat]
        BY DEF TypeOK
    <2>2. /\ cached' \in Fetch \cup {0} /\ expiresAt' \in Nat
          /\ rpc' \in [Requests -> {"new", "replaying", "waiting", "sent"} \cup Settled]
          /\ source' \in [Requests -> Fetch \cup {0}]
        BY DEF TypeOK
    <2>3. UNCHANGED <<mode, now, inFlight, inFlightEpoch, fetches, phase, outcome, epoch, issued>>
        BY DEF fetchVars
    <2>4. QED
        BY <2>1, <2>2, <2>3 DEF TypeOK
<1>2. FetchInv'
    BY DEF FetchInv, EpochBounds, FlightOpen, OpenInFlight, OneOpen, CacheIsCurrent, ExpiryInv,
           Open, TypeOK, fetchVars
<1>3. RequestInv'
    BY DEF RequestInv, SourceKnown, SinceBound, ReplayIsFresh, TypeOK, fetchVars
<1>4. QED
    BY <1>1, <1>2, <1>3

LEMMA TickStep ==
    ASSUME IInv, Tick
    PROVE  IInv'
<1> USE DEF IInv, Tick
<1>1. TypeOK'
    BY CredentialAssumption DEF TypeOK, cacheVars, fetchVars, requestVars
<1>2. FetchInv'
    BY CredentialAssumption
       DEF FetchInv, EpochBounds, FlightOpen, OpenInFlight, OneOpen, CacheIsCurrent, ExpiryInv,
           Open, TypeOK, cacheVars, fetchVars
<1>3. RequestInv'
    BY RequestInvKept DEF cacheVars, fetchVars
<1>4. QED
    BY <1>1, <1>2, <1>3

-----------------------------------------------------------------------------
LEMMA NextInv == IInv /\ [Next]_vars => IInv'
<1> SUFFICES ASSUME IInv, [Next]_vars PROVE IInv'
    OBVIOUS
<1>1. ASSUME NEW r \in Requests, RequestStep(r) PROVE IInv'
    <2>1. CASE UseCached(r) \/ Join(r) \/ StartFetch(r) \/ CredentialsArrive(r)
        BY <2>1, UseCachedStep, JoinStep, StartFetchStep, ArriveStep
    <2>2. CASE CredentialsFail(r) \/ Answered(r)
        BY <2>2, EndStep DEF CredentialsFail, Answered, Settled
    <2>3. CASE CredentialsRefused(r)
        <3>1. /\ own' \in [Requests -> BOOLEAN] /\ retried' \in [Requests -> BOOLEAN]
              /\ replayed' \in [Fetch -> BOOLEAN]
            BY <2>3 DEF CredentialsRefused, IInv, TypeOK
        <3>2. QED
            BY <2>3, <3>1, ReplayStep DEF CredentialsRefused
    <2>4. CASE Unauthorized(r) /\ Retriable(r)
        <3>1. /\ own' \in [Requests -> BOOLEAN] /\ retried' \in [Requests -> BOOLEAN]
              /\ replayed' \in [Fetch -> BOOLEAN]
            BY <2>4 DEF Unauthorized, IInv, TypeOK
        <3>2. QED
            BY <2>4, <3>1, ReplayStep DEF Unauthorized
    <2>5. CASE Unauthorized(r) /\ ~Retriable(r)
        BY <2>5, EndStep DEF Unauthorized, Settled
    <2>6. QED
        BY <1>1, <2>1, <2>2, <2>3, <2>4, <2>5 DEF RequestStep
<1>2. ASSUME NEW f \in Fetch, FetchStep(f) PROVE IInv'
    BY <1>2, FetchEndsStep, ThenStoresStep, FinallyClearsStep DEF FetchStep
<1>3. CASE Tick
    BY <1>3, TickStep
<1>4. CASE UNCHANGED vars
    <2>1. TypeOK'
        BY <1>4 DEF IInv, TypeOK, vars, cacheVars, fetchVars, requestVars
    <2>2. FetchInv' /\ RequestInv'
        BY <1>4, FetchInvKept, RequestInvKept DEF IInv, vars, cacheVars, fetchVars
    <2>3. QED
        BY <2>1, <2>2 DEF IInv
<1>5. QED
    BY <1>1, <1>2, <1>3, <1>4 DEF Next

LEMMA Invariance == Spec => []IInv
BY InitInv, NextInv, PTL DEF Spec

-----------------------------------------------------------------------------
\* Every variable keeps its type; inFlightCredentials and inFlightEpoch are set and reset
\* together.
THEOREM TypeCorrect == Spec => []TypeOK
<1>1. IInv => TypeOK
    BY DEF IInv
<1>2. QED
    BY <1>1, Invariance, PTL

\* The cache never holds a credential of an epoch that an invalidation closed.
THEOREM CacheStaysCurrent == Spec => []CacheIsCurrent
<1>1. IInv => CacheIsCurrent
    BY DEF IInv, FetchInv
<1>2. QED
    BY <1>1, Invariance, PTL

\* Within an epoch acquisitions follow one another, for any number of concurrent requests.
THEOREM FlightIsSingle == Spec => []SingleFlight
<1>1. IInv => SingleFlight
    BY DEF IInv, FetchInv, OneOpen, Open, SingleFlight
<1>2. QED
    BY <1>1, Invariance, PTL

\* A replay never carries a credential asked for before the 401 that caused it.
THEOREM ReplaysAreFresh == Spec => []ReplayIsFresh
<1>1. IInv => ReplayIsFresh
    BY DEF IInv, RequestInv
<1>2. QED
    BY <1>1, Invariance, PTL

\* No request joins an acquisition that is over, so no failure is handed on.
THEOREM NobodyJoinsTheDead == Spec => JoinsOnlyOpen
<1>1. ASSUME IInv, [Next]_vars
      PROVE  [\A r \in Requests : Asking(r) /\ rpc'[r] = "waiting"
                 => phase[source'[r]] # "settled"]_vars
    <2> SUFFICES ASSUME Next, NEW r \in Requests, Asking(r), rpc'[r] = "waiting"
                 PROVE  phase[source'[r]] # "settled"
        BY <1>1
    <2>1. rpc[r] # "waiting" /\ rpc \in [Requests -> {"new", "replaying", "waiting", "sent"}
                                                     \cup Settled]
        BY <1>1 DEF Asking, IInv, TypeOK
    <2>2. CASE Join(r)
        BY <1>1, <2>2 DEF Join, TakeFrom, Joinable, IInv, FetchInv, FlightOpen, Open, TypeOK
    <2>3. CASE StartFetch(r)
        BY <1>1, <2>3, CredentialAssumption
           DEF StartFetch, TakeFrom, IInv, TypeOK, Mode, Fetch
    <2>4. Join(r) \/ StartFetch(r)
        <3>1. PICK q \in Requests : RequestStep(q)
            BY <2>1 DEF Next, FetchStep, FetchEnds, ThenStores, FinallyClears, Tick, requestVars
        <3>2. q = r
            BY <2>1, <3>1
               DEF RequestStep, UseCached, Join, StartFetch, CredentialsArrive, CredentialsFail,
                   CredentialsRefused, Answered, Unauthorized, InvalidateAndReplay, End, Goto
        <3>3. QED
            BY <2>1, <3>1, <3>2
               DEF RequestStep, UseCached, CredentialsArrive, CredentialsFail,
                   CredentialsRefused, Answered, Unauthorized, InvalidateAndReplay, End, Goto,
                   Settled, Asking, Arrived
    <2>5. QED
        BY <2>2, <2>3, <2>4
<1>2. QED
    BY <1>1, Invariance, PTL DEF Spec, JoinsOnlyOpen

\* A token taken from the cache has not expired, for any life of tokens and any buffer, as
\* long as storing a signed token takes no longer than the buffer.
THEOREM TokensNeverExpired == Spec => NeverExpired
<1>1. ASSUME IInv, [Next]_vars
      PROVE  [\A r \in Requests : mode.expires /\ Asking(r) /\ rpc'[r] = "sent"
                 => now < issued[source'[r]] + Lifetime]_vars
    <2> SUFFICES ASSUME Next, NEW r \in Requests, mode.expires, Asking(r), rpc'[r] = "sent"
                 PROVE  now < issued[source'[r]] + Lifetime
        BY <1>1
    <2>1. rpc[r] \notin {"sent", "waiting"}
          /\ rpc \in [Requests -> {"new", "replaying", "waiting", "sent"} \cup Settled]
        BY <1>1 DEF Asking, IInv, TypeOK
    <2>2. UseCached(r)
        <3>1. PICK q \in Requests : RequestStep(q)
            BY <2>1 DEF Next, FetchStep, FetchEnds, ThenStores, FinallyClears, Tick, requestVars
        <3>2. q = r
            BY <2>1, <3>1
               DEF RequestStep, UseCached, Join, StartFetch, CredentialsArrive, CredentialsFail,
                   CredentialsRefused, Answered, Unauthorized, InvalidateAndReplay, End, Goto
        <3>3. QED
            BY <2>1, <3>1, <3>2
               DEF RequestStep, Join, StartFetch, CredentialsArrive, CredentialsFail,
                   CredentialsRefused, Answered, Unauthorized, InvalidateAndReplay, End, Goto,
                   Settled, Asking, Arrived
    <2>3. /\ cached # 0 /\ now + Buffer < expiresAt /\ source'[r] = cached
          /\ expiresAt <= issued[cached] + Buffer + Lifetime
        BY <1>1, <2>2 DEF UseCached, Usable, TakeFrom, IInv, FetchInv, ExpiryInv, TypeOK
    <2>4. issued[cached] \in Nat /\ now \in Nat /\ expiresAt \in Nat
        BY <1>1, <2>3 DEF IInv, TypeOK
    <2>5. QED
        BY <2>3, <2>4, CredentialAssumption
<1>2. QED
    BY <1>1, Invariance, PTL DEF Spec, NeverExpired

\* What the epochs are for: cache, acquisitions and replays are those of now, for any number
\* of concurrent requests, fetches and invalidations.
THEOREM CredentialsAreSound == Spec => []CredentialsSound
BY CacheStaysCurrent, FlightIsSingle, ReplaysAreFresh, PTL DEF CredentialsSound

\* No request joins an acquisition that is over or uses a token past its end, provided a
\* token is stored within the buffer of its signing.
THEOREM EverythingUsedInTime == Spec => UsedInTime
BY NobodyJoinsTheDead, TokensNeverExpired DEF UsedInTime

-----------------------------------------------------------------------------
\* The policy.

\* Work that was not told to stop belongs to the attempt its call waits for.
LiveIsCurrent ==
    \A c \in Calls, n \in Nat :
        <<c, n>> \in works /\ <<c, n>> \notin expired /\ ~aborted[c]
        => stage[c] = "running" /\ attempt[c] = n

\* A queued start that will have an effect is that of the attempt its call waits for.
StartIsCurrent == \A c \in Calls : pending[c] /\ ~aborted[c] => stage[c] = "queued"

\* The attempt of p is the breaker's probe, or was when it was let in, and has not ended.
Probing(p) == entry[p] = "probe" /\ stage[p] \in {"queued", "running", "settled"}

ProbeUnderWay == breaker = "halfopen" => \E p \in Calls : test = {p} /\ Probing(p)

\* A call that waits in the breaker waits for an attempt that has not ended.
WaiterHasProbe ==
    \A c \in Calls : stage[c] = "waiting" => \E p \in Calls : waitsFor[c] = {p} /\ Probing(p)

WorkInv == LiveIsCurrent /\ StartIsCurrent
ProbeInv == ProbeUnderWay /\ WaiterHasProbe
PolicyIInv == PolicyTypeOK /\ WorkInv /\ ProbeInv

-----------------------------------------------------------------------------
LEMMA PolicyInitInv == PolicyInit => PolicyIInv
<1> SUFFICES ASSUME PolicyInit PROVE PolicyIInv
    OBVIOUS
<1>1. PolicyTypeOK
    <2>1. config.retries \in Nat
        BY DEF PolicyInit, Parsed, Config
    <2>2. \A c \in Calls : attempt[c] = 0 /\ stage[c] = "new" /\ entry[c] = "closed"
        BY DEF PolicyInit
    <2>3. \A c \in Calls : attempt[c] <= config.retries
        BY <2>1, <2>2
    <2>4. QED
        BY <2>2, <2>3 DEF PolicyInit, PolicyTypeOK
<1>2. WorkInv
    BY DEF PolicyInit, WorkInv, LiveIsCurrent, StartIsCurrent
<1>3. ProbeInv
    BY DEF PolicyInit, ProbeInv, ProbeUnderWay, WaiterHasProbe
<1>4. QED
    BY <1>1, <1>2, <1>3 DEF PolicyIInv

\* Entering the breaker, at the head of the loop or after waiting for a probe.
LEMMA EnterStep ==
    ASSUME PolicyIInv, NEW c \in Calls, stage[c] \in {"looping", "released"}, Enter(c),
           UNCHANGED <<config, attempt, aborted, workVars>>
    PROVE  PolicyIInv'
<1> USE DEF PolicyIInv, workVars
<1>1. CASE EnterClosed(c)
    <2>1. PolicyTypeOK'
        BY <1>1 DEF EnterClosed, Admit, PolicyTypeOK, breakerVars
    <2>2. WorkInv'
        BY <1>1 DEF EnterClosed, Admit, PolicyTypeOK, WorkInv, LiveIsCurrent, StartIsCurrent
    <2>3. ProbeInv'
        BY <1>1 DEF EnterClosed, Admit, PolicyTypeOK, ProbeInv, ProbeUnderWay, WaiterHasProbe,
                    Probing, breakerVars
    <2>4. QED
        BY <2>1, <2>2, <2>3
<1>2. CASE EnterProbe(c)
    <2>1. PolicyTypeOK'
        BY <1>2 DEF EnterProbe, Admit, PolicyTypeOK
    <2>2. WorkInv'
        BY <1>2 DEF EnterProbe, Admit, PolicyTypeOK, WorkInv, LiveIsCurrent, StartIsCurrent
    <2>3. ProbeInv'
        BY <1>2 DEF EnterProbe, Admit, PolicyTypeOK, ProbeInv, ProbeUnderWay, WaiterHasProbe, Probing
    <2>4. QED
        BY <2>1, <2>2, <2>3
<1>3. CASE EnterRefused(c)
    <2>1. PolicyTypeOK'
        BY <1>3 DEF EnterRefused, PolicyTypeOK, Errors, breakerVars
    <2>2. WorkInv'
        BY <1>3 DEF EnterRefused, PolicyTypeOK, WorkInv, LiveIsCurrent, StartIsCurrent
    <2>3. ProbeInv'
        BY <1>3 DEF EnterRefused, PolicyTypeOK, ProbeInv, ProbeUnderWay, WaiterHasProbe, Probing,
                    breakerVars
    <2>4. QED
        BY <2>1, <2>2, <2>3
<1>4. CASE EnterWaiting(c)
    <2>1. PolicyTypeOK'
        BY <1>4 DEF EnterWaiting, PolicyTypeOK, breakerVars
    <2>2. WorkInv'
        BY <1>4 DEF EnterWaiting, PolicyTypeOK, WorkInv, LiveIsCurrent, StartIsCurrent
    <2>3. ProbeInv'
        BY <1>4 DEF EnterWaiting, PolicyTypeOK, ProbeInv, ProbeUnderWay, WaiterHasProbe, Probing,
                    breakerVars
    <2>4. QED
        BY <2>1, <2>2, <2>3
<1>5. QED
    BY <1>1, <1>2, <1>3, <1>4 DEF Enter

LEMMA LoopStep ==
    ASSUME PolicyIInv, NEW c \in Calls, Loop(c)
    PROVE  PolicyIInv'
<1>1. CASE ~aborted[c]
    BY <1>1, EnterStep DEF Loop
<1>2. CASE aborted[c]
    <2> USE <1>2 DEF PolicyIInv, Loop, PolicyTypeOK, breakerVars, workVars, Ended
    <2>1. PolicyTypeOK'
        OBVIOUS
    <2>2. WorkInv'
        BY DEF WorkInv, LiveIsCurrent, StartIsCurrent
    <2>3. ProbeInv'
        BY DEF ProbeInv, ProbeUnderWay, WaiterHasProbe, Probing
    <2>4. QED
        BY <2>1, <2>2, <2>3
<1>3. QED
    BY <1>1, <1>2

LEMMA StartStep ==
    ASSUME PolicyIInv, NEW c \in Calls, Start(c)
    PROVE  PolicyIInv'
<1> USE DEF PolicyIInv, Start, PolicyTypeOK, breakerVars
<1>1. PolicyTypeOK'
    OBVIOUS
<1>2. WorkInv'
    BY DEF WorkInv, LiveIsCurrent, StartIsCurrent
<1>3. ProbeInv'
    BY DEF WorkInv, StartIsCurrent, ProbeInv, ProbeUnderWay, WaiterHasProbe, Probing
<1>4. QED
    BY <1>1, <1>2, <1>3

LEMMA WorkEndsStep ==
    ASSUME PolicyIInv, NEW w \in works, NEW o \in Results, WorkEnds(w, o)
    PROVE  PolicyIInv'
<1> USE DEF PolicyIInv, WorkEnds, PolicyTypeOK, breakerVars, Results, Errors
<1>0. PICK c \in Calls, n \in Nat : w = <<c, n>>
    OBVIOUS
<1>1. PolicyTypeOK'
    BY <1>0
<1>2. WorkInv'
    BY <1>0 DEF WorkInv, LiveIsCurrent, StartIsCurrent
<1>3. ProbeInv'
    BY <1>0 DEF ProbeInv, ProbeUnderWay, WaiterHasProbe, Probing
<1>4. QED
    BY <1>1, <1>2, <1>3

LEMMA TimeoutFiresStep ==
    ASSUME PolicyIInv, NEW c \in Calls, TimeoutFires(c)
    PROVE  PolicyIInv'
<1> USE DEF PolicyIInv, TimeoutFires, PolicyTypeOK, breakerVars, Errors
<1>1. PolicyTypeOK'
    OBVIOUS
<1>2. WorkInv'
    BY DEF WorkInv, LiveIsCurrent, StartIsCurrent
<1>3. ProbeInv'
    BY DEF ProbeInv, ProbeUnderWay, WaiterHasProbe, Probing
<1>4. QED
    BY <1>1, <1>2, <1>3

LEMMA AbortStep ==
    ASSUME PolicyIInv, NEW c \in Calls, Abort(c)
    PROVE  PolicyIInv'
<1> USE DEF PolicyIInv, Abort, PolicyTypeOK, breakerVars, workVars, Ended
<1>1. PolicyTypeOK'
    OBVIOUS
<1>2. WorkInv'
    BY DEF WorkInv, LiveIsCurrent, StartIsCurrent
<1>3. ProbeInv'
    BY DEF ProbeInv, ProbeUnderWay, WaiterHasProbe, Probing
<1>4. QED
    BY <1>1, <1>2, <1>3

LEMMA JudgeStep ==
    ASSUME PolicyIInv, NEW c \in Calls, Judge(c)
    PROVE  PolicyIInv'
<1> USE DEF PolicyIInv, Judge, PolicyTypeOK, workVars
<1>1. PolicyTypeOK'
    <2>1. breaker' \in {"closed", "open", "halfopen"} /\ (~config.breaker => breaker' = "closed")
        <3>1. CASE entry[c] = "probe"
            BY <3>1 DEF AfterProbe
        <3>2. CASE entry[c] # "probe" /\ config.breaker
            BY <3>2 DEF AfterAttempt
        <3>3. CASE entry[c] # "probe" /\ ~config.breaker
            BY <3>3 DEF AfterAttempt
        <3>4. QED
            BY <3>1, <3>2, <3>3
    <2>2. cooled' \in BOOLEAN /\ test' \in SUBSET Calls
        OBVIOUS
    <2>3. stage' \in [Calls -> {"new", "looping", "waiting", "released", "queued", "running",
                               "settled", "judged", "backoff"} \cup Ended]
        OBVIOUS
    <2>4. \A d \in Calls : stage'[d] = "backoff" => stage[d] = "backoff"
        OBVIOUS
    <2>5. QED
        BY <2>1, <2>2, <2>3, <2>4
<1>2. WorkInv'
    BY DEF WorkInv, LiveIsCurrent, StartIsCurrent
<1>3. entry[c] = "probe" => breaker' # "halfopen"
    BY DEF AfterProbe
<1>4. breaker' = "halfopen" => breaker = "halfopen"
    BY DEF AfterProbe, AfterAttempt
<1>5. ProbeUnderWay'
    BY <1>3, <1>4 DEF ProbeInv, ProbeUnderWay, Probing
<1>6. WaiterHasProbe'
    BY DEF ProbeInv, WaiterHasProbe, Probing
<1>7. QED
    BY <1>1, <1>2, <1>5, <1>6 DEF ProbeInv

LEMMA CoolDownStep ==
    ASSUME PolicyIInv, CoolDown
    PROVE  PolicyIInv'
BY DEF PolicyIInv, CoolDown, PolicyTypeOK, callVars, workVars, WorkInv, LiveIsCurrent, StartIsCurrent,
       ProbeInv, ProbeUnderWay, WaiterHasProbe, Probing

LEMMA CallStep ==
    ASSUME PolicyIInv, NEW c \in Calls, Call(c)
    PROVE  PolicyIInv'
<1> USE DEF PolicyIInv, Call, PolicyTypeOK, breakerVars, workVars
<1>1. PolicyTypeOK'
    OBVIOUS
<1>2. WorkInv'
    BY DEF WorkInv, LiveIsCurrent, StartIsCurrent
<1>3. ProbeInv'
    BY DEF ProbeInv, ProbeUnderWay, WaiterHasProbe, Probing
<1>4. QED
    BY <1>1, <1>2, <1>3

LEMMA ContinueStep ==
    ASSUME PolicyIInv, NEW c \in Calls, Continue(c)
    PROVE  PolicyIInv'
<1> USE DEF PolicyIInv, Continue, PolicyTypeOK, breakerVars, workVars
<1>0. Verdict(c) \in {"done", "cancelled", "failed", "backoff"}
    BY DEF Verdict
<1>1. PolicyTypeOK'
    <2>1. config.retries \in Nat /\ attempt[c] \in Nat
        BY DEF Parsed, Config
    <2>2. Verdict(c) = "backoff" => attempt[c] < config.retries
        BY <2>1 DEF Verdict
    <2>3. QED
        BY <1>0, <2>2 DEF Ended
<1>2. WorkInv'
    BY <1>0 DEF WorkInv, LiveIsCurrent, StartIsCurrent
<1>3. ProbeInv'
    BY <1>0 DEF ProbeInv, ProbeUnderWay, WaiterHasProbe, Probing
<1>4. QED
    BY <1>1, <1>2, <1>3

LEMMA BackoffEndsStep ==
    ASSUME PolicyIInv, NEW c \in Calls, BackoffEnds(c)
    PROVE  PolicyIInv'
<1> USE DEF PolicyIInv, BackoffEnds, PolicyTypeOK, breakerVars, workVars
<1>0. config.retries \in Nat /\ attempt[c] \in Nat
    BY DEF Parsed, Config
<1>1. PolicyTypeOK'
    BY <1>0
<1>2. WorkInv'
    BY DEF WorkInv, LiveIsCurrent, StartIsCurrent
<1>3. ProbeInv'
    BY DEF ProbeInv, ProbeUnderWay, WaiterHasProbe, Probing
<1>4. QED
    BY <1>1, <1>2, <1>3

LEMMA PolicyNextInv ==
    ASSUME PolicyIInv, [PolicyNext]_policyVars
    PROVE  PolicyIInv'
<1>1. ASSUME NEW c \in Calls, Call(c) \/ Abort(c) \/ Own(c)
      PROVE  PolicyIInv'
    <2>1. CASE Resume(c)
        BY <2>1, EnterStep DEF Resume
    <2>2. QED
        BY <1>1, <2>1, CallStep, AbortStep, LoopStep, StartStep, TimeoutFiresStep, JudgeStep,
           ContinueStep, BackoffEndsStep
           DEF Own
<1>2. ASSUME NEW w \in works, NEW o \in Results, WorkEnds(w, o)
      PROVE  PolicyIInv'
    BY <1>2, WorkEndsStep
<1>3. CASE UNCHANGED policyVars
    BY <1>3
       DEF policyVars, breakerVars, callVars, workVars, PolicyIInv, PolicyTypeOK, WorkInv, LiveIsCurrent,
           StartIsCurrent, ProbeInv, ProbeUnderWay, WaiterHasProbe, Probing
<1>4. QED
    BY <1>1, <1>2, <1>3, CoolDownStep DEF PolicyNext

\* The invariant of the policy holds for any number of calls and any configuration.
THEOREM PolicyInvariance == PolicySpec => []PolicyIInv
<1>1. QED
    BY PolicyInitInv, PolicyNextInv, PTL DEF PolicySpec

\* Type correctness, with the bound on attempts: a call makes at most 1 + retry.count of them.
THEOREM PolicyTypeCorrect == PolicySpec => []PolicyTypeOK
BY PolicyInvariance, PTL DEF PolicyIInv

\* What runs unstopped for a call is the work of the attempt it waits for.
THEOREM NothingRunsUnnoticed == PolicySpec => []NoOrphanWork
<1>1. PolicyIInv => NoOrphanWork
    <2> SUFFICES ASSUME PolicyIInv, NEW c \in Calls, NEW w \in Live(c)
                 PROVE  w = <<c, attempt[c]>> /\ stage[c] = "running"
        BY DEF NoOrphanWork
    <2>1. PICK n \in Nat : w = <<c, n>>
        BY DEF Live, PolicyIInv, PolicyTypeOK
    <2>2. w \in works /\ w \notin expired /\ ~aborted[c]
        BY <2>1 DEF Live, SignalAborted, CombinedSignal
    <2>3. QED
        BY <2>1, <2>2 DEF PolicyIInv, WorkInv, LiveIsCurrent
<1>2. QED
    BY <1>1, PolicyInvariance, PTL

\* A half-open breaker has a probe under way, and so has whoever waits for one.
THEOREM ProbeAwaited == PolicySpec => [](HalfOpenHasProbe /\ WaiterHasProbe)
<1>1. PolicyIInv => HalfOpenHasProbe /\ WaiterHasProbe
    BY DEF PolicyIInv, ProbeInv, ProbeUnderWay, Probing, HalfOpenHasProbe
<1>2. QED
    BY <1>1, PolicyInvariance, PTL

\* Which step starts work, and which ends an attempt's account.
LEMMA StartsWork ==
    ASSUME PolicyNext, NEW w, w \in works' \ works
    PROVE  \E c \in Calls : Start(c) /\ ~aborted[c] /\ w = <<c, attempt[c]>>
BY DEF PolicyNext, Own, Call, Abort, Loop, Resume, Start, TimeoutFires, Judge, Continue, BackoffEnds,
       WorkEnds, CoolDown, workVars

\* No work is started for a caller that has aborted.
THEOREM AbortedStartNothing == PolicySpec => NothingStartsAfterAbort
<1>1. ASSUME [PolicyNext]_policyVars
      PROVE  [\A c \in Calls : aborted[c] => \A w \in works' \ works : w[1] # c]_policyVars
    BY <1>1, StartsWork
<1>2. QED
    BY <1>1, PTL DEF PolicySpec, NothingStartsAfterAbort

LEMMA JudgedByJudge ==
    ASSUME PolicyNext, PolicyTypeOK, NEW c \in Calls, stage[c] = "settled", stage'[c] = "judged"
    PROVE  Judge(c)
<1>1. PICK d \in Calls : Call(d) \/ Abort(d) \/ Own(d)
    BY DEF PolicyNext, WorkEnds, CoolDown, callVars, PolicyTypeOK
<1>2. CASE Judge(d)
    BY <1>2 DEF Judge, PolicyTypeOK
<1>3. CASE Enter(d) /\ stage[d] # "settled"
    BY <1>3 DEF Enter, EnterClosed, EnterProbe, EnterRefused, EnterWaiting, Admit, PolicyTypeOK
<1>4. CASE Call(d) \/ Abort(d) \/ Start(d) \/ TimeoutFires(d) \/ Continue(d) \/ BackoffEnds(d)
    BY <1>4 DEF Call, Abort, Start, TimeoutFires, Continue, BackoffEnds, PolicyTypeOK
<1>5. CASE Loop(d) /\ aborted[d]
    BY <1>5 DEF Loop, PolicyTypeOK
<1>6. QED
    BY <1>1, <1>2, <1>3, <1>4, <1>5 DEF Own, Loop, Resume

\* The end of a cancelled attempt neither opens a closed breaker nor closes another.
THEOREM CancellationIsNeutral == PolicySpec => CancellationProvesNothing
<1>1. ASSUME PolicyIInv, [PolicyNext]_policyVars
      PROVE  [\A c \in Calls :
                 stage[c] = "settled" /\ stage'[c] = "judged" /\ result[c] = "cancelled"
                 => (breaker' = "closed" <=> breaker = "closed")]_policyVars
    <2> SUFFICES ASSUME PolicyNext, NEW c \in Calls, stage[c] = "settled", stage'[c] = "judged",
                        result[c] = "cancelled"
                 PROVE  breaker' = "closed" <=> breaker = "closed"
        BY <1>1
    <2>1. Judge(c)
        BY <1>1, JudgedByJudge DEF PolicyIInv
    <2>2. QED
        BY <1>1, <2>1 DEF Judge, AfterProbe, AfterAttempt, Counts, PolicyIInv, PolicyTypeOK
<1>2. QED
    BY <1>1, PolicyInvariance, PTL DEF PolicySpec, CancellationProvesNothing

\* An abort ends the work of its call and says nothing about the dependency.
THEOREM CancellationIsSound == PolicySpec => CancellationSound
BY AbortedStartNothing, CancellationIsNeutral DEF CancellationSound
=============================================================================

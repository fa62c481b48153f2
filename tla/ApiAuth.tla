------------------------------ MODULE ApiAuth ------------------------------
(***************************************************************************)
(* How an API answers a request to a guarded route: the guard that runs    *)
(* before the handler (AuthGuard.ts) with the options the decorators left  *)
(* (RouteDecorators), the chain of verifiers (packages/auth/src:           *)
(* Authenticator.ts, JwtVerifier.ts) and the sources of keys, inline or    *)
(* fetched from an identity provider.                                      *)
(*                                                                         *)
(* A credential is a record of what the verifier can tell about it; `signer'*)
(* is the key it was really signed with.  Signature checks take no time.   *)
(* The key sets of the provider are jose's createRemoteJWKSet, modelled    *)
(* from how RemoteJwksSource.ts configures and calls it: an age limit, a   *)
(* cooldown between two fetches, one fetch at a time, a timeout.           *)
(***************************************************************************)
EXTENDS RouteDecorators, Integers, Sequences, FiniteSets

CONSTANTS
    Requests,   \* the requests
    Verifiers,  \* method |-> the sequence of its trusted issuers
    Routes,     \* the routes, by the decorators at the method and at the class
    Offers,     \* the credentials a caller may send
    Kids,       \* the keys the identity provider signs with over time
    NoKid,      \* a token header without kid
    Ttl,        \* cacheTtlSeconds
    Cooldown,   \* refreshCooldownMs
    Timeout,    \* timeoutMs
    MaxTime     \* bound of the clock

Methods == DOMAIN Verifiers
Never == MaxTime + 1

ASSUME TimeAssumption ==
    /\ Ttl \in Nat \ {0} /\ Cooldown \in Nat \ {0}
    /\ Timeout \in Nat \ {0} /\ MaxTime \in Nat
\* Every method trusts somebody; a row's key is inline or fetched.
ASSUME ConfigAssumption ==
    \A m \in Methods :
        /\ Len(Verifiers[m]) \in Nat \ {0}
        /\ \A i \in 1..Len(Verifiers[m]) : Verifiers[m][i].source \in {"value", "jwks"}
ASSUME KidAssumption == NoKid \notin Kids

\* Every route is under an @Authenticate.  @Anonymous is of methods only, and nearest.
ASSUME RouteAssumption ==
    \A s \in Routes :
        /\ s[1] \in Seq(Decorator) /\ s[2] \in Seq(Decorator)
        /\ Places(s[1] \o s[2], "Authenticate") # {}
        /\ Places(s[1], "Anonymous") \subseteq {1} /\ Places(s[2], "Anonymous") = {}

VARIABLES
    now,          \* the clock
    publishedAt,  \* when the provider began to publish a key, or Never
    retiredAt,    \* when it stopped, or Never
    keySet,       \* per verifier and issuer: the keys fetched last
    fetchedAt,    \* when, or -1
    fetchSince,   \* when the fetch under way began, or -1
    reply,        \* what the provider answers to it, or <<>>
    pc,           \* where a request is
    route, offer, \* what it asks for, and with which credential
    step,         \* the index of the method it is tried against
    failures,     \* of the methods that refused it: why, and when
    status,       \* the answer: 200 stands for the handler running
    answeredAt    \* when

idp == <<publishedAt, retiredAt>>
keys == <<keySet, fetchedAt, fetchSince, reply>>
request == <<pc, route, offer, step, failures, status, answeredAt>>
vars == <<now, idp, keys, request>>

-----------------------------------------------------------------------------
\* The options of a route, as its decorators left them.

\* The methods a request is tried against; none for a route that named none.
Chain(rt) == IF rt.named = <<>> THEN <<>> ELSE DecodeMethods(rt.named[1])

Satisfies(roles, requirements) ==
    \A anyOf \in requirements : anyOf = {} \/ anyOf \cap roles # {}

-----------------------------------------------------------------------------
\* Issuers and keys.

\* A map from issuer to row keeps the last row of an issuer.
LastRow(m, Matches(_)) ==
    LET at == {i \in 1..Len(Verifiers[m]) : Matches(Verifiers[m][i])}
    IN  Verifiers[m][CHOOSE i \in at : \A j \in at : j <= i]

Trusts(m, iss) == \E i \in 1..Len(Verifiers[m]) : Verifiers[m][i].issuer = iss
RowFor(m, iss) == LastRow(m, LAMBDA row : row.issuer = iss)

HasRow(m, iss, source) ==
    \E i \in 1..Len(Verifiers[m]) :
        Verifiers[m][i].issuer = iss /\ Verifiers[m][i].source = source

StaticRow(m, iss) == LastRow(m, LAMBDA row : row.issuer = iss /\ row.source = "value")

Issuers == UNION {{Verifiers[m][i].issuer : i \in 1..Len(Verifiers[m])} : m \in Methods}
Resolvers == {v \in Methods \X Issuers : HasRow(v[1], v[2], "jwks")}

Published == {k \in Kids : publishedAt[k] <= now /\ now < retiredAt[k]}

Matching(set, o) == {k \in set : o.kid \in {NoKid, k}}

\* Mutant: a key set is never too old.
FreshForever(v) == fetchedAt[v] >= 0

Symmetric(alg) == alg = "HS256"

Fresh(v) == fetchedAt[v] >= 0 /\ now < fetchedAt[v] + Ttl
CoolingDown(v) == fetchedAt[v] >= 0 /\ now < fetchedAt[v] + Cooldown

\* jwtVerify with the key that was found, and what verify makes of it: the
\* signature and its algorithm, then the audience, then expiry and subject.
Judged(row, o, key) ==
    CASE key # o.signer \/ o.alg \notin row.algorithms -> "invalid"
      [] key = o.signer /\ o.alg \in row.algorithms /\ o.aud # row.audience -> "wrong-audience"
      [] OTHER -> IF now < o.until /\ o.sub THEN "ok" ELSE "invalid"

\* The same for a key set: none or several keys that match are the token's
\* fault; an algorithm no key set can serve is an error of another kind.
JudgedBy(m, o, set) ==
    IF Symmetric(o.alg) THEN "indeterminate"
    ELSE IF Cardinality(Matching(set, o)) = 1
    THEN Judged(RowFor(m, o.iss), o, CHOOSE k \in Matching(set, o) : TRUE)
    ELSE "invalid"

-----------------------------------------------------------------------------
\* One method's verdict, as far as it needs no fetch.

ReadsKeySet(m, o) ==
    /\ o.scheme = "bearer" /\ o.parses /\ Trusts(m, o.iss)
    /\ ~ HasRow(m, o.iss, "value")

MustFetch(m, o) ==
    LET v == <<m, o.iss>>
    IN  /\ ReadsKeySet(m, o)
        /\ \/ ~ Fresh(v)
           \/ ~ Symmetric(o.alg) /\ Matching(keySet[v], o) = {} /\ ~ CoolingDown(v)

Verdict(m, o) ==
    IF o.scheme # "bearer" THEN "missing"
    ELSE IF ~ o.parses THEN "invalid"
    ELSE IF ~ Trusts(m, o.iss) THEN "unknown-issuer"
    ELSE IF HasRow(m, o.iss, "value")
         THEN LET key == StaticRow(m, o.iss)
              IN  IF o.alg \in key.algorithms
                  THEN Judged(RowFor(m, o.iss), o, key.key) ELSE "invalid"
         ELSE JudgedBy(m, o, keySet[<<m, o.iss>>])

-----------------------------------------------------------------------------
\* The answer.

\* Mutant: the first method that had something to say speaks for all.
MostTellingFirst(fs) ==
    LET told == {i \in 1..Len(fs) : fs[i].reason # "missing"}
    IN  IF told = {} THEN "missing" ELSE fs[CHOOSE i \in told : \A j \in told : i <= j].reason

\* Severity, not recency.
MostTelling(fs) ==
    LET told == {i \in 1..Len(fs) : fs[i].reason # "missing"}
    IN  IF \E i \in told : fs[i].reason = "indeterminate" THEN "indeterminate"
        ELSE IF told # {} THEN fs[CHOOSE i \in told : \A j \in told : i <= j].reason
        ELSE "missing"

Reasons == {"missing", "invalid", "unknown-issuer", "wrong-audience", "indeterminate"}
StatusForReason(reason) == IF reason = "indeterminate" THEN 503 ELSE 401

Claimed(o, claim) == IF claim \in DOMAIN o.roles THEN o.roles[claim] ELSE {}

RoleStatus(rt, o, row) ==
    IF Satisfies(Claimed(o, row.rolesClaim), rt.roles) THEN 200 ELSE 403

\* What becomes of a request when a method's verdict is in: verified, on to the
\* next method, or refused.
Settle(verdicts) ==
    LET m(r) == Chain(route[r])[step[r]]
        ok(r) == verdicts[r] = "ok"
        fs(r) == Append(failures[r], [reason |-> verdicts[r], at |-> now])
        over(r) == r \in DOMAIN verdicts /\ (ok(r) \/ step[r] = Len(Chain(route[r])))
        on(r) == r \in DOMAIN verdicts /\ ~ over(r)
    IN  /\ pc' = [r \in Requests |-> IF over(r) THEN "answered"
                                     ELSE IF on(r) THEN "verifying" ELSE pc[r]]
        /\ step' = [r \in Requests |-> IF on(r) THEN step[r] + 1 ELSE step[r]]
        /\ failures' = [r \in Requests |->
               IF r \in DOMAIN verdicts /\ ~ ok(r) THEN fs(r) ELSE failures[r]]
        /\ status' = [r \in Requests |->
               IF ~ over(r) THEN status[r]
               ELSE IF ok(r) THEN RoleStatus(route[r], offer[r], RowFor(m(r), offer[r].iss))
               ELSE StatusForReason(MostTelling(fs(r)))]
        /\ answeredAt' = [r \in Requests |-> IF over(r) THEN now ELSE answeredAt[r]]
        /\ UNCHANGED <<route, offer>>

-----------------------------------------------------------------------------
Init ==
    /\ now = 0
    /\ publishedAt \in [Kids -> {0, Never}]
    /\ retiredAt = [k \in Kids |-> Never]
    /\ keySet = [v \in Resolvers |-> {}]
    /\ fetchedAt = [v \in Resolvers |-> -1]
    /\ fetchSince = [v \in Resolvers |-> -1]
    /\ reply = [v \in Resolvers |-> <<>>]
    /\ pc = [r \in Requests |-> "idle"]
    /\ route \in [Requests -> {Decorated(s[1], s[2]) : s \in Routes}]
    /\ offer \in [Requests -> Offers]
    /\ step = [r \in Requests |-> 1]
    /\ failures = [r \in Requests |-> <<>>]
    /\ status = [r \in Requests |-> 0]
    /\ answeredAt = [r \in Requests |-> Never]

\* AuthGuard.use up to the first verifier.  An anonymous route runs its handler;
\* a route that names no method, or one without verifier, is an error (500).
Arrive(r) ==
    LET wrong == \/ Chain(route[r]) = <<>>
                 \/ \E i \in 1..Len(Chain(route[r])) : Chain(route[r])[i] \notin Methods
        code == IF route[r].anonymous THEN 200 ELSE IF wrong THEN 500 ELSE 0
    IN  /\ pc[r] = "idle"
        /\ status' = [status EXCEPT ![r] = code]
        /\ pc' = [pc EXCEPT ![r] = IF code = 0 THEN "verifying" ELSE "answered"]
        /\ answeredAt' = [answeredAt EXCEPT ![r] = IF code = 0 THEN @ ELSE now]
        /\ UNCHANGED <<now, idp, keys, route, offer, step, failures>>

\* One verifier extracts the credential and judges it without waiting.
Verify(r) ==
    LET m == Chain(route[r])[step[r]]
    IN  /\ pc[r] = "verifying"
        /\ ~ MustFetch(m, offer[r])
        /\ \E verdict \in {Verdict(m, offer[r])} : Settle([x \in {r} |-> verdict])
        /\ UNCHANGED <<now, idp, keys>>

\* The key set is too old, or has no such key and may be fetched again: the
\* request waits, for the fetch under way or for one that begins now.
AwaitKeys(r) ==
    LET m == Chain(route[r])[step[r]]
        v == <<m, offer[r].iss>>
    IN  /\ pc[r] = "verifying"
        /\ MustFetch(m, offer[r])
        /\ pc' = [pc EXCEPT ![r] = "fetching"]
        /\ fetchSince' = [fetchSince EXCEPT ![v] = IF @ = -1 THEN now ELSE @]
        /\ UNCHANGED <<now, idp, keySet, fetchedAt, reply, route, offer, step,
                       failures, status, answeredAt>>

Waiting(v) ==
    {r \in Requests : pc[r] = "fetching" /\ <<Chain(route[r])[step[r]], offer[r].iss>> = v}

\* The provider answers with the keys it publishes; the answer is on its way.
ProviderReplies(v) ==
    /\ fetchSince[v] # -1 /\ reply[v] = <<>>
    /\ reply' = [reply EXCEPT ![v] = <<Published>>]
    /\ UNCHANGED <<now, idp, keySet, fetchedAt, fetchSince, request>>

\* The answer arrives: the key set is replaced, everyone who waited is judged.
FetchEnds(v) ==
    /\ reply[v] # <<>>
    /\ keySet' = [keySet EXCEPT ![v] = reply[v][1]]
    /\ fetchedAt' = [fetchedAt EXCEPT ![v] = now]
    /\ fetchSince' = [fetchSince EXCEPT ![v] = -1]
    /\ reply' = [reply EXCEPT ![v] = <<>>]
    /\ Settle([r \in Waiting(v) |-> JudgedBy(v[1], offer[r], reply[v][1])])
    /\ UNCHANGED <<now, idp>>

\* Mutant: nobody is told that the fetch failed.
FetchFailsSilently(v) ==
    /\ fetchSince[v] # -1
    /\ fetchSince' = [fetchSince EXCEPT ![v] = -1]
    /\ reply' = [reply EXCEPT ![v] = <<>>]
    /\ UNCHANGED <<now, idp, keySet, fetchedAt, request>>

\* The provider cannot be reached, or its answer does not come in time.
FetchFails(v) ==
    /\ fetchSince[v] # -1
    /\ fetchSince' = [fetchSince EXCEPT ![v] = -1]
    /\ reply' = [reply EXCEPT ![v] = <<>>]
    /\ Settle([r \in Waiting(v) |-> "indeterminate"])
    /\ UNCHANGED <<now, idp, keySet, fetchedAt>>

\* The provider rotates its keys: each is published once and retired once.
Publish(k) ==
    /\ publishedAt[k] = Never
    /\ publishedAt' = [publishedAt EXCEPT ![k] = now]
    /\ UNCHANGED <<now, retiredAt, keys, request>>

Retire(k) ==
    /\ publishedAt[k] # Never /\ retiredAt[k] = Never
    /\ retiredAt' = [retiredAt EXCEPT ![k] = now]
    /\ UNCHANGED <<now, publishedAt, keys, request>>

\* Time does not pass the deadline of a fetch.
Tick ==
    /\ now < MaxTime
    /\ \A v \in Resolvers : fetchSince[v] # -1 => now < fetchSince[v] + Timeout
    /\ now' = now + 1
    /\ UNCHANGED <<idp, keys, request>>

Proceed(r) == Arrive(r) \/ Verify(r) \/ AwaitKeys(r)

Next ==
    \/ \E r \in Requests : Proceed(r)
    \/ \E v \in Resolvers : ProviderReplies(v) \/ FetchEnds(v) \/ FetchFails(v)
    \/ \E k \in Kids : Publish(k) \/ Retire(k)
    \/ Tick

\* Promises continue, and every fetch ends by its timeout.
Fairness ==
    /\ \A r \in Requests : WF_vars(Proceed(r))
    /\ \A v \in Resolvers : WF_vars(FetchFails(v))

Spec == Init /\ [][Next]_vars
FairSpec == Spec /\ Fairness

-----------------------------------------------------------------------------
Failure == [reason : Reasons, at : 0..MaxTime]
TypeOK ==
    /\ now \in 0..MaxTime
    /\ publishedAt \in [Kids -> 0..Never] /\ retiredAt \in [Kids -> 0..Never]
    /\ keySet \in [Resolvers -> SUBSET Kids]
    /\ fetchedAt \in [Resolvers -> -1..MaxTime] /\ fetchSince \in [Resolvers -> -1..MaxTime]
    /\ reply \in [Resolvers -> {<<>>} \cup {<<s>> : s \in SUBSET Kids}]
    /\ pc \in [Requests -> {"idle", "verifying", "fetching", "answered"}]
    /\ route \in [Requests -> {Decorated(s[1], s[2]) : s \in Routes}] /\ offer \in [Requests -> Offers]
    /\ step \in [Requests -> Nat] /\ failures \in [Requests -> Seq(Failure)]
    /\ status \in [Requests -> {0, 200, 401, 403, 500, 503}]
    /\ answeredAt \in [Requests -> 0..Never]

\* A token is good for a method at time t: signed by the right party, for us,
\* in time, with an algorithm that the issuer's row, and its inline key if it
\* has one, allows.
Genuine(m, o, t) ==
    /\ o.scheme = "bearer" /\ o.parses /\ o.sub /\ t < o.until
    /\ Trusts(m, o.iss)
    /\ o.aud = RowFor(m, o.iss).audience
    /\ o.alg \in RowFor(m, o.iss).algorithms
    /\ IF HasRow(m, o.iss, "value")
       THEN o.signer = StaticRow(m, o.iss).key /\ o.alg \in StaticRow(m, o.iss).algorithms
       ELSE o.signer \in Kids /\ o.kid \in {NoKid, o.signer}

Stack(rt) == rt.atMethod \o rt.atClass
Nearest(rt, by) ==
    Stack(rt)[CHOOSE i \in Places(Stack(rt), by) : \A j \in Places(Stack(rt), by) : i <= j]
Opened(rt) == Places(rt.atMethod, "Anonymous") # {}
RolesAsked(rt) == {Stack(rt)[i].roles : i \in Places(Stack(rt), "RequireRoles")} \ {{}}

\* The handler of a guarded route runs only for a genuine token of a method the
\* nearest @Authenticate names, with a role of every @RequireRoles of class and
\* method; and a key the provider has retired is believed no longer than the
\* key set's life and one timeout (JwtVerifier.verify, AuthGuard.use).
AdmittedSoundly ==
    \A r \in Requests : status[r] = 200 /\ ~ Opened(route[r]) =>
        \E i \in 1..Len(Chain(route[r])) :
            LET m == Chain(route[r])[i]
                o == offer[r]
                named == Nearest(route[r], "Authenticate").methods
            IN  /\ Genuine(m, o, answeredAt[r])
                /\ HasRow(m, o.iss, "value")
                   \/ answeredAt[r] < retiredAt[o.signer] + Ttl + Timeout
                /\ \A anyOf \in RolesAsked(route[r]) :
                       anyOf \cap Claimed(o, RowFor(m, o.iss).rolesClaim) # {}
                /\ \E j \in DOMAIN named : named[j] = m

\* The document says what the guard does: every refusal a caller meets is there,
\* the 403 with the requirements of class and method together, and an open
\* operation carries neither padlock nor refusal (decorators.ts, documentAuth,
\* documentRoles).
DocumentedAsGuarded ==
    \A r \in Requests : pc[r] = "answered" =>
        LET open == Opened(route[r])
        IN  /\ status[r] \in {401, 403, 503} => status[r] \in route[r].responses
            /\ route[r].security = IF open THEN "none" ELSE "bearer"
            /\ route[r].described = IF open THEN {} ELSE RolesAsked(route[r])
            /\ open => route[r].responses = {}

\* A good token is not blamed for our own trouble: whatever outage, rotation or
\* cooldown comes between, a request is refused as one with a bad credential
\* (401) only after every method of its route was tried, and found the token no
\* good at a time when its key had not been published for the cooldown and one
\* timeout (Authenticator.mostTelling, RemoteJwksSource.getKey).
GoodTokenNotBlamed ==
    \A r \in Requests : status[r] = 401 =>
        /\ Len(failures[r]) = Len(Chain(route[r]))
        /\ \A i \in 1..Len(failures[r]) :
            LET m == Chain(route[r])[i]
                o == offer[r]
                at == failures[r][i].at
            IN  ~ (/\ Genuine(m, o, at)
                   /\ \/ HasRow(m, o.iss, "value")
                      \/ /\ o.kid = o.signer /\ retiredAt[o.signer] = Never
                         /\ publishedAt[o.signer] + Cooldown + Timeout <= at)

\* No request hangs on a provider that never answers (timeoutMs).
EveryRequestAnswered == \A r \in Requests : <>(pc[r] = "answered")
=============================================================================

----------------------------- MODULE UiSession -----------------------------
(***************************************************************************)
(* One tab of a UI behind a login (packages/ui-auth): the provider that     *)
(* looks for a session when the page loads and renews it before it expires, *)
(* the callback page that trades the code, and the two flags in session     *)
(* storage that outlive the page loads in between.                          *)
(*                                                                          *)
(* Tokens are kept in memory: every load begins without one.  The identity  *)
(* provider and the OIDC client library are external: a redirect leaves the *)
(* page, and the browser comes back on the callback route.                  *)
(***************************************************************************)
EXTENDS Naturals

CONSTANTS MAX_FUTILE_RENEWALS,
          Places,      \* addresses of the UI, with their query
          Home,        \* the one the app falls back to
          Callback,    \* the callback route with nothing in its query
          Coded,       \* addresses of the app with a code or an error in their query
          Unsafe       \* those that may not be returned to: not one plain path of the
                       \* app, or the callback route itself

ASSUME SessionAssumption ==
    /\ MAX_FUTILE_RENEWALS \in Nat
    /\ Callback \in Unsafe /\ Callback \notin Coded /\ Home \notin Coded

VARIABLES
    blocked,     \* session storage cannot be used
    skewed,      \* the clock is so far ahead that a new token is due already
    page,        \* "app", "away", or the callback route by what came back ("bare":
                 \* nothing, it was opened by hand)
    asked,       \* why the page left
    auth,        \* the provider's state: "authenticated", "anonymous", or loading,
                 \* with recover under way ("recovering") or waiting for an answer
    token,       \* "none", "valid", "due" for renewal, "expired"
    failed,      \* no answer is coming: the callback page failed, or is not there
    timer,       \* a renewal is scheduled
    ssoAttempted, futileRenewals,  \* in session storage
    place,       \* the address of the app's page, shown now or last
    returnTo,    \* the address sent along with the redirect
    goal,        \* where the user last went by themselves
    idpSession,  \* the identity provider has a session of this browser
    hops,        \* redirects since the user or the clock last did something
    loggedOut    \* the user signed out and has not asked to sign in since

tab == <<page, asked, auth, token, failed, timer>>
storage == <<ssoAttempted, futileRenewals>>
places == <<place, returnTo, goal>>
svars == <<blocked, skewed, tab, storage, places, idpSession, hops, loggedOut>>

SsoAlreadyAttempted == blocked \/ ssoAttempted
FutileRenewals == IF blocked THEN MAX_FUTILE_RENEWALS ELSE futileRenewals

Where(to) == IF to = Callback THEN "bare" ELSE "app"

\* isHandlingCallback goes by the query, not by the route: a code or an error means that the
\* callback page answers, although there is none at an address of the app.
IsHandlingCallback(at, to) == at \in {"code", "denied", "refused"} \/ to \in Coded

\* A page load: in a callback the provider waits, else it recovers.
PageLoads(at, to) ==
    /\ page' = at /\ token' = "none"
    /\ auth' = IF IsHandlingCallback(at, to) THEN "loading" ELSE "recovering"
    /\ failed' = (at = "app" /\ to \in Coded)
    /\ timer' = FALSE

CurrentReturnTo == place

\* signinRedirect or signoutRedirect: the page is leaving, the former with the
\* address it is at.
Leave(why) ==
    /\ page' = "away" /\ asked' = why
    /\ returnTo' = IF why = "logout" THEN Home ELSE CurrentReturnTo
    /\ UNCHANGED <<place, goal>>
Stays == UNCHANGED <<page, asked, places>>

\* routePathOf, of what safeReturnTo let through.
RoutePathOf(to) == IF to \in Unsafe THEN Home ELSE to

\* What the page shows: the app behind the gate (Protected), or the callback page.
Shown ==
    CASE page = "app" /\ auth = "authenticated" -> "the app"
      [] page = "app" /\ auth = "anonymous" -> "the sign-in page"
      [] page # "app" /\ failed -> "a retry"
      [] OTHER -> "loading"

SessionTypeOK ==
    /\ blocked \in BOOLEAN /\ skewed \in BOOLEAN /\ failed \in BOOLEAN /\ timer \in BOOLEAN
    /\ page \in {"app", "bare", "away", "code", "denied", "refused"}
    /\ asked \in {"nothing", "probe", "renewal", "login", "logout"}
    /\ auth \in {"recovering", "loading", "authenticated", "anonymous"}
    /\ token \in {"none", "valid", "due", "expired"}
    /\ ssoAttempted \in BOOLEAN /\ futileRenewals \in 0..MAX_FUTILE_RENEWALS
    /\ place \in Places \cup {Home} /\ returnTo \in Places \cup {Home} /\ goal \in Places \cup {Home}
    /\ idpSession \in BOOLEAN /\ hops \in Nat /\ loggedOut \in BOOLEAN

SessionInit ==
    /\ blocked \in BOOLEAN /\ skewed \in BOOLEAN /\ idpSession \in BOOLEAN
    /\ place \in Places /\ goal = place /\ returnTo = Home
    /\ page = Where(place) /\ asked = "nothing" /\ token = "none" /\ timer = FALSE
    /\ auth = (IF place \in Coded THEN "loading" ELSE "recovering") /\ failed = (place \in Coded)
    /\ ssoAttempted = FALSE /\ futileRenewals = 0
    /\ hops = 0 /\ loggedOut = FALSE

\* recover: nothing is in memory, so ask the provider once whether the browser
\* has a session; if even that fails, or was done before, the tab is anonymous.
Recover ==
    /\ page \in {"app", "bare"} /\ auth = "recovering"
    /\ \/ /\ ~ SsoAlreadyAttempted
          /\ ssoAttempted' = TRUE
          /\ \/ Leave("probe") /\ hops' = hops + 1 /\ UNCHANGED auth
             \/ auth' = "anonymous" /\ Stays /\ UNCHANGED hops
       \/ /\ SsoAlreadyAttempted
          /\ auth' = "anonymous"
          /\ Stays /\ UNCHANGED <<ssoAttempted, hops>>
    /\ UNCHANGED <<blocked, skewed, token, failed, timer, futileRenewals, idpSession, loggedOut>>

\* The identity provider sends the browser back: without asking the user for
\* a probe or a renewal, after a login form, or after the session's end, which
\* may fail.
IdpAnswers ==
    /\ page = "away"
    /\ \/ /\ asked \in {"probe", "renewal"}
          /\ PageLoads(IF idpSession THEN "code" ELSE "denied", Callback)
          /\ UNCHANGED <<idpSession, places>>
       \/ asked = "login" /\ PageLoads("code", Callback) /\ idpSession' = TRUE /\ UNCHANGED places
       \/ /\ asked = "logout" /\ PageLoads("app", Home) /\ idpSession' \in {FALSE, idpSession}
          /\ place' = Home /\ goal' = Home /\ UNCHANGED returnTo
       \/ asked # "logout" /\ PageLoads("refused", Callback) /\ UNCHANGED <<idpSession, places>>
    /\ asked' = "nothing"
    /\ UNCHANGED <<blocked, skewed, storage, hops, loggedOut>>

\* Mutant: a renewal that brought nothing is not counted.
AdoptUncounted ==
    /\ auth' = "authenticated"
    /\ token' = IF skewed THEN "due" ELSE "valid"
    /\ timer' = TRUE /\ futileRenewals' = 0

\* userLoaded, and the effect that schedules the renewal: a token that is due
\* on arrival is renewed only so many times in a row.
Adopt ==
    IF skewed /\ FutileRenewals >= MAX_FUTILE_RENEWALS
    THEN /\ auth' = "anonymous" /\ token' = "none" /\ timer' = FALSE
         /\ futileRenewals' = 0
    ELSE /\ auth' = "authenticated"
         /\ token' = IF skewed THEN "due" ELSE "valid"
         /\ timer' = TRUE
         /\ futileRenewals' = IF skewed /\ ~ blocked THEN futileRenewals + 1 ELSE 0

\* Mutant: the callback page does not tell the provider that there is no session.
CallbackDeniedSilently ==
    /\ page = "denied" /\ auth = "loading"
    /\ page' = "app" /\ place' = Home /\ goal' = Home
    /\ UNCHANGED <<blocked, skewed, asked, auth, token, failed, timer, storage, returnTo, idpSession, hops, loggedOut>>

\* The callback page with an answer that there is no session: an ordinary
\* outcome the provider has to be told of; the app begins at its home.
CallbackDenied ==
    /\ page = "denied" /\ auth = "loading"
    /\ page' = "app" /\ auth' = "anonymous" /\ token' = "none"
    /\ place' = Home /\ goal' = Home
    /\ UNCHANGED <<blocked, skewed, asked, failed, timer, storage, returnTo, idpSession, hops, loggedOut>>

\* The callback page with a code, which is traded once, or not: back to where
\* the redirect began.
CallbackExchanges ==
    /\ page = "code" /\ auth = "loading" /\ ~ failed
    /\ page' = "app" /\ ssoAttempted' = FALSE
    /\ place' = RoutePathOf(returnTo)
    /\ Adopt
    /\ UNCHANGED <<blocked, skewed, asked, failed, returnTo, goal, idpSession, hops, loggedOut>>

\* The code is not accepted, or there is none: the page offers a retry, and the provider is
\* not told.
CallbackFails ==
    /\ page \in {"code", "refused", "bare"} /\ ~ failed
    /\ page' = (IF page = "bare" THEN "bare" ELSE "refused") /\ failed' = TRUE
    /\ UNCHANGED <<blocked, skewed, asked, auth, token, timer, storage, places, idpSession, hops, loggedOut>>

\* The timer fires inside the skew window; a redirect that cannot even be
\* started leaves the session as it is.
Renew ==
    /\ page = "app" /\ timer /\ token \in {"due", "expired"}
    /\ timer' = FALSE
    /\ \/ Leave("renewal") /\ hops' = hops + 1
       \/ Stays /\ UNCHANGED hops
    /\ UNCHANGED <<blocked, skewed, auth, token, failed, storage, idpSession, loggedOut>>

TimePasses ==
    /\ token \in {"valid", "due"} /\ page = "app"
    /\ token' = IF token = "valid" THEN "due" ELSE "expired"
    /\ hops' = 0
    /\ UNCHANGED <<blocked, skewed, page, asked, auth, failed, timer, storage, places, idpSession, loggedOut>>

Login ==
    /\ page = "app" /\ auth = "anonymous"
    /\ ssoAttempted' = FALSE
    /\ Leave("login")
    /\ hops' = 0 /\ loggedOut' = FALSE
    /\ UNCHANGED <<blocked, skewed, auth, token, failed, timer, futileRenewals, idpSession>>

\* logout: the library drops the user before it leaves.
Logout ==
    /\ page = "app" /\ auth = "authenticated"
    /\ ssoAttempted' = TRUE
    /\ auth' = "anonymous" /\ token' = "none" /\ timer' = FALSE
    /\ Leave("logout")
    /\ hops' = 0 /\ loggedOut' = TRUE
    /\ UNCHANGED <<blocked, skewed, failed, futileRenewals, idpSession>>

\* The user goes somewhere in the app, opens an address of it, or loads the page
\* again, whatever it is.
Go(to) == place' = to /\ goal' = to /\ hops' = 0 /\ UNCHANGED returnTo

Navigate ==
    /\ page = "app" /\ auth = "authenticated"
    /\ \E to \in Places \ (Coded \cup {Callback}) : Go(to)
    /\ UNCHANGED <<blocked, skewed, tab, storage, idpSession, loggedOut>>

\* The logo in the header leads home without a page load, signed in or not, and also from a
\* callback page that failed.
HomeLink ==
    /\ page = "app" \/ (page \in {"refused", "bare"} /\ failed)
    /\ page' = "app" /\ Go(Home)
    /\ UNCHANGED <<blocked, skewed, asked, auth, token, failed, timer, storage, idpSession, loggedOut>>

Reload ==
    /\ page # "away"
    /\ \/ PageLoads(page, place) /\ hops' = 0 /\ UNCHANGED places
       \/ \E to \in Places : PageLoads(Where(to), to) /\ Go(to)
    /\ UNCHANGED <<blocked, skewed, asked, storage, idpSession, loggedOut>>

\* The session at the identity provider begins or ends in another app.
Elsewhere ==
    /\ idpSession' = ~ idpSession
    /\ UNCHANGED <<blocked, skewed, tab, storage, places, hops, loggedOut>>

SessionNext ==
    \/ Recover \/ IdpAnswers \/ CallbackDenied \/ CallbackExchanges \/ CallbackFails
    \/ Renew \/ TimePasses \/ Login \/ Logout \/ Navigate \/ HomeLink \/ Reload \/ Elsewhere

\* Promises continue, and the identity provider answers.
SessionFairness ==
    /\ WF_svars(Recover) /\ WF_svars(IdpAnswers)
    /\ WF_svars(CallbackDenied) /\ WF_svars(CallbackExchanges \/ CallbackFails)

SessionSpec == SessionInit /\ [][SessionNext]_svars /\ SessionFairness

-----------------------------------------------------------------------------
\* The page never goes round: between two things the user or the clock does
\* there is at most the one probe and so many renewals, even with a wrong clock
\* and with storage that forgets (AuthContext.tsx, SSO_ATTEMPTED, RENEW_ATTEMPTS).
NoRedirectLoop == hops <= 1 + MAX_FUTILE_RENEWALS

\* Whoever signed out is not signed in again by a probe or a reload, although
\* the identity provider may still have a session (logout).
LoggedOutStays == loggedOut => auth # "authenticated"

\* Redirects do not lose the user's place: whoever is signed in is where they
\* last went, after whatever renewals, unless that is nowhere to return to
\* (AuthCallback.tsx, currentReturnTo).  Only a tab without a session begins anew.
PlaceKept == (page = "app" /\ auth = "authenticated") => place \in {goal, RoutePathOf(goal)}

\* A tab is sound: no redirect loop, signed out stays signed out, and the place is kept.
SessionSound == NoRedirectLoop /\ LoggedOutStays /\ PlaceKept

\* The provider waits for a callback that will not answer: the page was loaded at an address
\* of the app with a code or an error in its query, or left from a failed callback by a link.
Stranded == page = "app" /\ auth = "loading" /\ failed

\* The page does not say for ever that it is loading: the provider settles, or the callback
\* page says that it failed, whatever was loaded, left and reloaded before (resolveAnonymous),
\* unless the user goes on loading pages before any of them settles.  The one way to stay in
\* limbo until the next page load is to be stranded as above, which the code does nothing
\* about.
NoLimbo == []<>(Shown # "loading" \/ Stranded) \/ []<><<Reload>>_svars
=============================================================================

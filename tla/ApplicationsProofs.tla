------------------------- MODULE ApplicationsProofs -------------------------
(***************************************************************************)
(* The applications: the login of a tab, the codes of the QR manager, the  *)
(* dashboard, and the feeder of the interactive map.                       *)
(*                                                                         *)
(* A tab never goes round, does not sign in again who has signed out, and  *)
(* keeps the place of its user, for any number of renewals allowed, any    *)
(* addresses, clocks and storage.  Each redirect is either the one probe   *)
(* or paid for by a renewal that is counted (Counted); the address sent    *)
(* along leads back to the user's place (Returning).                       *)
(*                                                                         *)
(* A label leads to its record and a code is active as it was last asked   *)
(* to be, for any number of administrators, documents and slugs.  Slugs    *)
(* are apart (SlugsApart), and the label's record, as long as it is        *)
(* stored, has the slug that was printed (LabelTrue).                      *)
(*                                                                         *)
(* A tile leads to its server, and every record that leads to one has a    *)
(* tile, for any list of records: what the maps of anchors find is an      *)
(* anchor the record leads to (TargetLeads).                               *)
(*                                                                         *)
(* The LEDs tell the weather and the picture marks the cities, for any     *)
(* pictures, radius and surface: a sample is read where the picture has it *)
(* (DecodedPicture), the pixels read are those near the city               *)
(* (SquareIsNear), and a mean of finitely many lies between two of them    *)
(* (TotalBounds, MeanBetween).                                             *)
(***************************************************************************)
EXTENDS UiSession, QrCodes, Dashboard, RadarMap, Integers, NaturalsInduction, WellFoundedInduction,
        FiniteSetTheorems, SequenceTheorems, TLAPS

\* A login, a probe or a renewal is under way; the answer of the identity provider is here.
Redirected == page = "away" /\ asked # "logout"
Called == page \in {"code", "denied", "refused"}
Renewable == page = "app" /\ timer /\ token \in {"due", "expired"}

\* A page that is not the app knows no session and renews nothing.
Waiting ==
    /\ page = "away" => asked # "nothing"
    /\ Called => auth = "loading" /\ ~ timer /\ token = "none"
    /\ (page = "app" /\ auth # "authenticated") => ~ timer /\ token = "none"
    /\ page = "bare" => place = Callback /\ auth \in {"recovering", "anonymous"} /\ ~ timer /\ token = "none"

\* Every redirect is either the first or paid for by a renewal that is counted.
Counted ==
    /\ hops <= 1 + MAX_FUTILE_RENEWALS
    /\ (page \in {"app", "bare"} /\ auth = "recovering") \/ (page = "away" /\ asked = "logout") => hops = 0
    /\ Renewable => hops <= futileRenewals
    /\ (Redirected \/ Called) /\ skewed /\ ~ blocked => hops <= futileRenewals + 1

\* Signing out leads back to the app, which does not ask again.
SignedOut ==
    loggedOut =>
        /\ blocked \/ ssoAttempted
        /\ page \in {"app", "bare"} \/ (page = "away" /\ asked = "logout")
        /\ auth # "authenticated"

\* The address sent along is that of the user's place, or where that one leads.
Kept(p) == p \in {goal, RoutePathOf(goal)}
Returning == Kept(place) /\ (Redirected \/ Called => Kept(returnTo))

\* The parts of the type.
Flags == {blocked, skewed, failed, timer, ssoAttempted, idpSession, loggedOut} \subseteq BOOLEAN
Numbers == futileRenewals \in 0..MAX_FUTILE_RENEWALS /\ hops \in Nat
Stages ==
    /\ page \in {"app", "bare", "away", "code", "denied", "refused"}
    /\ asked \in {"nothing", "probe", "renewal", "login", "logout"}
    /\ auth \in {"recovering", "loading", "authenticated", "anonymous"}
    /\ token \in {"none", "valid", "due", "expired"}
    /\ {place, returnTo, goal} \subseteq Places \cup {Home}

SessionInv == SessionTypeOK /\ Waiting /\ Counted /\ SignedOut /\ Returning

-----------------------------------------------------------------------------
USE SessionAssumption

\* A page that loads has asked for nothing yet.
LEMMA SessionStarts == SessionInit => SessionInv
<1>1. SUFFICES ASSUME SessionInit
               PROVE  SessionInv
    OBVIOUS
<1>2. SessionTypeOK
    <2>1. Flags
        <3>1. failed = (place \in Coded)
            BY <1>1 DEF SessionInit
        <3>2. failed \in BOOLEAN
            <4>1. CASE place \in Coded
                BY <3>1, <4>1
            <4>2. CASE place \notin Coded
                BY <3>1, <4>2
            <4>3. QED
                BY <4>1, <4>2
        <3>3. {blocked, skewed, timer, ssoAttempted, idpSession, loggedOut} \subseteq BOOLEAN
            BY <1>1 DEF SessionInit
        <3>4. QED
            BY <3>2, <3>3 DEF Flags
    <2>2. Numbers
        BY <1>1 DEF SessionInit, Where, Numbers
    <2>3. Stages
        BY <1>1 DEF SessionInit, Where, Stages
    <2>4. QED
        BY <2>1, <2>2, <2>3 DEF SessionTypeOK, Flags, Numbers, Stages
<1>3. Waiting /\ Counted
    BY <1>1 DEF SessionInit, Where, Waiting, Counted, Redirected, Called, Renewable
<1>4. SignedOut
    BY <1>1 DEF SessionInit, Where, SignedOut
<1>5. Returning
    BY <1>1 DEF SessionInit, Where, Returning, Redirected, Called, Kept
<1>6. QED
    BY <1>2, <1>3, <1>4, <1>5 DEF SessionInv

\* The probe is the only redirect of a page that has just been loaded.
LEMMA RecoverStep ==
    ASSUME SessionInv, Recover
    PROVE  SessionInv'
<1>1. SessionTypeOK'
    <2>1. Flags'
        BY DEF SessionInv, SessionTypeOK, Flags, Recover, SsoAlreadyAttempted, Stays, Leave,
               CurrentReturnTo, tab, storage, places
    <2>2. Numbers'
        BY DEF SessionInv, SessionTypeOK, Numbers, Recover, SsoAlreadyAttempted, Stays, Leave,
               CurrentReturnTo, tab, storage, places
    <2>3. Stages'
        BY DEF SessionInv, SessionTypeOK, Stages, Recover, SsoAlreadyAttempted, Stays, Leave,
               CurrentReturnTo, tab, storage, places
    <2>4. QED
        BY <2>1, <2>2, <2>3 DEF SessionTypeOK, Flags, Numbers, Stages
<1>2. Waiting'
    BY DEF SessionInv, SessionTypeOK, Waiting, Called, Recover, SsoAlreadyAttempted, Stays, Leave,
           CurrentReturnTo, tab, storage, places
<1>3. Counted'
    BY DEF SessionInv, SessionTypeOK, Waiting, Counted, Redirected, Called, Renewable, Recover,
           SsoAlreadyAttempted, Stays, Leave, CurrentReturnTo, tab, storage, places
<1>4. SignedOut'
    BY DEF SessionInv, SessionTypeOK, Waiting, SignedOut, Recover, SsoAlreadyAttempted, Stays, Leave,
           CurrentReturnTo, tab, storage, places
<1>5. Returning'
    BY DEF SessionInv, SessionTypeOK, Returning, Redirected, Called, Kept, RoutePathOf, Recover,
           SsoAlreadyAttempted, Stays, Leave, CurrentReturnTo, tab, storage, places
<1>6. QED
    BY <1>1, <1>2, <1>3, <1>4, <1>5 DEF SessionInv

\* The answer is on the callback route, or the page is home after a logout.
LEMMA IdpAnswersStep ==
    ASSUME SessionInv, IdpAnswers
    PROVE  SessionInv'
<1>1. SessionTypeOK'
    <2>1. Flags'
        BY DEF SessionInv, SessionTypeOK, Flags, IdpAnswers, PageLoads, IsHandlingCallback, tab, storage, places
    <2>2. Numbers'
        BY DEF SessionInv, SessionTypeOK, Numbers, IdpAnswers, PageLoads, IsHandlingCallback, tab, storage, places
    <2>3. Stages'
        BY DEF SessionInv, SessionTypeOK, Stages, IdpAnswers, PageLoads, IsHandlingCallback, tab, storage, places
    <2>4. QED
        BY <2>1, <2>2, <2>3 DEF SessionTypeOK, Flags, Numbers, Stages
<1>2. Waiting'
    BY DEF SessionInv, SessionTypeOK, Waiting, Called, IdpAnswers, PageLoads, IsHandlingCallback, tab, storage, places
<1>3. Counted'
    BY DEF SessionInv, SessionTypeOK, Waiting, Counted, Redirected, Called, Renewable, IdpAnswers,
           PageLoads, IsHandlingCallback, tab, storage, places
<1>4. SignedOut'
    BY DEF SessionInv, SessionTypeOK, Waiting, SignedOut, IdpAnswers, PageLoads, IsHandlingCallback, tab, storage, places
<1>5. Returning'
    BY DEF SessionInv, SessionTypeOK, Returning, Redirected, Called, Kept, RoutePathOf, IdpAnswers,
           PageLoads, IsHandlingCallback, tab, storage, places
<1>6. QED
    BY <1>1, <1>2, <1>3, <1>4, <1>5 DEF SessionInv

\* No session: the app begins at its home.
LEMMA CallbackDeniedStep ==
    ASSUME SessionInv, CallbackDenied
    PROVE  SessionInv'
<1>1. SessionTypeOK'
    <2>1. Flags'
        BY DEF SessionInv, SessionTypeOK, Flags, CallbackDenied, tab, storage, places
    <2>2. Numbers'
        BY DEF SessionInv, SessionTypeOK, Numbers, CallbackDenied, tab, storage, places
    <2>3. Stages'
        BY DEF SessionInv, SessionTypeOK, Stages, CallbackDenied, tab, storage, places
    <2>4. QED
        BY <2>1, <2>2, <2>3 DEF SessionTypeOK, Flags, Numbers, Stages
<1>2. Waiting'
    BY DEF SessionInv, SessionTypeOK, Waiting, Called, CallbackDenied, tab, storage, places
<1>3. Counted'
    BY DEF SessionInv, SessionTypeOK, Waiting, Counted, Redirected, Called, Renewable,
           CallbackDenied, tab, storage, places
<1>4. SignedOut'
    BY DEF SessionInv, SessionTypeOK, Waiting, SignedOut, CallbackDenied, tab, storage, places
<1>5. Returning'
    BY DEF SessionInv, SessionTypeOK, Returning, Redirected, Called, Kept, RoutePathOf,
           CallbackDenied, tab, storage, places
<1>6. QED
    BY <1>1, <1>2, <1>3, <1>4, <1>5 DEF SessionInv

\* The code is traded, and a token due on arrival is a renewal more.
LEMMA CallbackExchangesStep ==
    ASSUME SessionInv, CallbackExchanges
    PROVE  SessionInv'
<1>1. SessionTypeOK'
    <2>1. Flags'
        BY DEF SessionInv, SessionTypeOK, Flags, CallbackExchanges, Adopt, FutileRenewals,
               RoutePathOf, tab, storage, places
    <2>2. Numbers'
        BY DEF SessionInv, SessionTypeOK, Numbers, CallbackExchanges, Adopt, FutileRenewals,
               RoutePathOf, tab, storage, places
    <2>3. Stages'
        BY DEF SessionInv, SessionTypeOK, Stages, CallbackExchanges, Adopt, FutileRenewals,
               RoutePathOf, tab, storage, places
    <2>4. QED
        BY <2>1, <2>2, <2>3 DEF SessionTypeOK, Flags, Numbers, Stages
<1>2. Waiting'
    BY DEF SessionInv, SessionTypeOK, Waiting, Called, CallbackExchanges, Adopt, FutileRenewals,
           RoutePathOf, tab, storage, places
<1>3. Counted'
    BY DEF SessionInv, SessionTypeOK, Waiting, Counted, Redirected, Called, Renewable,
           CallbackExchanges, Adopt, FutileRenewals, RoutePathOf, tab, storage, places
<1>4. SignedOut'
    BY DEF SessionInv, SessionTypeOK, Waiting, SignedOut, CallbackExchanges, Adopt, FutileRenewals,
           RoutePathOf, tab, storage, places
<1>5. Returning'
    BY DEF SessionInv, SessionTypeOK, Returning, Redirected, Called, Kept, RoutePathOf,
           CallbackExchanges, Adopt, FutileRenewals, RoutePathOf, tab, storage, places
<1>6. QED
    BY <1>1, <1>2, <1>3, <1>4, <1>5 DEF SessionInv

\* The callback page shows that it failed, and stays.
LEMMA CallbackFailsStep ==
    ASSUME SessionInv, CallbackFails
    PROVE  SessionInv'
<1>1. SessionTypeOK'
    <2>1. Flags'
        BY DEF SessionInv, SessionTypeOK, Flags, CallbackFails, tab, storage, places
    <2>2. Numbers'
        BY DEF SessionInv, SessionTypeOK, Numbers, CallbackFails, tab, storage, places
    <2>3. Stages'
        BY DEF SessionInv, SessionTypeOK, Stages, CallbackFails, tab, storage, places
    <2>4. QED
        BY <2>1, <2>2, <2>3 DEF SessionTypeOK, Flags, Numbers, Stages
<1>2. Waiting'
    BY DEF SessionInv, SessionTypeOK, Waiting, Called, CallbackFails, tab, storage, places
<1>3. Counted'
    BY DEF SessionInv, SessionTypeOK, Waiting, Counted, Redirected, Called, Renewable, CallbackFails,
           tab, storage, places
<1>4. SignedOut'
    BY DEF SessionInv, SessionTypeOK, Waiting, SignedOut, CallbackFails, tab, storage, places
<1>5. Returning'
    BY DEF SessionInv, SessionTypeOK, Returning, Redirected, Called, Kept, RoutePathOf,
           CallbackFails, tab, storage, places
<1>6. QED
    BY <1>1, <1>2, <1>3, <1>4, <1>5 DEF SessionInv

\* A renewal leaves at most once for each time it was scheduled.
LEMMA RenewStep ==
    ASSUME SessionInv, Renew
    PROVE  SessionInv'
<1>1. SessionTypeOK'
    <2>1. Flags'
        BY DEF SessionInv, SessionTypeOK, Flags, Renew, Stays, Leave, CurrentReturnTo, tab, storage, places
    <2>2. Numbers'
        BY DEF SessionInv, SessionTypeOK, Numbers, Renew, Stays, Leave, CurrentReturnTo, tab, storage, places
    <2>3. Stages'
        BY DEF SessionInv, SessionTypeOK, Stages, Renew, Stays, Leave, CurrentReturnTo, tab, storage, places
    <2>4. QED
        BY <2>1, <2>2, <2>3 DEF SessionTypeOK, Flags, Numbers, Stages
<1>2. Waiting'
    BY DEF SessionInv, SessionTypeOK, Waiting, Called, Renew, Stays, Leave, CurrentReturnTo, tab,
           storage, places
<1>3. Counted'
    BY DEF SessionInv, SessionTypeOK, Waiting, Counted, Redirected, Called, Renewable, Renew, Stays,
           Leave, CurrentReturnTo, tab, storage, places
<1>4. SignedOut'
    BY DEF SessionInv, SessionTypeOK, Waiting, SignedOut, Renew, Stays, Leave, CurrentReturnTo, tab,
           storage, places
<1>5. Returning'
    BY DEF SessionInv, SessionTypeOK, Returning, Redirected, Called, Kept, RoutePathOf, Renew, Stays,
           Leave, CurrentReturnTo, tab, storage, places
<1>6. QED
    BY <1>1, <1>2, <1>3, <1>4, <1>5 DEF SessionInv

\* The clock gives the tab a new start.
LEMMA TimePassesStep ==
    ASSUME SessionInv, TimePasses
    PROVE  SessionInv'
<1>1. SessionTypeOK'
    <2>1. Flags'
        BY DEF SessionInv, SessionTypeOK, Flags, TimePasses, tab, storage, places
    <2>2. Numbers'
        BY DEF SessionInv, SessionTypeOK, Numbers, TimePasses, tab, storage, places
    <2>3. Stages'
        BY DEF SessionInv, SessionTypeOK, Stages, TimePasses, tab, storage, places
    <2>4. QED
        BY <2>1, <2>2, <2>3 DEF SessionTypeOK, Flags, Numbers, Stages
<1>2. Waiting'
    BY DEF SessionInv, SessionTypeOK, Waiting, Called, TimePasses, tab, storage, places
<1>3. Counted'
    BY DEF SessionInv, SessionTypeOK, Waiting, Counted, Redirected, Called, Renewable, TimePasses,
           tab, storage, places
<1>4. SignedOut'
    BY DEF SessionInv, SessionTypeOK, Waiting, SignedOut, TimePasses, tab, storage, places
<1>5. Returning'
    BY DEF SessionInv, SessionTypeOK, Returning, Redirected, Called, Kept, RoutePathOf, TimePasses,
           tab, storage, places
<1>6. QED
    BY <1>1, <1>2, <1>3, <1>4, <1>5 DEF SessionInv

\* The user signs in, from where they are.
LEMMA LoginStep ==
    ASSUME SessionInv, Login
    PROVE  SessionInv'
<1>1. SessionTypeOK'
    <2>1. Flags'
        BY DEF SessionInv, SessionTypeOK, Flags, Login, Leave, CurrentReturnTo, tab, storage, places
    <2>2. Numbers'
        BY DEF SessionInv, SessionTypeOK, Numbers, Login, Leave, CurrentReturnTo, tab, storage, places
    <2>3. Stages'
        BY DEF SessionInv, SessionTypeOK, Stages, Login, Leave, CurrentReturnTo, tab, storage, places
    <2>4. QED
        BY <2>1, <2>2, <2>3 DEF SessionTypeOK, Flags, Numbers, Stages
<1>2. Waiting'
    BY DEF SessionInv, SessionTypeOK, Waiting, Called, Login, Leave, CurrentReturnTo, tab, storage, places
<1>3. Counted'
    BY DEF SessionInv, SessionTypeOK, Waiting, Counted, Redirected, Called, Renewable, Login, Leave,
           CurrentReturnTo, tab, storage, places
<1>4. SignedOut'
    BY DEF SessionInv, SessionTypeOK, Waiting, SignedOut, Login, Leave, CurrentReturnTo, tab, storage, places
<1>5. Returning'
    BY DEF SessionInv, SessionTypeOK, Returning, Redirected, Called, Kept, RoutePathOf, Login, Leave,
           CurrentReturnTo, tab, storage, places
<1>6. QED
    BY <1>1, <1>2, <1>3, <1>4, <1>5 DEF SessionInv

\* The user signs out, and the flag keeps the next page from asking.
LEMMA LogoutStep ==
    ASSUME SessionInv, Logout
    PROVE  SessionInv'
<1>1. SessionTypeOK'
    <2>1. Flags'
        BY DEF SessionInv, SessionTypeOK, Flags, Logout, Leave, CurrentReturnTo, tab, storage, places
    <2>2. Numbers'
        BY DEF SessionInv, SessionTypeOK, Numbers, Logout, Leave, CurrentReturnTo, tab, storage, places
    <2>3. Stages'
        BY DEF SessionInv, SessionTypeOK, Stages, Logout, Leave, CurrentReturnTo, tab, storage, places
    <2>4. QED
        BY <2>1, <2>2, <2>3 DEF SessionTypeOK, Flags, Numbers, Stages
<1>2. Waiting'
    BY DEF SessionInv, SessionTypeOK, Waiting, Called, Logout, Leave, CurrentReturnTo, tab, storage, places
<1>3. Counted'
    BY DEF SessionInv, SessionTypeOK, Waiting, Counted, Redirected, Called, Renewable, Logout, Leave,
           CurrentReturnTo, tab, storage, places
<1>4. SignedOut'
    BY DEF SessionInv, SessionTypeOK, Waiting, SignedOut, Logout, Leave, CurrentReturnTo, tab, storage, places
<1>5. Returning'
    BY DEF SessionInv, SessionTypeOK, Returning, Redirected, Called, Kept, RoutePathOf, Logout,
           Leave, CurrentReturnTo, tab, storage, places
<1>6. QED
    BY <1>1, <1>2, <1>3, <1>4, <1>5 DEF SessionInv

\* The user goes somewhere.
LEMMA NavigateStep ==
    ASSUME SessionInv, Navigate
    PROVE  SessionInv'
<1>1. SessionTypeOK'
    <2>1. Flags'
        BY DEF SessionInv, SessionTypeOK, Flags, Navigate, Go, tab, storage, places
    <2>2. Numbers'
        BY DEF SessionInv, SessionTypeOK, Numbers, Navigate, Go, tab, storage, places
    <2>3. Stages'
        BY DEF SessionInv, SessionTypeOK, Stages, Navigate, Go, tab, storage, places
    <2>4. QED
        BY <2>1, <2>2, <2>3 DEF SessionTypeOK, Flags, Numbers, Stages
<1>2. Waiting'
    BY DEF SessionInv, SessionTypeOK, Waiting, Called, Navigate, Go, tab, storage, places
<1>3. Counted'
    BY DEF SessionInv, SessionTypeOK, Waiting, Counted, Redirected, Called, Renewable, Navigate, Go,
           tab, storage, places
<1>4. SignedOut'
    BY DEF SessionInv, SessionTypeOK, Waiting, SignedOut, Navigate, Go, tab, storage, places
<1>5. Returning'
    BY DEF SessionInv, SessionTypeOK, Returning, Redirected, Called, Kept, RoutePathOf, Navigate, Go,
           tab, storage, places
<1>6. QED
    BY <1>1, <1>2, <1>3, <1>4, <1>5 DEF SessionInv

\* The user follows the logo home.
LEMMA HomeLinkStep ==
    ASSUME SessionInv, HomeLink
    PROVE  SessionInv'
<1>1. SessionTypeOK'
    <2>1. Flags'
        BY DEF SessionInv, SessionTypeOK, Flags, HomeLink, Go, storage
    <2>2. Numbers'
        BY DEF SessionInv, SessionTypeOK, Numbers, HomeLink, Go, storage
    <2>3. Stages'
        BY DEF SessionInv, SessionTypeOK, Stages, HomeLink, Go, storage
    <2>4. QED
        BY <2>1, <2>2, <2>3 DEF SessionTypeOK, Flags, Numbers, Stages
<1>2. Waiting'
    BY DEF SessionInv, SessionTypeOK, Waiting, Called, HomeLink, Go, storage
<1>3. Counted'
    BY DEF SessionInv, SessionTypeOK, Waiting, Counted, Redirected, Called, Renewable, HomeLink, Go, storage
<1>4. SignedOut'
    BY DEF SessionInv, SessionTypeOK, Waiting, SignedOut, Called, HomeLink, Go, storage
<1>5. Returning'
    BY DEF SessionInv, SessionTypeOK, Returning, Redirected, Called, Kept, RoutePathOf, HomeLink, Go, storage
<1>6. QED
    BY <1>1, <1>2, <1>3, <1>4, <1>5 DEF SessionInv

\* The user loads a page again, or opens another.
LEMMA ReloadStep ==
    ASSUME SessionInv, Reload
    PROVE  SessionInv'
<1>1. SessionTypeOK'
    <2>1. Flags'
        BY DEF SessionInv, SessionTypeOK, Flags, Reload, PageLoads, IsHandlingCallback, Where, Go, tab, storage, places
    <2>2. Numbers'
        BY DEF SessionInv, SessionTypeOK, Numbers, Reload, PageLoads, IsHandlingCallback, Where, Go, tab, storage, places
    <2>3. Stages'
        BY DEF SessionInv, SessionTypeOK, Stages, Reload, PageLoads, IsHandlingCallback, Where, Go, tab, storage, places
    <2>4. QED
        BY <2>1, <2>2, <2>3 DEF SessionTypeOK, Flags, Numbers, Stages
<1>2. Waiting'
    BY DEF SessionInv, SessionTypeOK, Waiting, Called, Reload, PageLoads, IsHandlingCallback, Where, Go, tab, storage, places
<1>3. Counted'
    BY DEF SessionInv, SessionTypeOK, Waiting, Counted, Redirected, Called, Renewable, Reload,
           PageLoads, IsHandlingCallback, Where, Go, tab, storage, places
<1>4. SignedOut'
    BY DEF SessionInv, SessionTypeOK, Waiting, SignedOut, Reload, PageLoads, IsHandlingCallback, Where, Go, tab, storage, places
<1>5. Returning'
    BY DEF SessionInv, SessionTypeOK, Returning, Redirected, Called, Kept, RoutePathOf, Reload,
           PageLoads, IsHandlingCallback, Where, Go, tab, storage, places
<1>6. QED
    BY <1>1, <1>2, <1>3, <1>4, <1>5 DEF SessionInv

\* What happens in another app is seen by nobody here.
LEMMA ElsewhereStep ==
    ASSUME SessionInv, Elsewhere
    PROVE  SessionInv'
<1>1. SessionTypeOK'
    <2>1. Flags'
        BY DEF SessionInv, SessionTypeOK, Flags, Elsewhere, tab, storage, places
    <2>2. Numbers'
        BY DEF SessionInv, SessionTypeOK, Numbers, Elsewhere, tab, storage, places
    <2>3. Stages'
        BY DEF SessionInv, SessionTypeOK, Stages, Elsewhere, tab, storage, places
    <2>4. QED
        BY <2>1, <2>2, <2>3 DEF SessionTypeOK, Flags, Numbers, Stages
<1>2. Waiting'
    BY DEF SessionInv, SessionTypeOK, Waiting, Called, Elsewhere, tab, storage, places
<1>3. Counted'
    BY DEF SessionInv, SessionTypeOK, Waiting, Counted, Redirected, Called, Renewable, Elsewhere,
           tab, storage, places
<1>4. SignedOut'
    BY DEF SessionInv, SessionTypeOK, Waiting, SignedOut, Elsewhere, tab, storage, places
<1>5. Returning'
    BY DEF SessionInv, SessionTypeOK, Returning, Redirected, Called, Kept, RoutePathOf, Elsewhere,
           tab, storage, places
<1>6. QED
    BY <1>1, <1>2, <1>3, <1>4, <1>5 DEF SessionInv

\* One step for each action.
LEMMA SessionSteps == SessionInv /\ [SessionNext]_svars => SessionInv'
<1>1. CASE UNCHANGED svars
    BY <1>1 DEF svars, tab, storage, places, SessionInv, SessionTypeOK, Waiting, Counted, SignedOut, Returning,
           Redirected, Called, Renewable, Kept, RoutePathOf
<1>2. QED
    BY <1>1, RecoverStep, IdpAnswersStep, CallbackDeniedStep, CallbackExchangesStep, CallbackFailsStep, RenewStep, TimePassesStep, LoginStep, LogoutStep, NavigateStep, HomeLinkStep, ReloadStep, ElsewhereStep DEF SessionNext

\* The invariant holds throughout.
LEMMA SessionInvariance == SessionSpec => []SessionInv
BY SessionStarts, SessionSteps, PTL DEF SessionSpec

\* The session of a tab is of its type in every state: futileRenewals, which survives page
\* loads in session storage, never passes MAX_FUTILE_RENEWALS (AuthContext.tsx).
THEOREM SessionTypes == SessionSpec => []SessionTypeOK
BY SessionInvariance, PTL DEF SessionInv

\* For every limit on futile renewals, whatever the clock, the storage, the identity provider
\* and other tabs do: between two things the user or the clock does a page redirects at most
\* once and so many times (AuthContext.tsx, SSO_ATTEMPTED, RENEW_ATTEMPTS); whoever signed out
\* is not signed in again by a probe or a reload (logout); and whoever is signed in is where
\* they last went (AuthCallback.tsx, currentReturnTo).
THEOREM SessionIsSound == SessionSpec => []SessionSound
<1>1. SessionInv => SessionSound
    BY DEF SessionInv, SessionSound, NoRedirectLoop, LoggedOutStays, PlaceKept, Counted, SignedOut,
           Returning, Kept
<1>2. QED
    BY <1>1, SessionInvariance, PTL

HIDE SessionAssumption

-----------------------------------------------------------------------------
\* No two documents have one slug.
SlugsApart == \A i, j \in DOMAIN codes : codes[i].slug = codes[j].slug => i = j

\* The label's document, as long as it is stored, still has the slug that was printed.
LabelTrue ==
    label # None =>
        /\ label.id \in used
        /\ label.id \in DOMAIN codes => codes[label.id].slug = label.slug

CodesInv == CodesTypeOK /\ SlugsApart /\ LabelTrue /\ LabelLeadsHome /\ ActiveAsToggled

USE CodesAssumption

\* There are no documents at first.
LEMMA CodesStart == CodesInit => CodesInv
<1>1. SUFFICES ASSUME CodesInit
               PROVE  CodesInv
    OBVIOUS
<1>2. DOMAIN codes = {} /\ codes \in [{} -> Code] /\ toggled \in [used -> BOOLEAN] /\ used = {}
    BY <1>1 DEF CodesInit
<1>3. CodesTypeOK
    <2>1. ListPage \in Pages
        BY DEF Pages
    <2>2. view \in [Admins -> Pages]
        BY <1>1, <2>1 DEF CodesInit
    <2>3. codes \in UNION {[S -> Code] : S \in SUBSET used}
        <3>1. {} \in SUBSET used
            OBVIOUS
        <3>2. QED
            BY <1>2, <3>1
    <2>4. QED
        BY <1>1, <1>2, <2>2, <2>3 DEF CodesInit, CodesTypeOK
<1>4. QED
    BY <1>1, <1>2, <1>3 DEF CodesInit, CodesInv, SlugsApart, LabelTrue, LabelLeadsHome, ActiveAsToggled

\* What a page is, by where it is.
LEMMA PageIs ==
    ASSUME used \subseteq Ids, NEW p \in Pages
    PROVE  /\ p = ListPage \/ p.at \in {"creating", "shown", "removing", "deleting", "updating"}
           /\ p.at = "creating" => p = Page("creating", None, None, p.sent, p.tries) /\ p.sent \in Drafts /\ p.tries \in 1..INSERT_ATTEMPTS
           /\ p.at \in {"shown", "removing", "deleting"} =>
                 p = Page(p.at, p.id, p.copy, None, 0) /\ p.id \in used /\ p.id # None /\ p.copy \in Code
           /\ p.at = "updating" => p = Page("updating", p.id, p.copy, p.sent, 0) /\ p.id \in used /\ p.id # None /\ p.copy \in Code /\ p.sent \in Sent
<1>1. CASE p = ListPage
    BY <1>1 DEF ListPage, Page
<1>2. CASE \E code \in Drafts, n \in 1..INSERT_ATTEMPTS : p = Page("creating", None, None, code, n)
    BY <1>2 DEF ListPage, Page
<1>3. CASE \E at \in {"shown", "removing", "deleting"}, id \in used, copy \in Code : p = Page(at, id, copy, None, 0)
    BY <1>3 DEF ListPage, Page
<1>4. CASE \E id \in used, copy \in Code, sent \in Sent : p = Page("updating", id, copy, sent, 0)
    BY <1>4 DEF ListPage, Page
<1>5. QED
    BY <1>1, <1>2, <1>3, <1>4 DEF Pages

\* A page made as the handlers make them is one.
LEMMA PageMade ==
    /\ ListPage \in Pages
    /\ \A code \in Drafts, n \in 1..INSERT_ATTEMPTS : Page("creating", None, None, code, n) \in Pages
    /\ \A at \in {"shown", "removing", "deleting"}, id \in used, copy \in Code : Page(at, id, copy, None, 0) \in Pages
    /\ \A id \in used, copy \in Code, sent \in Sent : Page("updating", id, copy, sent, 0) \in Pages
BY DEF Pages

\* The page that shows an error is the one it was, or the list.
LEMMA FailedPage ==
    ASSUME CodesInv, NEW a \in Admins, Failed(a)
    PROVE  view' \in [Admins -> Pages]
<1>1. view \in [Admins -> Pages] /\ used \subseteq Ids
    BY DEF CodesInv, CodesTypeOK
<1>2. CASE view[a].id = None
    BY <1>1, <1>2, PageMade DEF Failed, Turn
<1>3. CASE view[a].id # None
    <2>1. view[a].id \in used /\ view[a].copy \in Code
        BY <1>1, <1>3, PageIs DEF ListPage, Page
    <2>2. Page("shown", view[a].id, view[a].copy, None, 0) \in Pages
        BY <2>1, PageMade
    <2>3. QED
        BY <1>1, <1>3, <2>2 DEF Failed, Turn
<1>4. QED
    BY <1>2, <1>3

\* A step of a page that leaves the documents alone.
LEMMA PageStep ==
    ASSUME CodesInv, view' \in [Admins -> Pages], UNCHANGED <<codes, used, label, scan, toggled>>
    PROVE  CodesInv'
<1>1. CodesTypeOK'
    BY DEF CodesInv, CodesTypeOK, Pages
<1>2. QED
    BY <1>1 DEF CodesInv, SlugsApart, LabelTrue, LabelLeadsHome, ActiveAsToggled

\* The page of an administrator, by where it is.
LEMMA PageOf ==
    ASSUME CodesInv, NEW a \in Admins
    PROVE  view[a] \in Pages /\ used \subseteq Ids /\ view \in [Admins -> Pages]
BY DEF CodesInv, CodesTypeOK

\* The pages before a request is on its way.
LEMMA CreateStep ==
    ASSUME CodesInv, NEW a \in Admins, Create(a)
    PROVE  CodesInv'
<1>1. PICK slug \in Slugs, target \in Targets :
          Turn(a, Page("creating", None, None, [slug |-> slug, target |-> target, active |-> TRUE], 1))
    BY DEF Create
<1>2. [slug |-> slug, target |-> target, active |-> TRUE] \in Drafts /\ 1 \in 1..INSERT_ATTEMPTS
    BY DEF Drafts
<1>3. view' \in [Admins -> Pages]
    BY <1>1, <1>2, PageOf, PageMade DEF Turn
<1>4. QED
    BY <1>3, PageStep DEF Create

\* Another draw, or the conflict.
LEMMA CollisionStep ==
    ASSUME CodesInv, NEW a \in Admins, Collision(a)
    PROVE  CodesInv'
<1>1. CASE view[a].tries < INSERT_ATTEMPTS
    <2>1. PICK slug \in Slugs : Draws(a, slug, view[a].tries + 1)
        BY <1>1 DEF Collision
    <2>2. PICK draft, n : draft = view[a].sent /\ n = view[a].tries
        OBVIOUS
    <2>3. draft \in Drafts /\ n \in 1..INSERT_ATTEMPTS /\ n < INSERT_ATTEMPTS
        BY <1>1, <2>2, PageOf, PageIs DEF Collision
    <2>4. [draft EXCEPT !.slug = slug] \in Drafts
        BY <2>3 DEF Drafts
    <2>5. n + 1 \in 1..INSERT_ATTEMPTS
        BY <2>3
    <2>6. view' \in [Admins -> Pages]
        BY <2>1, <2>2, <2>4, <2>5, PageOf, PageMade DEF Turn, Draws
    <2>7. QED
        BY <2>6, PageStep DEF Collision
<1>2. CASE ~ view[a].tries < INSERT_ATTEMPTS
    BY <1>2, FailedPage, PageStep DEF Collision
<1>3. QED
    BY <1>1, <1>2

\* Pages between requests.
LEMMA OpenStep ==
    ASSUME CodesInv, NEW a \in Admins, Open(a) \/ Close(a)
    PROVE  CodesInv'
<1>1. CASE Open(a)
    <2>1. PICK id \in DOMAIN codes : Turn(a, Show(id))
        BY <1>1 DEF Open
    <2>2. id \in used /\ codes[id] \in Code
        BY DEF CodesInv, CodesTypeOK
    <2>3. view' \in [Admins -> Pages]
        BY <2>1, <2>2, PageOf, PageMade DEF Turn, Show
    <2>4. QED
        BY <1>1, <2>3, PageStep DEF Open
<1>2. CASE Close(a)
    <2>1. view' \in [Admins -> Pages]
        BY <1>2, PageOf, PageMade DEF Close, Turn
    <2>2. QED
        BY <1>2, <2>1, PageStep DEF Close
<1>3. QED
    BY <1>1, <1>2

\* A page asks for a change.
LEMMA AsksStep ==
    ASSUME CodesInv, NEW a \in Admins, Save(a) \/ Toggle(a) \/ Remove(a)
    PROVE  CodesInv'
<1>1. view[a].id \in used /\ view[a].copy \in Code
    BY PageOf, PageIs DEF Save, Toggle, Remove
<1>2. CASE Save(a)
    <2>1. PICK target \in Targets : Asks(a, "updating", [target |-> target])
        BY <1>2 DEF Save
    <2>2. [target |-> target] \in Sent
        BY DEF Sent
    <2>3. view' \in [Admins -> Pages]
        BY <1>1, <2>1, <2>2, PageOf, PageMade DEF Asks, Turn
    <2>4. QED
        BY <1>2, <2>3, PageStep DEF Save
<1>3. CASE Toggle(a)
    <2>1. view[a].copy.active \in BOOLEAN
        BY <1>1 DEF Code
    <2>2. [active |-> ~ view[a].copy.active] \in Sent
        BY <2>1 DEF Sent
    <2>3. view' \in [Admins -> Pages]
        BY <1>1, <1>3, <2>2, PageOf, PageMade DEF Toggle, Asks, Turn
    <2>4. QED
        BY <1>3, <2>3, PageStep DEF Toggle
<1>4. CASE Remove(a)
    <2>1. view' \in [Admins -> Pages]
        BY <1>1, <1>4, PageOf, PageMade DEF Remove, Asks, Turn
    <2>2. QED
        BY <1>4, <2>1, PageStep DEF Remove
<1>5. QED
    BY <1>2, <1>3, <1>4

\* The first step of a deletion.
LEMMA LookUpStep ==
    ASSUME CodesInv, NEW a \in Admins, LookUp(a)
    PROVE  CodesInv'
<1>1. CASE view[a].id \in DOMAIN codes
    <2>1. view[a].id \in used /\ view[a].copy \in Code
        BY PageOf, PageIs DEF LookUp
    <2>2. view' \in [Admins -> Pages]
        BY <1>1, <2>1, PageOf, PageMade DEF LookUp, Asks, Turn
    <2>3. QED
        BY <2>2, PageStep DEF LookUp
<1>2. CASE view[a].id \notin DOMAIN codes
    BY <1>2, FailedPage, PageStep DEF LookUp
<1>3. QED
    BY <1>1, <1>2

-----------------------------------------------------------------------------
\* A document is stored under an id that was never given out, and a slug that is free.
LEMMA InsertStep ==
    ASSUME CodesInv, NEW a \in Admins, Insert(a)
    PROVE  CodesInv'
<1>1. PICK code : code = view[a].sent
    OBVIOUS
<1>2. code \in Drafts /\ code \in Code /\ \A i \in DOMAIN codes : codes[i].slug # code.slug
    BY <1>1, PageOf, PageIs DEF Insert, Unique, Drafts, Code
<1>3. PICK id \in Ids \ used :
          /\ used' = used \cup {id}
          /\ codes' = [i \in DOMAIN codes \cup {id} |-> IF i = id THEN code ELSE codes[i]]
          /\ toggled' = [i \in DOMAIN toggled \cup {id} |-> IF i = id THEN TRUE ELSE toggled[i]]
          /\ Turn(a, Page("shown", id, code, None, 0)) \/ Turn(a, ListPage)
    BY <1>1 DEF Insert
<1>4. PICK S \in SUBSET used : codes \in [S -> Code]
    BY DEF CodesInv, CodesTypeOK
<1>5. codes' \in [S \cup {id} -> Code] /\ S \cup {id} \in SUBSET used' /\ used' \subseteq Ids
    BY <1>2, <1>3, <1>4 DEF CodesInv, CodesTypeOK
<1>6. toggled' \in [used' -> BOOLEAN]
    BY <1>3 DEF CodesInv, CodesTypeOK
<1>7. view' \in [Admins -> Pages]'
    <2>1. Pages \subseteq Pages' /\ Page("shown", id, code, None, 0) \in Pages' /\ ListPage \in Pages'
        BY <1>2, <1>3 DEF Pages
    <2>2. QED
        BY <1>3, <2>1, PageOf DEF Turn
<1>8. CodesTypeOK'
    <2>1. codes' \in UNION {[T -> Code] : T \in SUBSET used'}
        BY <1>5
    <2>2. label' \in Labels \cup {None} /\ scan' \in Answers \cup {None}
        BY DEF Insert, CodesInv, CodesTypeOK
    <2>3. QED
        BY <1>5, <1>6, <1>7, <2>1, <2>2 DEF CodesTypeOK
<1>9. SlugsApart'
    BY <1>2, <1>3, <1>4 DEF CodesInv, SlugsApart
<1>10. LabelTrue'
    BY <1>3, <1>4 DEF Insert, CodesInv, LabelTrue
<1>11. LabelLeadsHome'
    BY DEF Insert, CodesInv, LabelLeadsHome
<1>12. ActiveAsToggled'
    <2>1. code.active = TRUE
        BY <1>2 DEF Drafts
    <2>2. QED
        BY <1>3, <1>4, <2>1 DEF CodesInv, CodesTypeOK, ActiveAsToggled
<1>13. QED
    BY <1>8, <1>9, <1>10, <1>11, <1>12 DEF CodesInv

\* The fields that were sent are set, and neither the slug nor, unless it was asked for,
\* the flag is among them.
LEMMA UpdateStep ==
    ASSUME CodesInv, NEW a \in Admins, Update(a)
    PROVE  CodesInv'
<1>1. PICK p : p = view[a]
    OBVIOUS
<1>2. p = Page("updating", p.id, p.copy, p.sent, 0) /\ p.id \in used /\ p.copy \in Code /\ p.sent \in Sent
    BY <1>1, PageOf, PageIs DEF Update
<1>3. CASE p.id \notin DOMAIN codes
    BY <1>1, <1>3, FailedPage, PageStep DEF Update
<1>4. CASE p.id \in DOMAIN codes
    <2>1. PICK id : id = p.id
        OBVIOUS
    <2>2. PICK updated : updated = [f \in DOMAIN codes[id] |-> IF f \in DOMAIN p.sent THEN p.sent[f] ELSE codes[id][f]]
        OBVIOUS
    <2>3. /\ codes' = [codes EXCEPT ![id] = updated]
          /\ toggled' = IF DOMAIN p.sent = {"active"} THEN [toggled EXCEPT ![id] = p.sent.active] ELSE toggled
          /\ Turn(a, Page("shown", id, updated, None, 0)) \/ Failed(a)
          /\ UNCHANGED <<used, label, scan>>
        BY <1>1, <1>4, <2>1, <2>2 DEF Update
    <2>4. PICK S \in SUBSET used : codes \in [S -> Code]
        BY DEF CodesInv, CodesTypeOK
    <2>5. id \in S /\ codes[id] \in Code /\ id \in used /\ toggled \in [used -> BOOLEAN]
        BY <1>2, <1>4, <2>1, <2>4 DEF CodesInv, CodesTypeOK
    <2>6. /\ updated \in Code /\ updated.slug = codes[id].slug
          /\ updated.active = toggled'[id] /\ toggled' \in [used -> BOOLEAN]
          /\ \A i \in used \ {id} : toggled'[i] = toggled[i]
        <3>1. codes[id].active = toggled[id]
            BY <1>4, <2>1 DEF CodesInv, ActiveAsToggled
        <3>2. CASE p.sent \in [target : Targets]
            <4>1. PICK t \in Targets : p.sent = [target |-> t]
                BY <3>2
            <4>2. updated = [slug |-> codes[id].slug, target |-> t, active |-> codes[id].active]
                BY <2>2, <2>5, <4>1 DEF Code
            <4>3. toggled' = toggled
                BY <2>3, <4>1
            <4>4. QED
                BY <2>5, <3>1, <4>2, <4>3 DEF Code
        <3>3. CASE p.sent \in [active : BOOLEAN]
            <4>1. PICK f \in BOOLEAN : p.sent = [active |-> f]
                BY <3>3
            <4>2. updated = [slug |-> codes[id].slug, target |-> codes[id].target, active |-> f]
                BY <2>2, <2>5, <4>1 DEF Code
            <4>3. toggled' = [toggled EXCEPT ![id] = f]
                BY <2>3, <4>1
            <4>4. QED
                BY <2>5, <4>2, <4>3 DEF Code
        <3>4. QED
            BY <1>2, <3>2, <3>3 DEF Sent
    <2>7. view' \in [Admins -> Pages]
        BY <2>3, <2>5, <2>6, FailedPage, PageOf, PageMade DEF Turn
    <2>8. codes' \in [S -> Code] /\ codes'[id] = updated /\ \A i \in S \ {id} : codes'[i] = codes[i]
        BY <2>3, <2>4, <2>5, <2>6
    <2>9. CodesTypeOK'
        <3>1. view' \in [Admins -> Pages]'
            BY <2>3, <2>7 DEF Pages
        <3>2. QED
            BY <2>3, <2>6, <2>8, <3>1 DEF CodesInv, CodesTypeOK
    <2>10. \A i \in S : codes'[i].slug = codes[i].slug
        BY <2>6, <2>8
    <2>11. SlugsApart' /\ LabelTrue' /\ LabelLeadsHome'
        BY <2>3, <2>4, <2>8, <2>10 DEF CodesInv, SlugsApart, LabelTrue, LabelLeadsHome
    <2>12. ActiveAsToggled'
        BY <2>4, <2>6, <2>8 DEF CodesInv, ActiveAsToggled
    <2>13. QED
        BY <2>9, <2>11, <2>12 DEF CodesInv
<1>5. QED
    BY <1>3, <1>4

\* A document is gone, and its id is not given out again.
LEMMA DeleteStep ==
    ASSUME CodesInv, NEW a \in Admins, Delete(a)
    PROVE  CodesInv'
<1>1. view' \in [Admins -> Pages]
    BY FailedPage, PageOf, PageMade DEF Delete, Turn
<1>2. view' \in [Admins -> Pages]'
    BY <1>1 DEF Delete, Pages
<1>3. PICK S \in SUBSET used : codes \in [S -> Code]
    BY DEF CodesInv, CodesTypeOK
<1>4. codes' \in [S \ {view[a].id} -> Code] /\ \A i \in S \ {view[a].id} : codes'[i] = codes[i]
    BY <1>3 DEF Delete, Restrict
<1>5. S \ {view[a].id} \in SUBSET used
    OBVIOUS
<1>6. CodesTypeOK'
    BY <1>2, <1>4, <1>5 DEF Delete, CodesInv, CodesTypeOK
<1>7. DOMAIN codes' \subseteq DOMAIN codes /\ \A i \in DOMAIN codes' : codes'[i] = codes[i]
    BY <1>3, <1>4
<1>8. SlugsApart'
    BY <1>7 DEF CodesInv, SlugsApart
<1>9. ActiveAsToggled'
    <2>1. SUFFICES ASSUME NEW i \in DOMAIN codes'
                   PROVE  codes'[i].active = toggled'[i]
        BY DEF ActiveAsToggled
    <2>2. codes'[i] = codes[i] /\ i \in DOMAIN codes /\ toggled' = toggled
        BY <1>7 DEF Delete
    <2>3. codes[i].active = toggled[i]
        BY <2>2 DEF CodesInv, ActiveAsToggled
    <2>4. QED
        BY <2>2, <2>3
<1>10. LabelTrue' /\ LabelLeadsHome'
    BY <1>7 DEF Delete, CodesInv, LabelTrue, LabelLeadsHome
<1>11. QED
    BY <1>6, <1>8, <1>10, <1>9 DEF CodesInv

\* A label is printed of what is stored.
LEMMA PrintLabelStep ==
    ASSUME CodesInv, NEW a \in Admins, PrintLabel(a)
    PROVE  CodesInv'
<1>1. codes[view[a].id] \in Code /\ view[a].id \in used
    BY DEF PrintLabel, CodesInv, CodesTypeOK
<1>2. label' = [id |-> view[a].id, slug |-> codes[view[a].id].slug] /\ label' \in Labels /\ scan' = None
    BY <1>1, PageOf DEF PrintLabel, Labels, Code
<1>3. CodesTypeOK'
    BY <1>2 DEF PrintLabel, CodesInv, CodesTypeOK, Pages
<1>4. SlugsApart' /\ LabelTrue' /\ LabelLeadsHome' /\ ActiveAsToggled'
    BY <1>1, <1>2 DEF PrintLabel, CodesInv, SlugsApart, LabelTrue, LabelLeadsHome, ActiveAsToggled
<1>5. QED
    BY <1>3, <1>4 DEF CodesInv

\* A scan finds the one document with the slug, if it is active.
LEMMA ScanStep ==
    ASSUME CodesInv, Redirect \/ LookupFails
    PROVE  CodesInv'
<1>1. UNCHANGED <<codes, used, view, label, toggled>>
    BY DEF Redirect, LookupFails
<1>2. PICK home \in BOOLEAN : home <=> label.id \in DOMAIN codes
    OBVIOUS
<1>3. scan' = None \/ \E to \in Resolved(label.slug) \cup {None} :
          label # None /\ scan' = [to |-> to, stored |-> home]
    BY <1>2 DEF Redirect, LookupFails
<1>4. scan' = None \/ scan' \in Answers
    <2>1. Resolved(label.slug) \subseteq Ids
        BY DEF Resolved, FindBySlug, CodesInv, CodesTypeOK
    <2>2. QED
        BY <1>3, <2>1 DEF Answers
<1>5. CodesTypeOK'
    BY <1>1, <1>4 DEF CodesInv, CodesTypeOK, Pages
<1>6. LabelLeadsHome'
    <2>1. SUFFICES ASSUME scan' # None, scan'.to # None, scan'.stored
                   PROVE  scan'.to = label.id
        BY <1>1 DEF LabelLeadsHome
    <2>2. scan'.to \in Resolved(label.slug) /\ label.id \in DOMAIN codes /\ label # None
        BY <1>2, <1>3, <2>1
    <2>3. QED
        BY <2>2 DEF Resolved, FindBySlug, CodesInv, SlugsApart, LabelTrue
<1>7. QED
    BY <1>1, <1>5, <1>6 DEF CodesInv, SlugsApart, LabelTrue, ActiveAsToggled

\* One step for each action.
LEMMA CodesSteps == CodesInv /\ [CodesNext]_qvars => CodesInv'
<1>1. SUFFICES ASSUME CodesInv, [CodesNext]_qvars
               PROVE  CodesInv'
    OBVIOUS
<1>2. ASSUME NEW a \in Admins, RequestFails(a)
      PROVE  CodesInv'
    BY <1>1, <1>2, FailedPage, PageStep DEF RequestFails
<1>3. CASE UNCHANGED qvars
    BY <1>1, <1>3, PageStep DEF qvars, CodesInv, CodesTypeOK
<1>4. QED
    BY <1>1, <1>2, <1>3, CreateStep, CollisionStep, OpenStep, AsksStep, LookUpStep, InsertStep, UpdateStep, DeleteStep,
       PrintLabelStep, ScanStep DEF CodesNext

\* The invariant holds throughout.
LEMMA CodesInvariance == CodesSpec => []CodesInv
BY CodesStart, CodesSteps, PTL DEF CodesSpec

\* Every page, document, label and scan is of its type: a page that waits for an answer knows
\* the record it asked about, and what it sent is either a draft, a target or a flag.
THEOREM CodesTypes == CodesSpec => []CodesTypeOK
BY CodesInvariance, PTL DEF CodesInv

\* For any number of administrators, documents and slugs: a label leads to the record it was
\* printed for as long as that record is stored (QrCodeService.create, QrCodeMongoDTO.slug),
\* and a code is active as it was last asked to be, whoever saves an old page meanwhile
\* (QrCodeDetailPage.save, buildMongoUpdate).
THEOREM CodesAreSound == CodesSpec => []CodesSound
<1>1. CodesInv => CodesSound
    BY DEF CodesInv, CodesSound
<1>2. QED
    BY <1>1, CodesInvariance, PTL

-----------------------------------------------------------------------------
(* The dashboard. *)
\* Some places in a list have a last one.
LEMMA LastOf ==
    ASSUME NEW n \in Nat, NEW S \in SUBSET (1..n), S # {}
    PROVE  Max(S) \in S
<1> DEFINE R == {p \in Nat \X Nat : p[1] < p[2]}
<1> DEFINE T == {n - k : k \in S}
<1>1. IsWellFoundedOn(R, Nat)
    BY NatLessThanWellFounded DEF OpToRel
<1>2. \A k, m \in Nat : <<k, m>> \in R <=> k < m
    OBVIOUS
<1>3. \A k \in S : k \in Nat /\ n - k \in Nat
    <2>1. ASSUME NEW k \in S PROVE k \in Nat /\ n - k \in Nat
        <3>1. k \in 1..n
            OBVIOUS
        <3>2. QED
            BY <3>1
    <2>2. QED
        BY <2>1
<1>4. T \subseteq Nat /\ T # {}
    BY <1>3
<1> HIDE DEF R
<1>5. PICK d \in T : \A e \in T : ~ (<<e, d>> \in R)
    BY <1>1, <1>4, WFMin
<1>6. PICK k \in S : d = n - k
    BY <1>5
<1>7. ASSUME NEW j \in S PROVE k >= j
    <2>1. n - j \in T
        OBVIOUS
    <2>2. ~ (n - j < n - k)
        BY <1>2, <1>3, <1>5, <1>6, <2>1
    <2>3. QED
        BY <1>3, <2>2
<1>8. QED
    BY <1>7 DEF Max

\* The anchors a record is looked up among.
Hits(rs, r) ==
    {k \in FindAnchors(rs) :
        \/ r.type = "A" /\ rs[k].value = r.value
        \/ r.type = "CNAME" /\ Lower[rs[k].key] = Lower[r.value]}

\* A record leads to the server of an anchor it is found by, and to none without one.
LEMMA TargetLeads ==
    ASSUME NEW rs \in DnsRecords, NEW r
    PROVE  \/ Hits(rs, r) = {} /\ Target(rs, r) = None
           \/ \E k \in Hits(rs, r) : Target(rs, r) = Index[rs[k].key]
<1>1. Len(rs) \in Nat /\ DOMAIN rs = 1..Len(rs)
    BY DashAssumption
<1>2. Hits(rs, r) \in SUBSET (1..Len(rs))
    BY <1>1 DEF Hits, FindAnchors
<1>3. r.type \in {"A", "CNAME"} => Target(rs, r) = LastIndex(rs, Hits(rs, r))
    <2>1. ASSUME r.type = "A" PROVE Target(rs, r) = LastIndex(rs, Hits(rs, r))
        <3>1. Hits(rs, r) = {k \in FindAnchors(rs) : rs[k].value = r.value}
            BY <2>1 DEF Hits
        <3>2. QED
            BY <2>1, <3>1 DEF Target
    <2>2. ASSUME r.type = "CNAME" PROVE Target(rs, r) = LastIndex(rs, Hits(rs, r))
        <3>1. Hits(rs, r) = {k \in FindAnchors(rs) : Lower[rs[k].key] = Lower[r.value]}
            BY <2>2 DEF Hits
        <3>2. QED
            BY <2>2, <3>1 DEF Target
    <2>3. QED
        BY <2>1, <2>2
<1>4. r.type \notin {"A", "CNAME"} => Hits(rs, r) = {} /\ Target(rs, r) = None
    BY DEF Hits, Target
<1>5. Hits(rs, r) # {} => Max(Hits(rs, r)) \in Hits(rs, r)
    BY <1>1, <1>2, LastOf
<1>6. QED
    BY <1>3, <1>4, <1>5 DEF LastIndex

\* With anchors: a tile is where its record leads, and nowhere else.
LEMMA AssignedLead ==
    ASSUME records \in DnsRecords, clusters = ParseDnsRecords(records), Anchored
    PROVE  /\ \A c \in DOMAIN clusters : \A k \in DOMAIN clusters[c] :
                 k \in Leading /\ Belongs(records[k], c) /\ clusters[c][k] = Tile(records[k])
           /\ \A k \in Leading : \E c \in DOMAIN clusters :
                 \A d \in DOMAIN clusters : k \in DOMAIN clusters[d] <=> d = c
<1> DEFINE Indices == {Index[records[k].key] : k \in FindAnchors(records)}
<1>1. FindAnchors(records) # {}
    BY DEF Anchored, FindAnchors
<1>2. clusters = [i \in {j \in Indices : Services(records, j) # {}} |-> Tiles(records, Services(records, i))]
    BY <1>1 DEF ParseDnsRecords, AssignServices
<1>3. /\ DOMAIN clusters = {j \in Indices : Services(records, j) # {}}
      /\ \A c \in DOMAIN clusters : /\ DOMAIN clusters[c] = Services(records, c)
                                    /\ \A k \in Services(records, c) : clusters[c][k] = Tile(records[k])
    BY <1>2 DEF Tiles
<1>4. \A k \in FindAnchors(records) :
         /\ k \in DOMAIN records /\ ~ Off(records[k]) /\ records[k].type = "A"
         /\ Index[records[k].key] \in Indices /\ Index[records[k].key] # None
         /\ records[k].key \in DOMAIN Index
    BY DashAssumption DEF FindAnchors
<1>5. Indices \subseteq Headings /\ None \notin Indices
    BY <1>4 DEF Headings
<1> HIDE DEF Indices
<1>6. ASSUME NEW k \in DOMAIN records, Target(records, records[k]) # None
      PROVE  /\ Target(records, records[k]) \in Indices
             /\ LeadsTo(records[k], Target(records, records[k]))
    <2>1. PICK a \in Hits(records, records[k]) : Target(records, records[k]) = Index[records[a].key]
        BY <1>6, TargetLeads
    <2>2. a \in FindAnchors(records)
        BY DEF Hits
    <2>3. \/ records[k].type = "A" /\ records[k].value = records[a].value
          \/ records[k].type = "CNAME" /\ Lower[records[k].value] = Lower[records[a].key]
        BY DEF Hits
    <2>4. QED
        BY <1>4, <2>1, <2>2, <2>3 DEF LeadsTo
<1>7. ASSUME NEW c \in DOMAIN clusters, NEW k \in DOMAIN clusters[c]
      PROVE  k \in Leading /\ Belongs(records[k], c) /\ clusters[c][k] = Tile(records[k])
    <2>1. k \in Services(records, c) /\ c \in Indices /\ clusters[c][k] = Tile(records[k])
        BY <1>3
    <2>2. k \in DOMAIN records /\ Target(records, records[k]) = c /\ c # None /\ Wanted(records[k])
        BY <1>5, <2>1 DEF Services, Wanted
    <2>3. Belongs(records[k], c)
        BY <1>6, <2>2 DEF Belongs
    <2>4. QED
        BY <1>5, <2>1, <2>2, <2>3 DEF Leading
<1>8. ASSUME NEW k \in Leading
      PROVE  \E c \in DOMAIN clusters : \A d \in DOMAIN clusters : k \in DOMAIN clusters[d] <=> d = c
    <2> DEFINE c == Target(records, records[k])
    <2>1. PICK h \in Headings : Belongs(records[k], h)
        BY DEF Leading
    <2>2. k \in DOMAIN records /\ Wanted(records[k]) /\ LeadsTo(records[k], h)
        BY <2>1 DEF Leading, Belongs
    <2>3. h # None
        BY DashAssumption DEF Headings
    <2>4. Hits(records, records[k]) # {}
        BY <2>2, <2>3 DEF LeadsTo, Hits, FindAnchors
    <2>5. PICK a \in Hits(records, records[k]) : c = Index[records[a].key]
        BY <2>4, TargetLeads
    <2>6. c # None /\ c \in Indices
        BY <1>4, <2>5 DEF Hits
    <2>7. k \in Services(records, c)
        BY <2>2 DEF Services, Wanted
    <2>8. \A d : k \in Services(records, d) => d = c
        BY DEF Services
    <2> HIDE DEF c
    <2>9. QED
        BY <1>3, <2>6, <2>7, <2>8
<1>9. QED
    BY <1>7, <1>8

\* Without: it is in the cluster of its subnet.
LEMMA FallbackLeads ==
    ASSUME records \in DnsRecords, clusters = ParseDnsRecords(records), ~ Anchored
    PROVE  /\ \A c \in DOMAIN clusters : \A k \in DOMAIN clusters[c] :
                 k \in Leading /\ Belongs(records[k], c) /\ clusters[c][k] = Tile(records[k])
           /\ \A k \in Leading : \E c \in DOMAIN clusters :
                 \A d \in DOMAIN clusters : k \in DOMAIN clusters[d] <=> d = c
<1> DEFINE Grouped == {k \in DOMAIN records : records[k].type = "A" /\ ~ Off(records[k])}
<1> DEFINE InCluster(c) == {k \in Grouped : Subnet[records[k].value] = c /\ Lower[records[k].key] \notin exclude}
<1>1. FindAnchors(records) = {}
    BY DEF Anchored, FindAnchors
<1>2. clusters = [c \in {Subnet[records[k].value] : k \in Grouped} |-> Tiles(records, InCluster(c))]
    BY <1>1 DEF ParseDnsRecords, FallbackBySubnet
<1>3. /\ DOMAIN clusters = {Subnet[records[k].value] : k \in Grouped}
      /\ \A c \in DOMAIN clusters : /\ DOMAIN clusters[c] = InCluster(c)
                                    /\ \A k \in InCluster(c) : clusters[c][k] = Tile(records[k])
    <2>1. DOMAIN clusters = {Subnet[records[k].value] : k \in Grouped}
        BY <1>2
    <2>2. ASSUME NEW c \in DOMAIN clusters
          PROVE  /\ DOMAIN clusters[c] = InCluster(c)
                 /\ \A k \in InCluster(c) : clusters[c][k] = Tile(records[k])
        <3> HIDE DEF InCluster
        <3>1. clusters[c] = Tiles(records, InCluster(c))
            BY <1>2, <2>1
        <3>2. QED
            BY <3>1 DEF Tiles
    <2>3. QED
        BY <2>1, <2>2
<1>4. \A k \in Grouped : records[k].value \in DOMAIN Subnet
    BY DashAssumption
<1>5. \A c, k : k \in InCluster(c) <=> k \in DOMAIN records /\ Wanted(records[k]) /\ Belongs(records[k], c)
    BY DEF Wanted, Belongs
<1>6. \A k, c : k \in InCluster(c) => c \in DOMAIN clusters /\ c \in Headings
    BY <1>3, <1>4 DEF Headings
<1>7. \A k, c, d : k \in InCluster(c) /\ k \in InCluster(d) => c = d
    OBVIOUS
<1> HIDE DEF Grouped, InCluster
<1>8. \A k \in Leading : \E c : k \in InCluster(c)
    BY <1>5 DEF Leading
<1>9. \A c, k : k \in InCluster(c) => k \in Leading
    BY <1>5, <1>6 DEF Leading
<1>10. QED
    BY <1>3, <1>5, <1>6, <1>7, <1>8, <1>9

\* What is shown was made of the controller's list.
DashInv == records \in DnsRecords /\ (bar = "ok" => clusters = ParseDnsRecords(records))

LEMMA DashSteps == DashInv /\ [DashNext]_<<avars, dashVars>> => DashInv'
<1> SUFFICES ASSUME DashInv, [DashNext]_<<avars, dashVars>> PROVE DashInv'
    OBVIOUS
<1>1. CASE Load
    BY <1>1 DEF Load, DashInv
<1>2. CASE LoadEnds
    <2>1. PICK l \in loads, code \in Replies :
             /\ bar' = IF l.cancelled THEN bar ELSE IF FetchDnsRecords(code) = "list" THEN "ok" ELSE FetchDnsRecords(code)
             /\ clusters' = IF ~ l.cancelled /\ FetchDnsRecords(code) = "list" THEN ParseDnsRecords(records) ELSE clusters
        BY <1>2 DEF LoadEnds
    <2>2. records' = records
        BY <1>2 DEF LoadEnds
    <2>3. FetchDnsRecords(code) # "ok"
        BY DEF FetchDnsRecords
    <2>4. ParseDnsRecords(records)' = ParseDnsRecords(records)
        BY <2>2
    <2>5. QED
        BY <2>1, <2>2, <2>3, <2>4 DEF DashInv
<1>3. CASE StatusMoves
    BY <1>3 DEF StatusMoves, dashVars, DashInv
<1>4. CASE UNCHANGED <<avars, dashVars>>
    BY <1>4 DEF dashVars, DashInv
<1>5. QED
    BY <1>1, <1>2, <1>3, <1>4 DEF DashNext

\* Every tile stands for a record that is on, not hidden and leads to the server
\* it is listed under, and every such record has its one tile, for lists of any
\* length and contents (parseDns.ts, parseDnsRecords).
THEOREM TilesLead == DashSpec => []TilesLeadHome
<1>1. DashInit => DashInv
    BY DEF DashInit, DashInv
<1>2. DashInv => TilesLeadHome
    BY AssignedLead, FallbackLeads DEF DashInv, TilesLeadHome
<1>3. QED
    BY <1>1, <1>2, DashSteps, PTL DEF DashSpec

-----------------------------------------------------------------------------
\* A set of naturals has a least member.
LEMMA Least ==
    ASSUME NEW T, T \subseteq Nat, T # {}
    PROVE  \E n \in T : \A m \in T : n <= m
<1> DEFINE R == {p \in Nat \X Nat : p[1] < p[2]}
<1>1. IsWellFoundedOn(R, Nat)
    BY NatLessThanWellFounded DEF OpToRel
<1>2. \A k, n \in Nat : <<k, n>> \in R <=> k < n
    OBVIOUS
<1> HIDE DEF R
<1>3. PICK x \in T : \A y \in T : ~ (<<y, x>> \in R)
    BY <1>1, WFMin
<1>4. ASSUME NEW m \in T PROVE x <= m
    <2>1. x \in Nat /\ m \in Nat
        OBVIOUS
    <2>2. ~ (m < x)
        BY <1>2, <1>3, <2>1
    <2>3. QED
        BY <2>1, <2>2
<1>5. QED
    BY <1>4

\* A set that has 0, and with every number the next, has them all.
LEMMA SetInduction ==
    ASSUME NEW T, 0 \in T, \A n \in Nat : n \in T => n + 1 \in T
    PROVE  Nat \subseteq T
<1>1. CASE Nat \ T # {}
    <2>1. PICK n \in Nat \ T : \A m \in Nat \ T : n <= m
        BY <1>1, Least
    <2>2. n # 0 /\ n - 1 \in Nat
        BY <2>1
    <2>3. n - 1 \in T
        BY <2>1, <2>2
    <2>4. QED
        BY <2>1, <2>2, <2>3
<1>2. QED
    BY <1>1

-----------------------------------------------------------------------------
\* The sum that a mean divides, and the element it takes next.
Total(image, channel, S) == MapThenSumSet(LAMBDA p : Sample(image, p, channel), S)
Taken(s) == CHOOSE p \in s : TRUE

\* The equations of the function by which that sum is defined.
Sums(sum, image, channel, S) ==
    /\ sum[{}] = 0
    /\ \A s \in (SUBSET S) \ {{}} : sum[s] = Sample(image, Taken(s), channel) + sum[s \ {Taken(s)}]
    /\ Total(image, channel, S) = sum[S]

\* That function exists: on the subsets of each size, and so on all of them.
LEMMA TotalUnwinds ==
    ASSUME NEW image, NEW channel, NEW S, IsFiniteSet(S)
    PROVE  \E sum : Sums(sum, image, channel, S)
<1> DEFINE Step(s, g) == IF s = {} THEN 0 ELSE Sample(image, Taken(s), channel) + g[s \ {Taken(s)}]
           Small(n) == {s \in SUBSET S : Cardinality(s) <= n}
           D(n, g) == g = [s \in Small(n) |-> Step(s, g)]
           T == {n \in Nat : \E g : D(n, g)}
<1>1. \A s \in SUBSET S : IsFiniteSet(s) /\ Cardinality(s) \in Nat /\ Cardinality(s) <= Cardinality(S)
    BY FS_Subset, FS_CardinalityType
<1>2. \A s \in SUBSET S : s # {} => Taken(s) \in s
    BY DEF Taken
<1>3. ASSUME NEW n \in Nat, NEW s \in Small(n + 1), s # {}
      PROVE  s \ {Taken(s)} \in Small(n)
    <2>1. s \in SUBSET S /\ Taken(s) \in s /\ IsFiniteSet(s) /\ Cardinality(s) \in Nat /\ Cardinality(s) <= n + 1
        BY <1>1, <1>2, <1>3
    <2>2. Cardinality(s \ {Taken(s)}) = Cardinality(s) - 1
        BY <2>1, FS_RemoveElement
    <2>3. QED
        BY <2>1, <2>2
<1>4. 0 \in T
    <2>1. \A s \in Small(0) : s = {}
        BY <1>1, FS_EmptySet
    <2>2. D(0, [s \in Small(0) |-> 0])
        BY <2>1
    <2> HIDE DEF D
    <2>3. QED
        BY <2>2
<1>5. \A n \in Nat : n \in T => n + 1 \in T
    <2> HIDE DEF D
    <2>1. SUFFICES ASSUME NEW n \in Nat, NEW g, D(n, g) PROVE \E h : D(n + 1, h)
        OBVIOUS
    <2> DEFINE h == [s \in Small(n + 1) |-> Step(s, g)]
    <2>2. \A s \in Small(n) : g[s] = Step(s, g)
        BY <2>1 DEF D
    <2>3. \A s \in Small(n) : s \in Small(n + 1)
        BY <1>1
    <2> HIDE DEF Small
    <2>4. \A s \in Small(n) : h[s] = g[s]
        BY <2>2, <2>3
    <2>5. \A s \in Small(n + 1) : Step(s, g) = Step(s, h)
        BY <1>3, <2>4
    <2>6. h = [s \in Small(n + 1) |-> Step(s, h)]
        <3> DEFINE k == [s \in Small(n + 1) |-> Step(s, h)]
        <3>1. \A s \in Small(n + 1) : h[s] = k[s]
            <4> HIDE DEF Step
            <4> QED BY <2>5
        <3>2. QED
            BY <3>1
    <2>7. D(n + 1, h)
        BY <2>6 DEF D
    <2>8. QED
        BY <2>7
<1>6. Cardinality(S) \in Nat /\ Small(Cardinality(S)) = SUBSET S
    BY <1>1, FS_CardinalityType
<1> HIDE DEF T
<1>7. \E g : g = [s \in SUBSET S |-> Step(s, g)]
    <2>1. Cardinality(S) \in T
        BY <1>4, <1>5, <1>6, SetInduction
    <2>2. QED
        BY <1>6, <2>1 DEF T
<1> DEFINE sum == CHOOSE g : g = [s \in SUBSET S |-> Step(s, g)]
<1>8. sum = [s \in SUBSET S |-> Step(s, sum)]
    BY <1>7
<1>9. Total(image, channel, S) = sum[S]
    BY DEF Total, MapThenSumSet, MapThenFoldSet, Taken
<1> HIDE DEF sum
<1>10. Sums(sum, image, channel, S)
    BY <1>8, <1>9 DEF Sums
<1>11. QED
    BY <1>10

\* A weight less and one value more.
LEMMA Widens ==
    ASSUME NEW m \in Nat, NEW v \in Int, NEW lo \in Int, NEW hi \in Int, NEW total \in Int,
           lo * m <= total, total <= hi * m
    PROVE  /\ v <= lo => v * (m + 1) <= v + total
           /\ lo <= v => lo * (m + 1) <= v + total
           /\ v >= hi => v + total <= v * (m + 1)
           /\ hi >= v => v + total <= hi * (m + 1)
<1>1. v * (m + 1) = v * m + v /\ lo * (m + 1) = lo * m + lo /\ hi * (m + 1) = hi * m + hi
    OBVIOUS
<1>2. v <= lo => v * m <= lo * m
    OBVIOUS
<1>3. hi <= v => hi * m <= v * m
    OBVIOUS
<1>4. v * m \in Int /\ lo * m \in Int /\ hi * m \in Int
    OBVIOUS
<1>5. QED
    BY <1>1, <1>2, <1>3, <1>4

\* A sum lies between as many of the least as of the greatest.
LEMMA TotalBounds ==
    ASSUME NEW image, NEW channel, NEW S, IsFiniteSet(S), S # {},
           \A p \in S : Sample(image, p, channel) \in Int
    PROVE  /\ Total(image, channel, S) \in Int
           /\ \E lo, hi \in S :
                 /\ Sample(image, lo, channel) * Cardinality(S) <= Total(image, channel, S)
                 /\ Total(image, channel, S) <= Sample(image, hi, channel) * Cardinality(S)
<1> DEFINE v(p) == Sample(image, p, channel)
<1>0. PICK sum : Sums(sum, image, channel, S)
    BY TotalUnwinds
<1>1. /\ sum[{}] = 0
      /\ \A s \in (SUBSET S) \ {{}} : sum[s] = v(Taken(s)) + sum[s \ {Taken(s)}]
      /\ Total(image, channel, S) = sum[S]
    BY <1>0 DEF Sums
<1> DEFINE Between(s, m) ==
               /\ sum[s] \in Int
               /\ \E lo, hi \in s : v(lo) * m <= sum[s] /\ sum[s] <= v(hi) * m
           T == {n \in Nat : \A s \in SUBSET S : Cardinality(s) = n + 1 => Between(s, n + 1)}
<1>2. \A s \in SUBSET S : IsFiniteSet(s) /\ Cardinality(s) \in Nat
    BY FS_Subset, FS_CardinalityType
<1>3. ASSUME NEW s \in SUBSET S, NEW n \in Nat, Cardinality(s) = n + 1
      PROVE  /\ Taken(s) \in s /\ v(Taken(s)) \in Int
             /\ s \ {Taken(s)} \in SUBSET S /\ Cardinality(s \ {Taken(s)}) = n
             /\ sum[s] = v(Taken(s)) + sum[s \ {Taken(s)}]
    <2>1. s # {}
        BY <1>3, FS_EmptySet
    <2>2. Taken(s) \in s
        BY <2>1 DEF Taken
    <2>3. Cardinality(s \ {Taken(s)}) = n
        <3>1. IsFiniteSet(s)
            BY <1>2
        <3>2. Cardinality(s \ {Taken(s)}) = Cardinality(s) - 1
            BY <2>2, <3>1, FS_RemoveElement, Zenon
        <3>3. (n + 1) - 1 = n
            OBVIOUS
        <3>4. QED
            BY <1>3, <3>2, <3>3, Zenon
    <2>4. QED
        BY <1>1, <2>1, <2>2, <2>3
<1> HIDE DEF v
<1>4. 0 \in T
    <2>1. SUFFICES ASSUME NEW s \in SUBSET S, Cardinality(s) = 0 + 1 PROVE Between(s, 0 + 1)
        OBVIOUS
    <2>2. Taken(s) \in s /\ v(Taken(s)) \in Int /\ sum[s] = v(Taken(s)) + sum[s \ {Taken(s)}] /\ Cardinality(s \ {Taken(s)}) = 0
        BY <1>3, <2>1, 0 \in Nat, Zenon
    <2>3. s \ {Taken(s)} = {}
        BY <1>2, <2>2, FS_EmptySet
    <2>4. sum[s \ {Taken(s)}] = 0
        BY <1>1, <2>3
    <2>5. sum[s] = v(Taken(s))
        BY <2>2, <2>4
    <2>6. v(Taken(s)) * (0 + 1) = v(Taken(s)) /\ v(Taken(s)) <= v(Taken(s))
        BY <2>2
    <2>7. sum[s] \in Int /\ v(Taken(s)) * (0 + 1) <= sum[s] /\ sum[s] <= v(Taken(s)) * (0 + 1)
        BY <2>2, <2>5, <2>6, Zenon
    <2>8. QED
        BY <2>2, <2>7, Zenon
<1>5. \A n \in Nat : n \in T => n + 1 \in T
    <2>1. SUFFICES ASSUME NEW n \in Nat, n \in T, NEW s \in SUBSET S, Cardinality(s) = (n + 1) + 1
                   PROVE  Between(s, (n + 1) + 1)
        OBVIOUS
    <2>2. PICK x \in s, rest \in SUBSET S :
             /\ v(x) \in Int /\ rest = s \ {x} /\ Cardinality(rest) = n + 1
             /\ sum[s] = v(x) + sum[rest]
        <3>1. /\ Taken(s) \in s /\ v(Taken(s)) \in Int
              /\ s \ {Taken(s)} \in SUBSET S /\ Cardinality(s \ {Taken(s)}) = n + 1
              /\ sum[s] = v(Taken(s)) + sum[s \ {Taken(s)}]
            BY <1>3, <2>1, n + 1 \in Nat, Zenon
        <3>2. QED
            BY <3>1
    <2>3. sum[rest] \in Int /\ \E lo, hi \in rest : v(lo) * (n + 1) <= sum[rest] /\ sum[rest] <= v(hi) * (n + 1)
        BY <2>1, <2>2
    <2>4. PICK lo \in rest, hi \in rest : v(lo) * (n + 1) <= sum[rest] /\ sum[rest] <= v(hi) * (n + 1)
        BY <2>3
    <2>5. lo \in s /\ hi \in s /\ v(lo) \in Int /\ v(hi) \in Int
        BY <2>2 DEF v
    <2>6. PICK m \in Nat : m = n + 1
        OBVIOUS
    <2>7. /\ v(x) <= v(lo) => v(x) * (m + 1) <= v(x) + sum[rest]
          /\ v(lo) <= v(x) => v(lo) * (m + 1) <= v(x) + sum[rest]
          /\ v(x) >= v(hi) => v(x) + sum[rest] <= v(x) * (m + 1)
          /\ v(hi) >= v(x) => v(x) + sum[rest] <= v(hi) * (m + 1)
        BY <2>2, <2>3, <2>4, <2>5, <2>6, Widens
    <2>8. \E p \in s : v(p) * (m + 1) <= sum[s]
        BY <2>2, <2>5, <2>7
    <2>9. \E p \in s : sum[s] <= v(p) * (m + 1)
        BY <2>2, <2>5, <2>7
    <2>10. sum[s] \in Int
        BY <2>2, <2>3
    <2>11. QED
        BY <2>6, <2>8, <2>9, <2>10
<1>6. Cardinality(S) \in Nat \ {0}
    BY <1>2, FS_EmptySet
<1> HIDE DEF T
<1>7. Cardinality(S) - 1 \in T
    BY <1>4, <1>5, <1>6, SetInduction
<1>8. Between(S, Cardinality(S))
    <2>1. (Cardinality(S) - 1) + 1 = Cardinality(S)
        BY <1>6
    <2>2. QED
        BY <1>7, <2>1 DEF T
<1>9. QED
    BY <1>1, <1>8 DEF v

-----------------------------------------------------------------------------
\* What division and remainder are.
LEMMA Division ==
    ASSUME NEW x \in Int, NEW d \in Nat \ {0}
    PROVE  /\ x \div d \in Int /\ x % d \in 0..d - 1
           /\ x = d * (x \div d) + (x % d)
OBVIOUS

\* A quotient and its remainder are what they were made of.
LEMMA Quotient ==
    ASSUME NEW a \in Int, NEW b \in Nat, NEW d \in Nat \ {0}, b < d
    PROVE  (a * d + b) \div d = a /\ (a * d + b) % d = b
<1>1. PICK q \in Int, r \in 0..d - 1 :
         q = (a * d + b) \div d /\ r = (a * d + b) % d /\ a * d + b = d * q + r
    <2>1. PICK x \in Int : x = a * d + b
        OBVIOUS
    <2>2. x \div d \in Int /\ x % d \in 0..d - 1 /\ x = d * (x \div d) + (x % d)
        BY Division
    <2>3. QED
        BY <2>1, <2>2
<1>2. d * (a - q) = r - b
    BY <1>1
<1>3. ~ (a - q >= 1)
    <2>1. a - q >= 1 => d * (a - q) >= d
        BY <1>1
    <2>2. QED
        BY <1>1, <1>2, <2>1
<1>4. ~ (a - q <= -1)
    <2>1. a - q <= -1 => d * (a - q) <= -d
        BY <1>1
    <2>2. QED
        BY <1>1, <1>2, <2>1
<1>5. a = q
    BY <1>1, <1>3, <1>4
<1>6. QED
    BY <1>1, <1>2, <1>5

\* A mean lies between the least and the greatest.
LEMMA MeanBetween ==
    ASSUME NEW total \in Int, NEW n \in Nat \ {0}, NEW lo \in Int, NEW hi \in Int,
           lo * n <= total, total <= hi * n
    PROVE  Round(total, n) \in lo..hi
<1>1. PICK q \in Int, r \in 0..2 * n - 1 : q = (2 * total + n) \div (2 * n) /\ 2 * total + n = (2 * n) * q + r
    <2>1. PICK x \in Int, d \in Nat \ {0} : x = 2 * total + n /\ d = 2 * n
        OBVIOUS
    <2>2. /\ x \div d \in Int /\ x % d \in 0..d - 1
          /\ x = d * (x \div d) + (x % d)
        BY Division
    <2>3. QED
        BY <2>1, <2>2
<1>2. ~ (q <= lo - 1)
    <2>1. q <= lo - 1 => n * q <= n * (lo - 1)
        BY <1>1
    <2>2. n * (lo - 1) = lo * n - n
        OBVIOUS
    <2>3. QED
        BY <1>1, <2>1, <2>2
<1>3. ~ (q >= hi + 1)
    <2>1. q >= hi + 1 => n * q >= n * (hi + 1)
        BY <1>1
    <2>2. n * (hi + 1) = hi * n + n
        OBVIOUS
    <2>3. QED
        BY <1>1, <2>1, <2>2
<1>4. QED
    BY <1>1, <1>2, <1>3 DEF Round

-----------------------------------------------------------------------------
\* The cities lie inside of the map, with something to spare below and to the right.
Inside(city) ==
    /\ city \in Nat \X Nat
    /\ 487532 <= city[1] /\ city[1] <= 507727 /\ 123700 <= city[2] /\ city[2] <= 185433
\* A stretch of the list, as long as n.
Region(s, n) == s \in Seq(Nat \X Nat) /\ Len(s) = n /\ \A k \in 1..n : Inside(s[k])

LEMMA Joined ==
    ASSUME NEW m \in Nat, NEW n \in Nat, NEW q, q = m + n, NEW a, Region(a, m), NEW b, Region(b, n)
    PROVE  Region(a \o b, q)
<1>1. /\ a \in Seq(Nat \X Nat) /\ Len(a) = m /\ b \in Seq(Nat \X Nat) /\ Len(b) = n
      /\ (\A k \in 1..m : Inside(a[k])) /\ (\A k \in 1..n : Inside(b[k]))
    BY DEF Region
<1> HIDE DEF Inside
<1>2. a \o b \in Seq(Nat \X Nat) /\ Len(a \o b) = m + n
    <2>1. PICK S : S = Nat \X Nat
        OBVIOUS
    <2>2. a \in Seq(S) /\ b \in Seq(S)
        BY <1>1, <2>1
    <2>3. a \o b \in Seq(S) /\ Len(a \o b) = Len(a) + Len(b)
        BY <2>2
    <2>4. QED
        BY <1>1, <2>1, <2>3
<1>3. ASSUME NEW k \in 1..m + n PROVE Inside((a \o b)[k])
    <2>1. CASE k <= m
        BY <1>1, <2>1
    <2>2. CASE ~ (k <= m)
        <3>1. k - m \in 1..n /\ (a \o b)[k] = b[k - m]
            BY <1>1, <2>2
        <3>2. QED
            BY <1>1, <3>1
    <2>3. QED
        BY <2>1, <2>2
<1>4. QED
    BY <1>2, <1>3 DEF Region

LEMMA CitiesInside ==
    /\ Len(Cities) = 72 /\ DOMAIN Cities = 1..72
    /\ \A k \in 1..72 : Inside(Cities[k])
<1>1. Len(Cities0To23) = 24 /\ \A k \in 1..24 : Inside(Cities0To23[k])
    BY SMT DEF Cities0To23, Inside
<1>2. Len(Cities24To47) = 24 /\ \A k \in 1..24 : Inside(Cities24To47[k])
    BY SMT DEF Cities24To47, Inside
<1>3. Len(Cities48To71) = 24 /\ \A k \in 1..24 : Inside(Cities48To71[k])
    BY SMT DEF Cities48To71, Inside
<1>4. Cities0To23 \in Seq(Nat \X Nat) /\ Cities24To47 \in Seq(Nat \X Nat) /\ Cities48To71 \in Seq(Nat \X Nat)
    BY <1>1, <1>2, <1>3, SMT DEF Cities0To23, Cities24To47, Cities48To71
<1>5. Region(Cities0To23, 24) /\ Region(Cities24To47, 24) /\ Region(Cities48To71, 24)
    BY <1>1, <1>2, <1>3, <1>4 DEF Region
<1>6. PICK a, b, c : Cities = (a \o b) \o c /\ Region(a, 24) /\ Region(b, 24) /\ Region(c, 24)
    BY <1>5 DEF Cities
<1>7. 48 = 24 + 24 /\ 72 = 48 + 24 /\ 24 \in Nat /\ 48 \in Nat
    OBVIOUS
<1>8. Region(a \o b, 48)
    BY <1>6, <1>7, Joined, SMT
<1>9. Region((a \o b) \o c, 72)
    BY <1>6, <1>7, <1>8, Joined, SMT
<1>10. Region(Cities, 72)
    BY <1>6, <1>9, Zenon
<1>11. PICK abc : abc = Cities /\ Region(abc, 72)
    BY <1>10, Zenon
<1>12. Len(abc) = 72 /\ DOMAIN abc = 1..72 /\ \A k \in 1..72 : Inside(abc[k])
    BY <1>11 DEF Region
<1>13. QED
    BY <1>11, <1>12, Zenon

-----------------------------------------------------------------------------
\* A grid, what sharp decodes it to, and each of its samples at the place it is looked for.
IsPicture(grid, width, height, channels) ==
    /\ width \in Nat \ {0} /\ height \in Nat \ {0} /\ channels \in Nat \ {0}
    /\ grid \in Pictures(width, height, channels)
    /\ Cardinality({p[1] : p \in DOMAIN grid}) = width
    /\ Cardinality({p[2] : p \in DOMAIN grid}) = height
    /\ Decoded(grid).width = width /\ Decoded(grid).height = height
    /\ Decoded(grid).channels = channels
    /\ \A x \in 0..width - 1, y \in 0..height - 1, c \in 1..channels :
          Sample(Decoded(grid), <<x, y>>, c) = grid[<<x, y>>][c]

LEMMA DecodedPicture ==
    ASSUME NEW grid \in Grids
    PROVE  \E width, height, channels : IsPicture(grid, width, height, channels)
<1>1. PICK width \in Nat \ {0}, height \in Nat \ {0}, channels \in Nat \ {0} :
         grid \in Pictures(width, height, channels)
    BY MapAssumption
<1>2. DOMAIN grid = (0..width - 1) \X (0..height - 1)
    BY <1>1 DEF Pictures
<1>3. {p[1] : p \in DOMAIN grid} = 0..width - 1 /\ {p[2] : p \in DOMAIN grid} = 0..height - 1
    <2>1. 0 \in 0..width - 1 /\ 0 \in 0..height - 1
        OBVIOUS
    <2>2. \A x \in 0..width - 1 : <<x, 0>> \in DOMAIN grid /\ <<x, 0>>[1] = x
        BY <1>2, <2>1
    <2>3. \A y \in 0..height - 1 : <<0, y>> \in DOMAIN grid /\ <<0, y>>[2] = y
        BY <1>2, <2>1
    <2>4. \A p \in DOMAIN grid : p[1] \in 0..width - 1 /\ p[2] \in 0..height - 1
        BY <1>2
    <2>5. QED
        BY <2>2, <2>3, <2>4
<1>4. /\ IsFiniteSet(0..width - 1) /\ Cardinality(0..width - 1) = width
      /\ IsFiniteSet(0..height - 1) /\ Cardinality(0..height - 1) = height
    <2>1. PICK right \in Nat, below \in Nat : right = width - 1 /\ below = height - 1
        OBVIOUS
    <2>2. /\ IsFiniteSet(0..right) /\ Cardinality(0..right) = IF 0 > right THEN 0 ELSE right - 0 + 1
          /\ IsFiniteSet(0..below) /\ Cardinality(0..below) = IF 0 > below THEN 0 ELSE below - 0 + 1
        BY FS_Interval
    <2>3. QED
        BY <2>1, <2>2
<1>5. Cardinality(DOMAIN grid) = width * height
    <2>1. PICK A, B : A = 0..width - 1 /\ B = 0..height - 1
        OBVIOUS
    <2>2. IsFiniteSet(A) /\ IsFiniteSet(B) /\ Cardinality(A) = width /\ Cardinality(B) = height
        BY <1>4, <2>1
    <2>3. Cardinality(A \X B) = Cardinality(A) * Cardinality(B)
        BY <2>2, FS_Product
    <2>4. QED
        BY <1>2, <2>1, <2>2, <2>3
<1>6. Len(grid[<<0, 0>>]) = channels
    <2>1. <<0, 0>> \in DOMAIN grid
        BY <1>2
    <2>2. grid[<<0, 0>>] \in [1..channels -> Nat]
        BY <1>1, <1>2, <2>1 DEF Pictures
    <2>3. QED
        BY <2>2
<1>7. (width * height) \div width = height
    BY Quotient, width * height = height * width + 0
<1> DEFINE pixel(k) == grid[<<(k \div channels) % width, (k \div channels) \div width>>]
<1>8. Decoded(grid) = [width |-> width, height |-> height, channels |-> channels,
                       data |-> [k \in 1..channels * (width * height) |-> pixel(k - 1)[((k - 1) % channels) + 1]]]
    BY <1>3, <1>4, <1>5, <1>6, <1>7 DEF Decoded, Widths
<1>9. ASSUME NEW x \in 0..width - 1, NEW y \in 0..height - 1, NEW c \in 1..channels
      PROVE  Sample(Decoded(grid), <<x, y>>, c) = grid[<<x, y>>][c]
    <2>1. PICK n \in Nat : n = y * width + x
        OBVIOUS
    <2>2. PICK index \in Int : index = n * channels + c
        BY <2>1
    <2>3. n + 1 <= width * height
        <3>1. (y + 1) * width <= height * width
            OBVIOUS
        <3>2. (y + 1) * width = y * width + width /\ x + 1 <= width
            OBVIOUS
        <3>3. QED
            BY <2>1, <3>1, <3>2
    <2>4. index \in 1..channels * (width * height)
        <3>1. (n + 1) * channels <= (width * height) * channels /\ width * height \in Nat
            BY <2>1, <2>3
        <3>2. (n + 1) * channels = n * channels + channels /\ n * channels \in Nat
            BY <2>1
        <3>3. QED
            BY <2>2, <3>1, <3>2
    <2>5. index - 1 = n * channels + (c - 1) /\ c - 1 \in Nat /\ c - 1 < channels
        BY <2>2
    <2>6. (index - 1) \div channels = n /\ (index - 1) % channels = c - 1
        <3>1. PICK b \in Nat : b = c - 1 /\ b < channels
            BY <2>5
        <3>2. n \in Int /\ channels \in Nat \ {0}
            OBVIOUS
        <3>3. (n * channels + b) \div channels = n /\ (n * channels + b) % channels = b
            BY <3>1, <3>2, Quotient, Zenon
        <3>4. QED
            BY <2>5, <3>1, <3>3
    <2>7. n \div width = y /\ n % width = x
        BY <2>1, Quotient
    <2>8. pixel(index - 1)[((index - 1) % channels) + 1] = grid[<<x, y>>][c]
        BY <2>6, <2>7
    <2> HIDE DEF pixel
    <2>9. /\ <<x, y>>[1] = x /\ <<x, y>>[2] = y
          /\ Decoded(grid).width = width /\ Decoded(grid).channels = channels
          /\ DOMAIN Decoded(grid).data = 1..channels * (width * height)
          /\ Decoded(grid).data[index] = pixel(index - 1)[((index - 1) % channels) + 1]
        BY <1>8, <2>4
    <2>10. (<<x, y>>[2] * Decoded(grid).width + <<x, y>>[1]) * Decoded(grid).channels + c = index
        BY <2>1, <2>2, <2>9
    <2>11. QED
        BY <2>4, <2>8, <2>9, <2>10 DEF Sample
<1>10. Decoded(grid).width = width /\ Decoded(grid).height = height /\ Decoded(grid).channels = channels
    BY <1>8
<1>11. Cardinality({p[1] : p \in DOMAIN grid}) = width /\ Cardinality({p[2] : p \in DOMAIN grid}) = height
    BY <1>3, <1>4
<1>12. IsPicture(grid, width, height, channels)
    BY <1>1, <1>9, <1>10, <1>11 DEF IsPicture
<1>13. QED
    BY <1>12

-----------------------------------------------------------------------------
\* What is rounded is an integer.
LEMMA RoundInt ==
    ASSUME NEW a \in Int, NEW b \in Nat \ {0}
    PROVE  Round(a, b) \in Int
<1>1. PICK x \in Int, d \in Nat \ {0} : x = 2 * a + b /\ d = 2 * b
    OBVIOUS
<1>2. x \div d \in Int
    BY Division
<1>3. QED
    BY <1>1, <1>2 DEF Round

\* A city is at a pixel of the map, or past its edge, and a radius is a number of pixels.
LEMMA PlacesAreIntegers ==
    ASSUME NEW width \in Nat, NEW height \in Nat
    PROVE  /\ \A city : Inside(city) =>
                 Position(city, width, height)[1] \in Int /\ Position(city, width, height)[2] \in Int
           /\ \A km \in Int : PixelsFromKilometers(km, width, height) \in Int
<1>1. ASSUME NEW city, Inside(city)
      PROVE  Position(city, width, height)[1] \in Int /\ Position(city, width, height)[2] \in Int
    <2>1. city[1] \in Int /\ city[2] \in Int
        BY <1>1 DEF Inside
    <2>2. /\ width * (city[2] - 112670) \in Int /\ height * (521670 - city[1]) \in Int
          /\ 95030 \in Nat \ {0} /\ 40670 \in Nat \ {0}
        BY <2>1
    <2>3. Round(width * (city[2] - 112670), 95030) \in Int /\ Round(height * (521670 - city[1]), 40670) \in Int
        <3>1. PICK u \in Int, v \in Int : u = width * (city[2] - 112670) /\ v = height * (521670 - city[1])
            BY <2>2
        <3>2. Round(u, 95030) \in Int /\ Round(v, 40670) \in Int
            BY RoundInt
        <3>3. QED
            BY <3>1, <3>2
    <2>4. bbox.left = 112670 /\ bbox.right - bbox.left = 95030 /\ bbox.top = 521670 /\ bbox.top - bbox.bottom = 40670
        BY DEF bbox
    <2>5. QED
        BY <2>3, <2>4 DEF Position
<1>2. ASSUME NEW km \in Int PROVE PixelsFromKilometers(km, width, height) \in Int
    <2>1. KmWide \in Nat \ {0} /\ KmHigh \in Nat \ {0}
        BY MapAssumption
    <2>2. KmWide * KmHigh \in Nat \ {0}
        BY <2>1
    <2>3. 20 * KmWide * KmHigh \in Nat \ {0}
        BY <2>1, <2>2
    <2>4. width * KmHigh + height * KmWide \in Int
        BY <2>1
    <2>5. km * (width * KmHigh + height * KmWide) \in Int
        BY <2>4
    <2>6. QED
        BY <2>3, <2>5, RoundInt DEF PixelsFromKilometers
<1>3. QED
    BY <1>1, <1>2

\* The square around a position, cut off at the edges, is what is near it in the picture.
LEMMA SquareIsNear ==
    ASSUME NEW grid, NEW width, NEW height, NEW channels, IsPicture(grid, width, height, channels),
           NEW city, Inside(city), NEW radius \in Int \cup {None}
    PROVE  LET km == IF radius = None THEN 25 ELSE radius
               pixels == PixelsWithRadius(Position(city, width, height), Decoded(grid), PixelsFromKilometers(km, width, height))
           IN  pixels = Near(grid, city, radius) /\ pixels \subseteq DOMAIN grid /\ IsFiniteSet(pixels)
<1>1. /\ width \in Nat \ {0} /\ height \in Nat \ {0} /\ channels \in Nat \ {0}
      /\ DOMAIN grid = (0..width - 1) \X (0..height - 1)
      /\ Cardinality({p[1] : p \in DOMAIN grid}) = width /\ Cardinality({p[2] : p \in DOMAIN grid}) = height
      /\ Decoded(grid).width = width /\ Decoded(grid).height = height
    BY DEF IsPicture, Pictures
<1> DEFINE km == IF radius = None THEN 25 ELSE radius
<1>2. PICK x \in Int, y \in Int, reach \in Int :
         /\ Position(city, width, height) = <<x, y>> /\ reach = PixelsFromKilometers(km, width, height)
    <2>1. km \in Int
        OBVIOUS
    <2>2. PixelsFromKilometers(km, width, height) \in Int
        BY <1>1, <2>1, PlacesAreIntegers
    <2>3. /\ Position(city, width, height)[1] \in Int /\ Position(city, width, height)[2] \in Int
          /\ Position(city, width, height) = <<Position(city, width, height)[1], Position(city, width, height)[2]>>
        BY <1>1, PlacesAreIntegers DEF Position
    <2>4. QED
        BY <2>2, <2>3
<1> DEFINE pixels == PixelsWithRadius(Position(city, width, height), Decoded(grid), PixelsFromKilometers(km, width, height))
<1>3. pixels = (Larger(0, x - reach)..Smaller(width - 1, x + reach)) \X (Larger(0, y - reach)..Smaller(height - 1, y + reach))
    BY <1>1, <1>2 DEF PixelsWithRadius
<1>4. Near(grid, city, radius) = {p \in DOMAIN grid : p[1] - x \in (-reach)..reach /\ p[2] - y \in (-reach)..reach}
    <2>1. PICK at, away : /\ at = Position(city, Cardinality({p[1] : p \in DOMAIN grid}), Cardinality({p[2] : p \in DOMAIN grid}))
                          /\ away = PixelsFromKilometers(km, Cardinality({p[1] : p \in DOMAIN grid}), Cardinality({p[2] : p \in DOMAIN grid}))
        OBVIOUS
    <2>2. Near(grid, city, radius) = {p \in DOMAIN grid : \A k \in 1..2 : p[k] - at[k] \in (-away)..away}
        BY <2>1, Zenon DEF Near
    <2>3. at = <<x, y>> /\ away = reach
        BY <1>1, <1>2, <2>1, Zenon
    <2>4. \A p : (\A k \in 1..2 : p[k] - at[k] \in (-away)..away) <=> p[1] - x \in (-reach)..reach /\ p[2] - y \in (-reach)..reach
        BY <2>3
    <2>5. QED
        BY <2>2, <2>4
<1>5. ASSUME NEW i \in Int, NEW j \in Int
      PROVE  /\ i \in Larger(0, x - reach)..Smaller(width - 1, x + reach) <=> i \in 0..width - 1 /\ i - x \in (-reach)..reach
             /\ j \in Larger(0, y - reach)..Smaller(height - 1, y + reach) <=> j \in 0..height - 1 /\ j - y \in (-reach)..reach
    BY <1>1 DEF Larger, Smaller
<1>6. PICK across, down : /\ across = Larger(0, x - reach)..Smaller(width - 1, x + reach)
                          /\ down = Larger(0, y - reach)..Smaller(height - 1, y + reach)
    OBVIOUS
<1>7. across \subseteq 0..width - 1 /\ down \subseteq 0..height - 1
    <2>1. \A i \in across : i \in Int
        BY <1>6
    <2>2. \A j \in down : j \in Int
        BY <1>6
    <2>3. QED
        BY <1>5, <1>6, <2>1, <2>2
<1>8. pixels \subseteq DOMAIN grid
    BY <1>1, <1>3, <1>6, <1>7
<1>9. pixels = Near(grid, city, radius)
    <2>1. ASSUME NEW p \in DOMAIN grid PROVE p \in pixels <=> p \in Near(grid, city, radius)
        <3>1. PICK i \in 0..width - 1, j \in 0..height - 1 : p = <<i, j>>
            BY <1>1, <2>1
        <3>2. p \in pixels <=> i \in across /\ j \in down
            BY <1>3, <1>6, <3>1
        <3>3. p \in Near(grid, city, radius) <=> i - x \in (-reach)..reach /\ j - y \in (-reach)..reach
            BY <1>4, <2>1, <3>1
        <3>4. i \in Int /\ j \in Int
            BY <1>1, <3>1
        <3>5. (i \in across <=> i - x \in (-reach)..reach) /\ (j \in down <=> j - y \in (-reach)..reach)
            BY <1>5, <1>6, <3>1, <3>4
        <3>6. QED
            BY <3>2, <3>3, <3>5
    <2>2. Near(grid, city, radius) \subseteq DOMAIN grid
        BY <1>4
    <2>3. QED
        BY <1>8, <2>1, <2>2
<1>10. IsFiniteSet(pixels)
    <2>1. IsFiniteSet(0..width - 1) /\ IsFiniteSet(0..height - 1)
        <3>1. PICK right \in Int, below \in Int : right = width - 1 /\ below = height - 1
            BY <1>1
        <3>2. IsFiniteSet(0..right) /\ IsFiniteSet(0..below)
            BY FS_Interval
        <3>3. QED
            BY <3>1, <3>2
    <2>2. PICK A, B : A = 0..width - 1 /\ B = 0..height - 1 /\ IsFiniteSet(A) /\ IsFiniteSet(B)
        BY <2>1
    <2>3. IsFiniteSet(A \X B)
        BY <2>2, FS_Product
    <2>4. QED
        BY <1>1, <1>8, <2>2, <2>3, FS_Subset
<1>11. QED
    BY <1>8, <1>9, <1>10

\* The pixels a colour is the mean of.
Square(grid, city, radius) ==
    PixelsWithRadius(Position(city, Decoded(grid).width, Decoded(grid).height), Decoded(grid),
                     PixelsFromKilometers(IF radius = None THEN 25 ELSE radius, Decoded(grid).width, Decoded(grid).height))

\* A channel of a colour, where the picture is near the city and can be read, is a
\* mean of samples near the city.
Tells(grid, city, radius, channel, told) ==
    LET near == {grid[p][channel] : p \in Near(grid, city, radius)}
    IN  IF near = {} THEN told = None
        ELSE told # None /\ \E low, high \in near : told \in low..high

LEMMA ColorTells ==
    ASSUME NEW grid \in Grids, NEW city, Inside(city), NEW radius \in Int \cup {None},
           Decoded(grid).channels # 4 => Square(grid, city, radius) = {},
           NEW channel \in 1..3
    PROVE  Tells(grid, city, radius, channel, Color(city, Decoded(grid), radius)[channel])
<1> DEFINE image == Decoded(grid)
           S == Square(grid, city, radius)
           told == Color(city, image, radius)[channel]
<1>1. PICK width, height, channels : IsPicture(grid, width, height, channels)
    BY DecodedPicture
<1>2. /\ width \in Nat \ {0} /\ height \in Nat \ {0} /\ channels \in Nat \ {0}
      /\ image.width = width /\ image.height = height /\ image.channels = channels
      /\ DOMAIN grid = (0..width - 1) \X (0..height - 1)
      /\ \A p \in DOMAIN grid : grid[p] \in [1..channels -> Nat]
    BY <1>1 DEF IsPicture, Pictures
<1>3. S = Near(grid, city, radius) /\ S \subseteq DOMAIN grid /\ IsFiniteSet(S)
    <2>1. S = PixelsWithRadius(Position(city, width, height), Decoded(grid),
                               PixelsFromKilometers(IF radius = None THEN 25 ELSE radius, width, height))
        BY <1>2 DEF Square
    <2>2. QED
        BY <1>1, <2>1, SquareIsNear
<1>4. told = IF S = {} \/ \E p \in S : Sample(image, p, channel) = None
             THEN None
             ELSE Round(Total(image, channel, S), Cardinality(S))
    BY DEF Color, Square, Total
<1> HIDE DEF S, told
<1>5. CASE S = {}
    <2>1. told = None
        BY <1>4, <1>5
    <2>2. {grid[p][channel] : p \in Near(grid, city, radius)} = {}
        BY <1>3, <1>5
    <2>3. QED
        BY <2>1, <2>2 DEF Tells, told
<1>6. CASE S # {}
    <2>1. channels = 4
        BY <1>2, <1>6 DEF S
    <2>2. \A p \in S : Sample(image, p, channel) = grid[p][channel] /\ grid[p][channel] \in Nat
        <3>1. SUFFICES ASSUME NEW p \in S
                       PROVE  Sample(image, p, channel) = grid[p][channel] /\ grid[p][channel] \in Nat
            OBVIOUS
        <3>2. PICK x \in 0..width - 1, y \in 0..height - 1 : p = <<x, y>>
            BY <1>2, <1>3
        <3>3. channel \in 1..channels
            BY <2>1
        <3>4. Sample(image, <<x, y>>, channel) = grid[<<x, y>>][channel]
            BY <1>1, <3>3 DEF IsPicture
        <3>5. p \in DOMAIN grid
            BY <1>3
        <3>6. grid[p][channel] \in Nat
            BY <1>2, <3>3, <3>5
        <3>7. QED
            BY <3>2, <3>4, <3>6
    <2>3. \A p \in S : Sample(image, p, channel) \in Int /\ Sample(image, p, channel) # None
        BY <2>2, MapAssumption
    <2>4. told = Round(Total(image, channel, S), Cardinality(S))
        BY <1>4, <1>6, <2>3
    <2>5. PICK lo \in S, hi \in S :
             /\ Total(image, channel, S) \in Int
             /\ Sample(image, lo, channel) * Cardinality(S) <= Total(image, channel, S)
             /\ Total(image, channel, S) <= Sample(image, hi, channel) * Cardinality(S)
        BY <1>3, <1>6, <2>3, TotalBounds
    <2>6. Cardinality(S) \in Nat \ {0}
        BY <1>3, <1>6, FS_CardinalityType, FS_EmptySet
    <2>7. PICK total \in Int, n \in Nat \ {0}, low \in Int, high \in Int :
             /\ total = Total(image, channel, S) /\ n = Cardinality(S)
             /\ low = grid[lo][channel] /\ high = grid[hi][channel]
             /\ low * n <= total /\ total <= high * n
        BY <2>2, <2>5, <2>6
    <2>8. Round(total, n) \in low..high
        BY <2>7, MeanBetween
    <2>9. told \in low..high
        BY <2>4, <2>7, <2>8
    <2>10. told # None
        BY <2>9, MapAssumption
    <2> DEFINE near == {grid[p][channel] : p \in Near(grid, city, radius)}
    <2>11. low \in near /\ high \in near
        BY <1>3, <2>5, <2>7
    <2>12. QED
        BY <2>9, <2>10, <2>11 DEF Tells, told
<1>7. QED
    BY <1>5, <1>6

-----------------------------------------------------------------------------
\* At most d away from zero.
Within(z, d) == -d <= z /\ z <= d

\* A rounded quotient is half of the divisor away at most, and below a bound that
\* leaves as much to spare.
LEMMA RoundNear ==
    ASSUME NEW a \in Int, NEW d \in Nat \ {0}
    PROVE  /\ Round(a, d) \in Int /\ Within(2 * (Round(a, d) * d - a), d)
           /\ a >= 0 => Round(a, d) >= 0
           /\ \A n \in Int : 2 * a + d < 2 * (n * d) => Round(a, d) < n
<1>1. PICK q \in Int, r \in 0..2 * d - 1 : q = Round(a, d) /\ 2 * a + d = (2 * d) * q + r
    <2>1. PICK x \in Int, e \in Nat \ {0} : x = 2 * a + d /\ e = 2 * d
        OBVIOUS
    <2>2. /\ x \div e \in Int /\ x % e \in 0..e - 1
          /\ x = e * (x \div e) + (x % e)
        BY Division
    <2>3. QED
        BY <2>1, <2>2 DEF Round
<1>2. (2 * d) * q = 2 * (q * d) /\ q * d \in Int
    OBVIOUS
<1>3. 2 * (q * d - a) = 2 * (q * d) - 2 * a
    BY <1>2
<1>4. Within(2 * (q * d - a), d)
    BY <1>1, <1>2, <1>3 DEF Within
<1>5. a >= 0 => q >= 0
    <2>1. q <= -1 => q * d <= -d
        OBVIOUS
    <2>2. QED
        BY <1>1, <1>2, <2>1
<1>6. ASSUME NEW n \in Int, 2 * a + d < 2 * (n * d) PROVE q < n
    <2>1. q >= n => q * d >= n * d
        OBVIOUS
    <2>2. n * d \in Int
        OBVIOUS
    <2>3. QED
        BY <1>1, <1>2, <1>6, <2>1, <2>2
<1>7. QED
    BY <1>1, <1>4, <1>5, <1>6

\* A city's position on the surface layer: inside of it, half a pixel away from the city.
LEMMA PositionOnSurface ==
    ASSUME NEW width \in Nat, width >= 3, NEW height \in Nat, height >= 4, NEW city, Inside(city)
    PROVE  \E x, y : /\ Position(city, width, height) = <<x, y>>
                     /\ x \in 0..width - 1 /\ y \in 0..height - 1
                     /\ Within(2 * (x * 95030 - width * (city[2] - bbox.left)), 95030)
                     /\ Within(2 * (y * 40670 - height * (bbox.top - city[1])), 40670)
<1>1. PICK east \in Nat, south \in Nat :
         /\ east = city[2] - 112670 /\ south = 521670 - city[1]
         /\ east <= 72763 /\ south <= 34138
    BY DEF Inside
<1>2. PICK u \in Nat, v \in Nat :
         /\ u = width * east /\ v = height * south
         /\ u <= width * 72763 /\ v <= height * 34138
    <2>1. width * east \in Nat /\ height * south \in Nat
        OBVIOUS
    <2>2. width * east <= width * 72763 /\ height * south <= height * 34138
        BY <1>1
    <2>3. QED
        BY <2>1, <2>2
<1>3. 95030 \in Nat \ {0} /\ 40670 \in Nat \ {0} /\ u \in Int /\ v \in Int
    OBVIOUS
<1>4. PICK x, y : x = Round(u, 95030) /\ y = Round(v, 40670)
    OBVIOUS
<1>5. /\ x \in Int /\ Within(2 * (x * 95030 - u), 95030) /\ (u >= 0 => x >= 0)
      /\ \A n \in Int : 2 * u + 95030 < 2 * (n * 95030) => x < n
    <2>1. /\ Round(u, 95030) \in Int /\ Within(2 * (Round(u, 95030) * 95030 - u), 95030)
          /\ (u >= 0 => Round(u, 95030) >= 0)
          /\ \A n \in Int : 2 * u + 95030 < 2 * (n * 95030) => Round(u, 95030) < n
        BY <1>3, RoundNear
    <2>2. QED
        BY <1>4, <2>1
<1>6. /\ y \in Int /\ Within(2 * (y * 40670 - v), 40670) /\ (v >= 0 => y >= 0)
      /\ \A n \in Int : 2 * v + 40670 < 2 * (n * 40670) => y < n
    <2>1. /\ Round(v, 40670) \in Int /\ Within(2 * (Round(v, 40670) * 40670 - v), 40670)
          /\ (v >= 0 => Round(v, 40670) >= 0)
          /\ \A n \in Int : 2 * v + 40670 < 2 * (n * 40670) => Round(v, 40670) < n
        BY <1>3, RoundNear
    <2>2. QED
        BY <1>4, <2>1
<1>7. x < width /\ y < height
    <2>1. 2 * u + 95030 < 2 * (width * 95030) /\ 2 * v + 40670 < 2 * (height * 40670)
        BY <1>2
    <2>2. width \in Int /\ height \in Int
        OBVIOUS
    <2>3. QED
        BY <1>5, <1>6, <2>1, <2>2
<1>8. bbox.left = 112670 /\ bbox.right - bbox.left = 95030 /\ bbox.top = 521670 /\ bbox.top - bbox.bottom = 40670
    BY DEF bbox
<1>9. Position(city, width, height) = <<x, y>>
    BY <1>1, <1>2, <1>4, <1>8 DEF Position
<1>10. x \in 0..width - 1 /\ y \in 0..height - 1
    BY <1>2, <1>5, <1>6, <1>7
<1>11. width * (city[2] - bbox.left) = u /\ height * (bbox.top - city[1]) = v
    BY <1>1, <1>2, <1>8
<1>12. QED
    BY <1>5, <1>6, <1>9, <1>10, <1>11

\* What a function covers is not larger than its domain.
LEMMA Covered ==
    ASSUME NEW S, IsFiniteSet(S), NEW f, DOMAIN f = S, NEW T, \A t \in T : \E x \in S : f[x] = t
    PROVE  IsFiniteSet(T) /\ Cardinality(T) <= Cardinality(S)
<1> DEFINE A == {x \in S : f[x] \in T}
           g == [x \in A |-> f[x]]
<1>1. g \in Surjection(A, T)
    BY DEF Surjection
<1>2. IsFiniteSet(A) /\ Cardinality(A) <= Cardinality(S) /\ Cardinality(A) \in Nat /\ Cardinality(S) \in Nat
    BY FS_Subset, FS_CardinalityType
<1> HIDE DEF A, g
<1>3. IsFiniteSet(T) /\ Cardinality(T) <= Cardinality(A) /\ Cardinality(T) \in Nat
    BY <1>1, <1>2, FS_Surjection, FS_CardinalityType
<1>4. QED
    BY <1>2, <1>3

\* The offset of a dot.
LEMMA OffsetIsNatural ==
    ASSUME NEW width \in Nat, NEW height \in Nat
    PROVE  CityPixelOffset(width, height) \in Nat
<1>1. PICK m \in Nat : m = Smaller(width, height)
    BY DEF Smaller
<1>2. PICK n \in Int : n = Round(m, 400) /\ n >= 0
    BY RoundNear, 400 \in Nat \ {0}, m \in Int
<1>3. n \div 2 \in Nat
    BY <1>2
<1>4. QED
    BY <1>1, <1>2, <1>3 DEF CityPixelOffset

\* The square of red pixels around a position.
RedSquare(position, off) ==
    ((position[1] - off)..(position[1] + off)) \X ((position[2] - off)..(position[2] + off))

\* A red pixel is one of the picture, in the square of some city.
LEMMA RedPixels ==
    ASSUME NEW width, NEW height, NEW t
    PROVE  t \in CitiesImage(width, height) <=>
              /\ t \in (0..width - 1) \X (0..height - 1)
              /\ \E k \in DOMAIN Cities : t \in RedSquare(Position(Cities[k], width, height), CityPixelOffset(width, height))
BY Zenon DEF CitiesImage, RedSquare

\* A pixel half a pixel and the size of a dot away from a city, compared in degrees.
Marked(p, city, width, height, side) ==
    /\ 2 * (p[1] * (bbox.right - bbox.left) - width * (city[2] - bbox.left))
         \in (-(side * (bbox.right - bbox.left)))..(side * (bbox.right - bbox.left))
    /\ 2 * (p[2] * (bbox.top - bbox.bottom) - height * (bbox.top - city[1]))
         \in (-(side * (bbox.top - bbox.bottom)))..(side * (bbox.top - bbox.bottom))

\* Every city has its dot, ...
LEMMA DotsMark ==
    ASSUME NEW width \in Nat, width >= 3, NEW height \in Nat, height >= 4, NEW k \in DOMAIN Cities
    PROVE  \E p \in CitiesImage(width, height) : Marked(p, Cities[k], width, height, 2 * CityPixelOffset(width, height) + 1)
<1>1. PICK off \in Nat : off = CityPixelOffset(width, height)
    BY OffsetIsNatural
<1>2. PICK city : city = Cities[k] /\ Inside(city)
    BY CitiesInside
<1>3. city[1] \in Int /\ city[2] \in Int
    BY <1>2 DEF Inside
<1>4. PICK x, y : /\ Position(city, width, height) = <<x, y>>
                  /\ x \in 0..width - 1 /\ y \in 0..height - 1
                  /\ Within(2 * (x * 95030 - width * (city[2] - bbox.left)), 95030)
                  /\ Within(2 * (y * 40670 - height * (bbox.top - city[1])), 40670)
    BY <1>2, PositionOnSurface
<1>5. x \in Int /\ y \in Int
    BY <1>4
<1>6. x \in (x - off)..(x + off) /\ y \in (y - off)..(y + off)
    BY <1>1, <1>5
<1>7. <<x, y>> \in CitiesImage(width, height)
    <2>1. <<x, y>> \in RedSquare(<<x, y>>, off)
        BY <1>6 DEF RedSquare
    <2>2. <<x, y>> \in (0..width - 1) \X (0..height - 1)
        BY <1>4
    <2>3. <<x, y>> \in RedSquare(Position(Cities[k], width, height), CityPixelOffset(width, height))
        BY <1>1, <1>2, <1>4, <2>1
    <2>4. QED
        BY <2>2, <2>3, RedPixels
<1>8. PICK wide \in Nat, high \in Nat, left \in Int, top \in Int :
         /\ wide = 95030 /\ high = 40670 /\ left = bbox.left /\ top = bbox.top
         /\ wide = bbox.right - bbox.left /\ high = bbox.top - bbox.bottom
    BY DEF bbox
<1>9. PICK side \in Nat : side = 2 * off + 1 /\ side >= 1
    OBVIOUS
<1>10. side * wide \in Nat /\ side * wide >= wide /\ side * high \in Nat /\ side * high >= high
    BY <1>8, <1>9
<1>11. PICK u \in Int, v \in Int : u = 2 * (x * wide - width * (city[2] - left)) /\ v = 2 * (y * high - height * (top - city[1]))
    <2>1. x * wide \in Int /\ y * high \in Int /\ width * (city[2] - left) \in Int /\ height * (top - city[1]) \in Int
        BY <1>3, <1>5, <1>8
    <2>2. QED
        BY <2>1
<1>12. Within(u, wide) /\ Within(v, high)
    BY <1>4, <1>8, <1>11
<1>13. u \in (-(side * wide))..(side * wide) /\ v \in (-(side * high))..(side * high)
    BY <1>10, <1>12 DEF Within
<1>14. Marked(<<x, y>>, city, width, height, side)
    BY <1>8, <1>11, <1>13 DEF Marked
<1>15. QED
    BY <1>1, <1>2, <1>7, <1>9, <1>14

\* ... and no more is red than a dot for each.
LEMMA DotsBounded ==
    ASSUME NEW width \in Nat, NEW height \in Nat
    PROVE  LET side == 2 * CityPixelOffset(width, height) + 1
           IN  Cardinality(CitiesImage(width, height)) <= side * side * Len(Cities)
<1>1. PICK off \in Nat, side \in Nat : off = CityPixelOffset(width, height) /\ side = 2 * off + 1
    BY OffsetIsNatural
<1>2. PICK A, B : /\ A = 1..72 /\ B = (-off)..off
                  /\ IsFiniteSet(A) /\ Cardinality(A) = 72 /\ IsFiniteSet(B) /\ Cardinality(B) = side
    <2>1. IsFiniteSet(1..72) /\ Cardinality(1..72) = 72
        <3>1. PICK n \in Int : n = 72
            OBVIOUS
        <3>2. IsFiniteSet(1..n) /\ Cardinality(1..n) = IF 1 > n THEN 0 ELSE n - 1 + 1
            BY FS_Interval
        <3>3. QED
            BY <3>1, <3>2
    <2>2. IsFiniteSet((-off)..off) /\ Cardinality((-off)..off) = side
        <3>1. PICK n \in Int : n = -off
            OBVIOUS
        <3>2. IsFiniteSet(n..off) /\ Cardinality(n..off) = IF n > off THEN 0 ELSE off - n + 1
            BY FS_Interval
        <3>3. QED
            BY <1>1, <3>1, <3>2
    <2>3. QED
        BY <2>1, <2>2
<1>3. PICK AB : AB = A \X B /\ IsFiniteSet(AB) /\ Cardinality(AB) = 72 * side
    <2>1. IsFiniteSet(A \X B) /\ Cardinality(A \X B) = Cardinality(A) * Cardinality(B)
        BY <1>2, FS_Product
    <2>2. QED
        BY <1>2, <2>1
<1>4. PICK S : S = AB \X B /\ IsFiniteSet(S) /\ Cardinality(S) = (72 * side) * side
    <2>1. IsFiniteSet(AB \X B) /\ Cardinality(AB \X B) = Cardinality(AB) * Cardinality(B)
        BY <1>2, <1>3, FS_Product
    <2>2. QED
        BY <1>2, <1>3, <2>1
<1> DEFINE P(k) == Position(Cities[k], width, height)
           f == [s \in S |-> <<P(s[1][1])[1] + s[1][2], P(s[1][1])[2] + s[2]>>]
<1>5. ASSUME NEW t \in CitiesImage(width, height) PROVE \E s \in S : f[s] = t
    <2>1. PICK k \in 1..72 : t \in RedSquare(P(k), off)
        BY <1>1, <1>5, CitiesInside, RedPixels
    <2>2. PICK x \in Int, y \in Int : x = P(k)[1] /\ y = P(k)[2]
        <3>1. Inside(Cities[k])
            BY CitiesInside
        <3>2. P(k)[1] \in Int /\ P(k)[2] \in Int
            BY <3>1, PlacesAreIntegers
        <3>3. QED
            BY <3>2
    <2>3. PICK a \in (x - off)..(x + off), b \in (y - off)..(y + off) : t = <<a, b>>
        BY <2>1, <2>2 DEF RedSquare
    <2>4. a - x \in B /\ b - y \in B /\ x + (a - x) = a /\ y + (b - y) = b
        <3>1. a \in Int /\ b \in Int /\ x - off <= a /\ a <= x + off /\ y - off <= b /\ b <= y + off
            BY <2>3
        <3>2. a - x \in (-off)..off /\ b - y \in (-off)..off
            BY <3>1
        <3>3. QED
            BY <1>2, <3>1, <3>2
    <2>5. PICK s : s = <<<<k, a - x>>, b - y>>
        OBVIOUS
    <2>6. s \in S /\ s[1][1] = k /\ s[1][2] = a - x /\ s[2] = b - y
        BY <1>2, <1>3, <1>4, <2>4, <2>5
    <2>7. f[s] = <<P(k)[1] + (a - x), P(k)[2] + (b - y)>>
        BY <2>6
    <2>8. QED
        BY <2>2, <2>3, <2>4, <2>6, <2>7
<1>6. DOMAIN f = S
    OBVIOUS
<1> HIDE DEF f, P
<1>7. Cardinality(CitiesImage(width, height)) <= Cardinality(S)
    BY <1>4, <1>5, <1>6, Covered
<1>8. side * side * Len(Cities) = (72 * side) * side
    <2>1. Len(Cities) = 72 /\ side * side \in Nat
        BY CitiesInside
    <2>2. (72 * side) * side = 72 * (side * side)
        OBVIOUS
    <2>3. QED
        BY <2>1, <2>2
<1>9. QED
    BY <1>1, <1>4, <1>7, <1>8

-----------------------------------------------------------------------------
\* What an answer says of the composite it was read from.
LedsTell(grid, radius, told) ==
    /\ Len(told) = Len(Cities) /\ DOMAIN told = DOMAIN Cities
    /\ \A k \in DOMAIN Cities, channel \in 1..3 : Tells(grid, Cities[k], radius, channel, told[k][channel])

\* What is read of a composite tells it.
LEMMA CitiesTell ==
    ASSUME NEW grid \in Grids, NEW radius \in Int \cup {None}, ~ Unreadable(Decoded(grid), radius)
    PROVE  LedsTell(grid, radius, [k \in DOMAIN Cities |-> Color(Cities[k], Decoded(grid), radius)])
<1> DEFINE told == [k \in DOMAIN Cities |-> Color(Cities[k], Decoded(grid), radius)]
<1>1. DOMAIN told = DOMAIN Cities /\ Len(told) = Len(Cities)
    BY CitiesInside
<1>2. ASSUME NEW k \in DOMAIN Cities, NEW channel \in 1..3
      PROVE  Tells(grid, Cities[k], radius, channel, told[k][channel])
    <2>1. Decoded(grid).channels # 4 => Square(grid, Cities[k], radius) = {}
        BY DEF Unreadable, Square
    <2>2. Inside(Cities[k])
        BY CitiesInside
    <2>3. Tells(grid, Cities[k], radius, channel, Color(Cities[k], Decoded(grid), radius)[channel])
        BY <2>1, <2>2, ColorTells
    <2>4. told[k] = Color(Cities[k], Decoded(grid), radius)
        OBVIOUS
    <2>5. QED
        BY <2>3, <2>4
<1> HIDE DEF told
<1>3. LedsTell(grid, radius, told)
    BY <1>1, <1>2 DEF LedsTell
<1>4. QED
    BY <1>3 DEF told

\* The inductive invariant: a request is for the five minutes it came in, the layers
\* are fetched for a picture, and an answer is that of the composite still published.
QueryOk ==
    /\ query.kind \in {"cities", "image"} /\ query.radius \in Int \cup {None}
    /\ query.slot = query.at \div 5 /\ query.slot \in 0..MaxMinute \div 5

StageOk ==
    /\ stage \in {"idle", "radar", "surface", "names", "borders", "answered", "failed"}
    /\ stage # "idle" => QueryOk
    /\ stage \in {"surface", "names", "borders"} => query.kind = "image"
    /\ stage \in {"names", "borders"} => surface \in Sizes

AnswerOk ==
    stage = "answered" =>
        /\ query.kind = "cities" =>
              published[query.slot] # None /\ LedsTell(published[query.slot], query.radius, cities)
        /\ query.kind = "image" => surface \in Sizes /\ dots = CitiesImage(surface[1], surface[2])

MapInv ==
    /\ minute \in 0..MaxMinute /\ published \in [0..MaxMinute \div 5 -> Grids \cup {None}]
    /\ StageOk /\ AnswerOk

\* Every step keeps it.
LEMMA MapSteps ==
    ASSUME MapInv, [MapNext]_mapVars
    PROVE  MapInv'
<1> USE DEF MapInv
<1>1. CASE Minute
    <2>1. minute' \in 0..MaxMinute
        BY <1>1, MapAssumption DEF Minute
    <2>2. UNCHANGED <<published, query, stage, surface, cities, dots>>
        BY <1>1 DEF Minute
    <2>3. StageOk' /\ AnswerOk'
        BY <2>2 DEF StageOk, QueryOk, AnswerOk
    <2>4. QED
        BY <2>1, <2>2, <2>3
<1>2. CASE Publish
    <2>1. PICK slot \in 0..minute \div 5, grid \in Grids :
             published[slot] = None /\ published' = [published EXCEPT ![slot] = grid]
        BY <1>2 DEF Publish
    <2>2. UNCHANGED <<minute, query, stage, surface, cities, dots>>
        BY <1>2 DEF Publish
    <2>3. published' \in [0..MaxMinute \div 5 -> Grids \cup {None}]
        BY <2>1
    <2>4. StageOk'
        BY <2>2 DEF StageOk, QueryOk
    <2>5. ASSUME stage = "answered", query.kind = "cities", published[query.slot] # None
          PROVE  published'[query.slot] = published[query.slot]
        BY <2>1, <2>5 DEF StageOk, QueryOk
    <2>6. AnswerOk'
        BY <2>2, <2>5 DEF AnswerOk
    <2>7. QED
        BY <2>2, <2>3, <2>4, <2>6
<1>3. CASE Ask
    <2>1. PICK kind \in {"cities", "image"}, radius \in Radii :
             query' = [kind |-> kind, radius |-> IF kind = "cities" THEN radius ELSE None, slot |-> CurrentDate, at |-> minute]
        BY <1>3 DEF Ask
    <2>2. minute \div 5 \in 0..MaxMinute \div 5
        BY MapAssumption
    <2>3. radius \in Int \cup {None}
        BY <2>1, MapAssumption
    <2>4. QueryOk'
        BY <2>1, <2>2, <2>3 DEF QueryOk, CurrentDate
    <2>5. stage' = "radar" /\ UNCHANGED <<minute, published>>
        BY <1>3 DEF Ask
    <2>6. QED
        BY <2>4, <2>5 DEF StageOk, AnswerOk
<1>4. CASE Fails
    <2>1. /\ stage \in {"radar", "surface", "names", "borders"} /\ stage' = "failed"
          /\ UNCHANGED <<minute, published, query, surface, cities, dots>>
        BY <1>4 DEF Fails
    <2>2. QED
        BY <2>1 DEF StageOk, QueryOk, AnswerOk
<1>5. CASE CitiesFromRadar
    <2>1. /\ stage = "radar" /\ query.kind = "cities" /\ published[query.slot] # None
          /\ UNCHANGED <<minute, published, query, surface, dots>> /\ QueryOk
        BY <1>5 DEF CitiesFromRadar, StageOk
    <2>2. QueryOk' /\ query.slot \in 0..MaxMinute \div 5 /\ query.radius \in Int \cup {None}
        BY <2>1 DEF QueryOk
    <2>3. published[query.slot] \in Grids
        BY <2>1, <2>2
    <2>4. CASE Unreadable(Decoded(published[query.slot]), query.radius)
        <3>1. stage' = "failed"
            BY <1>5, <2>4 DEF CitiesFromRadar
        <3>2. QED
            BY <2>1, <2>2, <3>1 DEF StageOk, AnswerOk
    <2>5. CASE ~ Unreadable(Decoded(published[query.slot]), query.radius)
        <3>1. /\ stage' = "answered"
              /\ cities' = [k \in DOMAIN Cities |-> Color(Cities[k], Decoded(published[query.slot]), query.radius)]
            BY <1>5, <2>5 DEF CitiesFromRadar
        <3>2. LedsTell(published[query.slot], query.radius, cities')
            BY <2>2, <2>3, <2>5, <3>1, CitiesTell
        <3>3. AnswerOk'
            BY <2>1, <3>2 DEF AnswerOk
        <3>4. QED
            BY <2>1, <2>2, <3>1, <3>3 DEF StageOk
    <2>6. QED
        BY <2>4, <2>5
<1>6. CASE Layer
    <2>1. /\ query.kind = "image" /\ stage \in {"radar", "surface", "names"}
          /\ stage' \in {"surface", "names", "borders"}
          /\ stage' \in {"names", "borders"} => surface' \in Sizes
          /\ UNCHANGED <<minute, published, query, cities, dots>>
        BY <1>6 DEF Layer, StageOk
    <2>2. QED
        BY <2>1 DEF StageOk, QueryOk, AnswerOk
<1>7. CASE Composite
    <2>1. /\ stage = "borders" /\ stage' = "answered" /\ dots' = CitiesImage(surface[1], surface[2])
          /\ UNCHANGED <<minute, published, query, surface, cities>>
        BY <1>7 DEF Composite
    <2>2. QED
        BY <2>1 DEF StageOk, QueryOk, AnswerOk
<1>8. CASE UNCHANGED mapVars
    BY <1>8 DEF mapVars, StageOk, QueryOk, AnswerOk
<1>9. QED
    BY <1>1, <1>2, <1>3, <1>4, <1>5, <1>6, <1>7, <1>8 DEF MapNext

\* It says what an answer is to tell.
LEMMA AnswersTell ==
    ASSUME MapInv
    PROVE  MapTellsTheRadar
<1>1. ColorsTellTheRadar
    <2>1. SUFFICES ASSUME stage = "answered", query.kind = "cities" PROVE ColorsTellTheRadar
        BY DEF ColorsTellTheRadar
    <2>2. published[query.at \div 5] = published[query.slot] /\ LedsTell(published[query.slot], query.radius, cities)
        BY <2>1 DEF MapInv, StageOk, QueryOk, AnswerOk
    <2>3. LedsTell(published[query.at \div 5], query.radius, cities)
        BY <2>2
    <2>4. QED
        BY <2>3 DEF ColorsTellTheRadar, LedsTell, Tells
<1>2. DotsMarkTheirCities
    <2>1. SUFFICES ASSUME stage = "answered", query.kind = "image" PROVE DotsMarkTheirCities
        BY DEF DotsMarkTheirCities
    <2>2. surface \in Sizes /\ dots = CitiesImage(surface[1], surface[2])
        BY <2>1 DEF MapInv, AnswerOk
    <2>3. PICK width \in Nat, height \in Nat :
             width = surface[1] /\ height = surface[2] /\ width >= 3 /\ height >= 4
        BY <2>2, MapAssumption
    <2>4. \A k \in DOMAIN Cities : \E p \in dots : Marked(p, Cities[k], width, height, 2 * CityPixelOffset(width, height) + 1)
        BY <2>2, <2>3, DotsMark
    <2>5. LET side == 2 * CityPixelOffset(width, height) + 1
          IN  Cardinality(dots) <= side * side * Len(Cities)
        BY <2>2, <2>3, DotsBounded
    <2>6. QED
        BY <2>3, <2>4, <2>5, Zenon DEF DotsMarkTheirCities, Marked
<1>3. QED
    BY <1>1, <1>2 DEF MapTellsTheRadar

\* The LEDs tell the weather of their cities, of the five minutes in which it was
\* asked for, and the picture marks every city: for any composites, any radius and
\* a surface layer of any size (RasterService).
THEOREM MapTells == MapSpec => []MapTellsTheRadar
<1>1. MapInit => MapInv
    BY MapAssumption DEF MapInit, MapInv, StageOk, AnswerOk
<1>2. MapInv /\ [MapNext]_mapVars => MapInv'
    BY MapSteps
<1>3. MapInv => MapTellsTheRadar
    BY AnswersTell
<1>4. QED
    BY <1>1, <1>2, <1>3, PTL DEF MapSpec
=============================================================================

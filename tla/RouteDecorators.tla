-------------------------- MODULE RouteDecorators --------------------------
(***************************************************************************)
(* What the decorators of packages/tsed-auth/src/decorators.ts make of a    *)
(* route: the options its guard reads and what the OpenAPI document says of *)
(* it.  Decorators run from the nearest outwards, those at the method       *)
(* before those at the class, which reach every method of the class.        *)
(***************************************************************************)
EXTENDS Naturals, Sequences

\* A route with the stacks it carries, nearest first; `named' holds the methods
\* once some decorator has named them, `described' what its 403 asks for.
Undecorated(atMethod, atClass) ==
    [atMethod |-> atMethod, atClass |-> atClass,
     anonymous |-> FALSE, named |-> <<>>, roles |-> {},
     security |-> "unsaid", responses |-> {}, described |-> {}]

\* Ts.ED's UseAuth merges options: a value already there stays, lists are joined.
UseAuth(rt, anonymous, named, roles) ==
    [rt EXCEPT !.anonymous = @ \/ anonymous,
               !.named = IF @ = <<>> THEN named ELSE @,
               !.roles = @ \cup roles]

Security(rt, security) == [rt EXCEPT !.security = security]

\* The padlock and the guard's own answers, unless the route is open already.
DocumentMethod(rt) ==
    IF rt.anonymous THEN rt
    ELSE [Security(rt, "bearer") EXCEPT !.responses = @ \cup {401, 503}]

\* The 403 with all that is required so far, not only by the nearest decorator.
DocumentRolesMethod(rt) ==
    LET requirements == rt.roles \ {{}}
    IN  IF rt.anonymous \/ requirements = {} THEN rt
        ELSE [rt EXCEPT !.responses = @ \cup {403}, !.described = requirements]

Authenticate(rt, methods) == DocumentMethod(UseAuth(rt, FALSE, <<methods>>, {}))
Anonymous(rt) == Security(UseAuth(rt, TRUE, <<>>, {}), "none")

\* Mutant: the document is written before the requirement is stored.
RequireRolesDocumentedFirst(rt, roles) == UseAuth(DocumentRolesMethod(rt), FALSE, <<>>, {roles})
RequireRoles(rt, roles) == DocumentRolesMethod(UseAuth(rt, FALSE, <<>>, {roles}))

Applied(rt, d) ==
    CASE d.by = "Authenticate" -> Authenticate(rt, d.methods)
      [] d.by = "RequireRoles" -> RequireRoles(rt, d.roles)
      [] d.by = "Anonymous" -> Anonymous(rt)

\* The whole stack, one decorator after the other.
AppliedAll(rt, stack) ==
    LET after[n \in 0..Len(stack)] == IF n = 0 THEN rt ELSE Applied(after[n - 1], stack[n])
    IN  after[Len(stack)]

Decorated(atMethod, atClass) == AppliedAll(Undecorated(atMethod, atClass), atMethod \o atClass)

\* decodeMethods: what is no name is dropped.
DecodeMethods(methods) ==
    LET names[n \in 0..Len(methods)] ==
            IF n = 0 THEN <<>>
            ELSE IF methods[n] = "" THEN names[n - 1] ELSE Append(names[n - 1], methods[n])
    IN  names[Len(methods)]

\* What a decorator may be, and a stack of them.
Decorator ==
    [by : {"Authenticate"}, methods : Seq(STRING)] \cup
    [by : {"RequireRoles"}, roles : SUBSET STRING] \cup [by : {"Anonymous"}]

Places(stack, by) == {i \in DOMAIN stack : stack[i].by = by}
-----------------------------------------------------------------------------
\* The routes the APIs serve: per controller, the operations with the decorators
\* at the method and at the class.  AuthMethod names one method everywhere.
Idp == [by |-> "Authenticate", methods |-> <<"IDP">>]
Admin == [by |-> "RequireRoles", roles |-> {"admin"}]
Guarded(operations, atClass) == [o \in operations |-> <<<<>>, atClass>>]

\* The image is fetched by an <img>, which cannot carry a token.
QrCodeRoutes ==
    [Guarded({"create", "list", "get", "update", "delete", "image"}, <<Idp>>)
        EXCEPT !["image"] = <<<<[by |-> "Anonymous"]>>, <<Idp>>>>]

\* The roles stand below the authentication: they are the nearer decorator.
CommandRoutes ==
    Guarded({"commandGet", "commandPost", "rawCommandGet", "rawCommandPost"}, <<Admin, Idp>>)

DevicesRoutes == Guarded({"discover", "register", "getAll", "get", "delete"}, <<Idp>>)
NotificationRoutes == Guarded({"create", "getAll", "deleteAll", "delete"}, <<Idp>>)
OverridesRoutes == Guarded({"getAllOverrides", "createOverride", "deleteOverride"}, <<Idp>>)
DataSourcesRoutes ==
    Guarded({"getDataSources", "getDataSource", "getDataSourceForIoT", "getDataSourceImage"}, <<Idp>>)

ServedRoutes ==
    UNION {{routes[o] : o \in DOMAIN routes} :
           routes \in {QrCodeRoutes, CommandRoutes, DevicesRoutes,
                       NotificationRoutes, OverridesRoutes, DataSourcesRoutes}}
=============================================================================

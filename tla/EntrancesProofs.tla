--------------------------- MODULE EntrancesProofs ---------------------------
(***************************************************************************)
(* What comes in by HTTP and by MQTT.                                      *)
(*                                                                         *)
(* The guard admits, refuses and documents as it should, for any number of *)
(* requests, methods, issuers, keys and routes, and for decorators stacked *)
(* to any height.  The proof has three parts.  The first follows the       *)
(* decorators: what one makes of the record of a route, and by induction   *)
(* on their number what all of them do, so that every route is what its    *)
(* decorators ask for (RouteKept).  The second is about one verdict: the   *)
(* keys at hand are recent enough to vouch for a token and against one     *)
(* (Sound).  The third is the inductive invariant: every set of keys was   *)
(* fetched no earlier than at a time that the clocks know (KeysInv), and   *)
(* every answer and every refusal was right when it was given              *)
(* (RequestInv).                                                           *)
(*                                                                         *)
(* Consumers know a value before its command is answered, for any commands,*)
(* polls, topics and losses of the link.  What the broker receives is not  *)
(* a prefix of what was published: after a loss packets go out again.  The *)
(* invariant therefore speaks of sets of packets: what went out over this  *)
(* connection was seen (SentSeen), and an answer in the outbox has its     *)
(* notification before it or already seen (OutboxInOrder).                 *)
(***************************************************************************)
EXTENDS ApiAuth, MqttBridge, FiniteSetTheorems, WellFoundedInduction, TLAPS

-----------------------------------------------------------------------------
\* Induction, as a fact about sets: from the minimum that every set of naturals
\* has.
LEMMA Least ==
    ASSUME NEW T, T \subseteq Nat, T # {}
    PROVE  \E n \in T : \A m \in T : n <= m
<1> DEFINE R == {p \in Nat \X Nat : p[1] < p[2]}
<1>1. IsWellFoundedOn(R, Nat)
    BY NatLessThanWellFounded DEF OpToRel
<1>2. \A k, n \in Nat : <<k, n>> \in R <=> k < n
    OBVIOUS
<1> HIDE DEF R
<1>3. PICK x \in T : \A y \in T : ~ (<<y, x>> \in R)
    BY <1>1, WFMin
<1>4. ASSUME NEW m \in T PROVE x <= m
    <2>1. x \in Nat /\ m \in Nat
        OBVIOUS
    <2>2. ~ (m < x)
        BY <1>2, <1>3, <2>1
    <2>3. QED
        BY <2>1, <2>2
<1>5. QED
    BY <1>4

\* A set that has 0, and with every number the next, has them all.
LEMMA SetInduction ==
    ASSUME NEW T, 0 \in T, \A n \in Nat : n \in T => n + 1 \in T
    PROVE  Nat \subseteq T
<1>1. CASE Nat \ T # {}
    <2>1. PICK n \in Nat \ T : \A m \in Nat \ T : n <= m
        BY <1>1, Least
    <2>2. n # 0 /\ n - 1 \in Nat
        BY <2>1
    <2>3. n - 1 \in T
        BY <2>1, <2>2
    <2>4. QED
        BY <2>1, <2>2, <2>3
<1>2. QED
    BY <1>1

-----------------------------------------------------------------------------
\* What the decorators make of a route.

RouteRecord ==
    [atMethod : Seq(Decorator), atClass : Seq(Decorator), anonymous : BOOLEAN,
     named : {<<>>} \cup {<<methods>> : methods \in Seq(STRING)}, roles : SUBSET SUBSET STRING,
     security : {"unsaid", "bearer", "none"}, responses : SUBSET Nat, described : SUBSET SUBSET STRING]

\* The equations of the function by which AppliedAll is defined.
LEMMA AppliedAllUnwinds ==
    ASSUME NEW rt, NEW stack, Len(stack) \in Nat
    PROVE  \E g : /\ g[0] = rt
                  /\ \A n \in 1..Len(stack) : g[n] = Applied(g[n - 1], stack[n])
                  /\ AppliedAll(rt, stack) = g[Len(stack)]
<1>1. PICK L \in Nat : L = Len(stack)
    OBVIOUS
<1> DEFINE D(n, g) == g = [k \in 0..n |-> IF k = 0 THEN rt ELSE Applied(g[k - 1], stack[k])]
           T == {n \in Nat : \E g : D(n, g)}
<1>2. 0 \in T
    <2>1. D(0, [k \in 0..0 |-> rt])
        OBVIOUS
    <2>2. QED
        BY <2>1
<1>3. \A n \in Nat : n \in T => n + 1 \in T
    <2> HIDE DEF D
    <2>1. SUFFICES ASSUME NEW n \in Nat, NEW g, D(n, g) PROVE \E h : D(n + 1, h)
        OBVIOUS
    <2> USE DEF D
    <2> DEFINE h == [k \in 0..n + 1 |-> IF k = n + 1 THEN Applied(g[n], stack[n + 1]) ELSE g[k]]
    <2>2. ASSUME NEW k \in 0..n + 1
          PROVE  h[k] = IF k = 0 THEN rt ELSE Applied(h[k - 1], stack[k])
        <3>1. CASE k = n + 1
            <4>1. h[k - 1] = g[n] /\ k # 0 /\ h[k] = Applied(g[n], stack[k])
                BY <3>1
            <4>2. QED
                BY <4>1
        <3>2. CASE k # n + 1 /\ k # 0
            <4>1. k \in 0..n /\ k - 1 \in 0..n /\ h[k] = g[k] /\ h[k - 1] = g[k - 1]
                BY <3>2
            <4>2. g[k] = Applied(g[k - 1], stack[k])
                BY <2>1, <3>2, <4>1
            <4>3. QED
                BY <3>2, <4>1, <4>2
        <3>3. CASE k = 0
            <4>1. k \in 0..n /\ h[k] = g[k]
                BY <3>3
            <4>2. QED
                BY <2>1, <3>3, <4>1
        <3>4. QED
            BY <3>1, <3>2, <3>3
    <2>3. D(n + 1, h)
        BY <2>2
    <2>4. QED
        BY <2>3
<1> HIDE DEF T
<1>4. Len(stack) \in T
    BY <1>2, <1>3, <1>1, SetInduction
<1> DEFINE d == CHOOSE g : D(Len(stack), g)
<1>5. D(Len(stack), d)
    <2> HIDE DEF D
    <2> QED BY <1>4 DEF T
<1>6. AppliedAll(rt, stack) = d[L]
    BY <1>1 DEF AppliedAll
<1> HIDE DEF d
<1>7. d = [n \in 0..L |-> IF n = 0 THEN rt ELSE Applied(d[n - 1], stack[n])]
    BY <1>5, <1>1
<1> HIDE DEF D
<1>8. d[0] = rt
    BY <1>7
<1>9. \A n \in 1..L : d[n] = Applied(d[n - 1], stack[n])
    BY <1>7
<1>10. QED
    BY <1>6, <1>8, <1>9, <1>1

\* There is a function as the one by which DecodeMethods is defined.
LEMMA NamesExist ==
    ASSUME NEW methods, NEW L \in Nat
    PROVE  \E g : g = [n \in 0..L |->
                          IF n = 0 THEN <<>>
                          ELSE IF methods[n] = "" THEN g[n - 1] ELSE Append(g[n - 1], methods[n])]
<1> DEFINE D(n, g) == g = [k \in 0..n |->
                          IF k = 0 THEN <<>>
                          ELSE IF methods[k] = "" THEN g[k - 1] ELSE Append(g[k - 1], methods[k])]
           T == {n \in Nat : \E g : D(n, g)}
<1>1. 0 \in T
    <2>1. D(0, [k \in 0..0 |-> <<>>])
        OBVIOUS
    <2>2. QED
        BY <2>1
<1> HIDE DEF D
<1>2. \A n \in Nat : n \in T => n + 1 \in T
    <2>1. SUFFICES ASSUME NEW n \in Nat, NEW g, D(n, g) PROVE \E h : D(n + 1, h)
        OBVIOUS
    <2>2. PICK last : last = IF methods[n + 1] = "" THEN g[n] ELSE Append(g[n], methods[n + 1])
        OBVIOUS
    <2> DEFINE h == [k \in 0..n + 1 |-> IF k = n + 1 THEN last ELSE g[k]]
    <2>3. ASSUME NEW k \in 0..n + 1
          PROVE  h[k] = IF k = 0 THEN <<>>
                        ELSE IF methods[k] = "" THEN h[k - 1] ELSE Append(h[k - 1], methods[k])
        <3>1. CASE k = n + 1
            <4>1. h[k - 1] = g[n] /\ k # 0 /\ h[k] = last
                BY <3>1
            <4>2. QED
                BY <2>2, <3>1, <4>1
        <3>2. CASE k # n + 1 /\ k # 0
            <4>1. k \in 0..n /\ k - 1 \in 0..n /\ h[k] = g[k] /\ h[k - 1] = g[k - 1]
                BY <3>2
            <4>2. g[k] = IF methods[k] = "" THEN g[k - 1] ELSE Append(g[k - 1], methods[k])
                BY <2>1, <3>2, <4>1 DEF D
            <4>3. QED
                BY <3>2, <4>1, <4>2
        <3>3. CASE k = 0
            <4>1. k \in 0..n /\ h[k] = g[k]
                BY <3>3
            <4>2. QED
                BY <2>1, <3>3, <4>1 DEF D
        <3>4. QED
            BY <3>1, <3>2, <3>3
    <2> HIDE DEF h
    <2>4. h = [k \in 0..n + 1 |-> h[k]]
        BY DEF h
    <2>5. D(n + 1, h)
        BY <2>3, <2>4 DEF D
    <2>6. QED
        BY <2>5
<1> HIDE DEF T
<1>3. L \in T
    BY <1>1, <1>2, SetInduction
<1>4. QED
    BY <1>3 DEF T, D

\* The same for DecodeMethods.
LEMMA DecodeMethodsUnwinds ==
    ASSUME NEW methods \in Seq(STRING), NEW L \in Nat, L = Len(methods)
    PROVE  \E g : /\ g[0] = <<>>
                  /\ \A n \in 1..L : g[n] = IF methods[n] = "" THEN g[n - 1]
                                            ELSE Append(g[n - 1], methods[n])
                  /\ DecodeMethods(methods) = g[L]
<1> DEFINE D(g) == g = [n \in 0..Len(methods) |->
                           IF n = 0 THEN <<>>
                           ELSE IF methods[n] = "" THEN g[n - 1] ELSE Append(g[n - 1], methods[n])]
           d == CHOOSE g : D(g)
<1>1. \E g : D(g)
    <2>1. Len(methods) \in Nat
        OBVIOUS
    <2>2. QED
        BY <2>1, NamesExist, Zenon
<1>2. D(d)
    <2> HIDE DEF D
    <2> QED BY <1>1
<1>3. DecodeMethods(methods) = d[L]
    BY DEF DecodeMethods
<1> HIDE DEF d
<1>4. d = [n \in 0..L |-> IF n = 0 THEN <<>>
                          ELSE IF methods[n] = "" THEN d[n - 1] ELSE Append(d[n - 1], methods[n])]
    BY <1>2
<1> HIDE DEF D
<1>5. d[0] = <<>>
    <2>1. 0 \in 0..L
        OBVIOUS
    <2>2. QED
        BY <1>4, <2>1, Zenon
<1>6. ASSUME NEW n \in 1..L
      PROVE  d[n] = IF methods[n] = "" THEN d[n - 1] ELSE Append(d[n - 1], methods[n])
    <2>1. n \in 0..L /\ n # 0
        OBVIOUS
    <2>2. d[n] = IF n = 0 THEN <<>>
                 ELSE IF methods[n] = "" THEN d[n - 1] ELSE Append(d[n - 1], methods[n])
        BY <1>4, <2>1, Zenon
    <2>3. QED
        BY <2>1, <2>2, Zenon
<1>7. QED
    BY <1>3, <1>5, <1>6

\* decodeMethods names nothing that it was not given.
LEMMA DecodedIsNamed ==
    ASSUME NEW methods \in Seq(STRING)
    PROVE  /\ DecodeMethods(methods) \in Seq(STRING)
           /\ \A i \in 1..Len(DecodeMethods(methods)) :
                  \E j \in DOMAIN methods : methods[j] = DecodeMethods(methods)[i]
<1>1. PICK L \in Nat : L = Len(methods)
    OBVIOUS
<1>2. PICK g : /\ g[0] = <<>>
               /\ \A n \in 1..L : g[n] = IF methods[n] = "" THEN g[n - 1]
                                         ELSE Append(g[n - 1], methods[n])
               /\ DecodeMethods(methods) = g[L]
    BY <1>1, DecodeMethodsUnwinds
<1> DEFINE Known(names) == /\ names \in Seq(STRING)
                           /\ \A i \in 1..Len(names) : \E j \in DOMAIN methods : methods[j] = names[i]
           T == {n \in Nat : n <= L => Known(g[n])}
<1>3. 0 \in T
    <2>1. g[0] = <<>>
        BY <1>2
    <2>2. Known(<<>>)
        OBVIOUS
    <2>3. QED
        BY <2>1, <2>2
<1>4. \A n \in Nat : n \in T => n + 1 \in T
    <2>1. SUFFICES ASSUME NEW n \in Nat, n \in T, n + 1 <= L PROVE Known(g[n + 1])
        OBVIOUS
    <2>2. Known(g[n]) /\ n + 1 \in DOMAIN methods
        BY <1>1, <2>1
    <2>3. g[n + 1] = IF methods[n + 1] = "" THEN g[n] ELSE Append(g[n], methods[n + 1])
        <3>1. n + 1 \in 1..L /\ (n + 1) - 1 = n
            BY <2>1
        <3>2. QED
            BY <1>2, <3>1, Zenon
    <2>4. Known(Append(g[n], methods[n + 1]))
        <3>1. methods[n + 1] \in STRING /\ g[n] \in Seq(STRING)
            BY <2>2
        <3> DEFINE e == Append(g[n], methods[n + 1])
        <3>2. /\ e \in Seq(STRING) /\ Len(e) = Len(g[n]) + 1
              /\ \A i \in 1..Len(g[n]) : e[i] = g[n][i]
              /\ e[Len(g[n]) + 1] = methods[n + 1]
            BY <3>1
        <3> HIDE DEF e
        <3>3. ASSUME NEW i \in 1..Len(e) PROVE \E j \in DOMAIN methods : methods[j] = e[i]
            <4>1. i \in 1..Len(g[n]) \/ i = Len(g[n]) + 1
                BY <3>1, <3>2
            <4>2. QED
                BY <2>2, <3>2, <4>1
        <3>4. QED
            BY <3>2, <3>3 DEF e
    <2>5. QED
        BY <2>2, <2>3, <2>4
<1> HIDE DEF T
<1>5. L \in T
    BY <1>3, <1>4, SetInduction
<1>6. Known(g[L])
    BY <1>5 DEF T
<1>7. QED
    BY <1>2, <1>6, Zenon

\* What one decorator does to the record of a route.
LEMMA UseAuthDoes ==
    ASSUME NEW rt \in RouteRecord, NEW anonymous \in BOOLEAN, NEW roles \in SUBSET SUBSET STRING,
           NEW named \in {<<>>} \cup {<<methods>> : methods \in Seq(STRING)},
           NEW x, x = UseAuth(rt, anonymous, named, roles)
    PROVE  /\ x \in RouteRecord
           /\ x.atMethod = rt.atMethod /\ x.atClass = rt.atClass
           /\ x.anonymous = (rt.anonymous \/ anonymous)
           /\ x.named = IF rt.named = <<>> THEN named ELSE rt.named
           /\ x.roles = rt.roles \cup roles
           /\ x.security = rt.security /\ x.responses = rt.responses
           /\ x.described = rt.described
BY DEF UseAuth, RouteRecord

LEMMA SecurityDoes ==
    ASSUME NEW rt \in RouteRecord, NEW security \in {"unsaid", "bearer", "none"}, NEW x, x = Security(rt, security)
    PROVE  /\ x \in RouteRecord
           /\ x.atMethod = rt.atMethod /\ x.atClass = rt.atClass /\ x.anonymous = rt.anonymous
           /\ x.named = rt.named /\ x.roles = rt.roles
           /\ x.security = security /\ x.responses = rt.responses /\ x.described = rt.described
BY DEF Security, RouteRecord

LEMMA DocumentMethodDoes ==
    ASSUME NEW rt \in RouteRecord, ~ rt.anonymous, NEW x, x = DocumentMethod(rt)
    PROVE  /\ x \in RouteRecord
           /\ x.atMethod = rt.atMethod /\ x.atClass = rt.atClass
           /\ x.anonymous = rt.anonymous /\ x.roles = rt.roles /\ x.described = rt.described
           /\ x.named = rt.named
           /\ x.security = "bearer" /\ x.responses = rt.responses \cup {401, 503}
<1>1. x = [Security(rt, "bearer") EXCEPT !.responses = @ \cup {401, 503}]
    BY DEF DocumentMethod
<1>2. PICK y : y = Security(rt, "bearer")
    OBVIOUS
<1>3. /\ y \in RouteRecord
      /\ y.atMethod = rt.atMethod /\ y.atClass = rt.atClass /\ y.anonymous = rt.anonymous
      /\ y.named = rt.named /\ y.roles = rt.roles
      /\ y.security = "bearer" /\ y.responses = rt.responses /\ y.described = rt.described
    BY <1>2, "bearer" \in {"unsaid", "bearer", "none"}, SecurityDoes
<1>4. x = [y EXCEPT !.responses = @ \cup {401, 503}]
    BY <1>1, <1>2
<1>5. QED
    BY <1>3, <1>4 DEF RouteRecord

LEMMA AuthenticateDoes ==
    ASSUME NEW rt \in RouteRecord, NEW methods \in Seq(STRING), NEW x, x = Authenticate(rt, methods)
    PROVE  /\ x \in RouteRecord
           /\ x.atMethod = rt.atMethod /\ x.atClass = rt.atClass
           /\ x.anonymous = rt.anonymous /\ x.roles = rt.roles /\ x.described = rt.described
           /\ x.named = IF rt.named = <<>> THEN <<methods>> ELSE rt.named
           /\ rt.anonymous => x.security = rt.security /\ x.responses = rt.responses
           /\ ~ rt.anonymous => x.security = "bearer" /\ x.responses = rt.responses \cup {401, 503}
<1>1. PICK u : u = UseAuth(rt, FALSE, <<methods>>, {})
    OBVIOUS
<1>2. /\ u \in RouteRecord
      /\ u.atMethod = rt.atMethod /\ u.atClass = rt.atClass
      /\ u.anonymous = rt.anonymous /\ u.roles = rt.roles
      /\ u.named = IF rt.named = <<>> THEN <<methods>> ELSE rt.named
      /\ u.security = rt.security /\ u.responses = rt.responses /\ u.described = rt.described
    BY <1>1 DEF UseAuth, RouteRecord
<1>3. x = DocumentMethod(u)
    BY <1>1 DEF Authenticate
<1>4. CASE ~ rt.anonymous
    <2>1. ~ u.anonymous
        BY <1>2, <1>4
    <2>2. QED
        BY <1>2, <1>3, <1>4, <2>1, DocumentMethodDoes
<1>5. CASE rt.anonymous
    <2>1. x = u
        BY <1>2, <1>3, <1>5 DEF DocumentMethod
    <2>2. x.named = IF rt.named = <<>> THEN <<methods>> ELSE rt.named
        BY <1>2, <2>1, Zenon
    <2>3. /\ x \in RouteRecord
          /\ x.atMethod = rt.atMethod /\ x.atClass = rt.atClass
          /\ x.anonymous = rt.anonymous /\ x.roles = rt.roles /\ x.described = rt.described
          /\ x.security = rt.security /\ x.responses = rt.responses
        BY <1>2, <2>1, Zenon
    <2>4. QED
        BY <1>5, <2>2, <2>3, Zenon
<1>6. QED
    BY <1>4, <1>5

LEMMA AnonymousDoes ==
    ASSUME NEW rt \in RouteRecord, NEW x, x = Anonymous(rt)
    PROVE  /\ x \in RouteRecord
           /\ x.atMethod = rt.atMethod /\ x.atClass = rt.atClass
           /\ x.anonymous /\ x.roles = rt.roles /\ x.described = rt.described
           /\ x.named = rt.named /\ x.security = "none" /\ x.responses = rt.responses
<1>1. PICK u : u = UseAuth(rt, TRUE, <<>>, {})
    OBVIOUS
<1>2. /\ u \in RouteRecord
      /\ u.atMethod = rt.atMethod /\ u.atClass = rt.atClass
      /\ u.anonymous = TRUE /\ u.roles = rt.roles /\ u.named = rt.named
      /\ u.security = rt.security /\ u.responses = rt.responses /\ u.described = rt.described
    BY <1>1 DEF UseAuth, RouteRecord
<1>3. x = Security(u, "none")
    BY <1>1 DEF Anonymous
<1>4. QED
    BY <1>2, <1>3, "none" \in {"unsaid", "bearer", "none"}, SecurityDoes

LEMMA RequireRolesDoes ==
    ASSUME NEW rt \in RouteRecord, NEW roles \in SUBSET STRING, NEW x, x = RequireRoles(rt, roles)
    PROVE  /\ x \in RouteRecord
           /\ x.atMethod = rt.atMethod /\ x.atClass = rt.atClass
           /\ x.anonymous = rt.anonymous /\ x.roles = rt.roles \cup {roles}
           /\ x.named = rt.named /\ x.security = rt.security
           /\ rt.anonymous \/ (rt.roles \cup {roles}) \ {{}} = {} =>
                  x.responses = rt.responses /\ x.described = rt.described
           /\ ~ rt.anonymous /\ (rt.roles \cup {roles}) \ {{}} # {} =>
                  x.responses = rt.responses \cup {403} /\ x.described = (rt.roles \cup {roles}) \ {{}}
<1>1. PICK u : u = UseAuth(rt, FALSE, <<>>, {roles})
    OBVIOUS
<1>2. /\ u \in RouteRecord
      /\ u.atMethod = rt.atMethod /\ u.atClass = rt.atClass
      /\ u.anonymous = rt.anonymous /\ u.roles = rt.roles \cup {roles} /\ u.named = rt.named
      /\ u.security = rt.security /\ u.responses = rt.responses /\ u.described = rt.described
    BY <1>1 DEF UseAuth, RouteRecord
<1>3. x = DocumentRolesMethod(u)
    BY <1>1 DEF RequireRoles
<1>4. PICK since : since = (rt.roles \cup {roles}) \ {{}}
    OBVIOUS
<1>5. CASE ~ rt.anonymous /\ since # {}
    <2>1. PICK answers : answers = u.responses \cup {403}
        OBVIOUS
    <2>2. answers \in SUBSET Nat
        BY <1>2, <2>1 DEF RouteRecord
    <2>3. since \in SUBSET SUBSET STRING
        BY <1>2, <1>4 DEF RouteRecord
    <2>4. x = [u EXCEPT !.responses = answers, !.described = since]
        BY <1>2, <1>3, <1>5, <1>4, <2>1 DEF DocumentRolesMethod
    <2>5. u \in RouteRecord
        BY <1>2
    <2>6. /\ x \in RouteRecord
          /\ x.atMethod = u.atMethod /\ x.atClass = u.atClass /\ x.anonymous = u.anonymous
          /\ x.named = u.named /\ x.roles = u.roles /\ x.security = u.security
          /\ x.responses = answers /\ x.described = since
        BY <2>5, <2>2, <2>3, <2>4 DEF RouteRecord
    <2>7. QED
        BY <1>2, <1>5, <1>4, <2>1, <2>6
<1>6. CASE rt.anonymous \/ since = {}
    <2>1. x = u
        BY <1>2, <1>3, <1>6, <1>4 DEF DocumentRolesMethod
    <2>2. QED
        BY <1>2, <1>6, <1>4, <2>1
<1>7. QED
    BY <1>5, <1>6

\* What the first n decorators of a stack make of a route.
Before(stack, n, by) == {i \in 1..n : stack[i].by = by}

Guards(rt, stack, n) ==
    /\ rt.anonymous <=> Before(stack, n, "Anonymous") # {}
    /\ Before(stack, n, "Authenticate") = {} => rt.named = <<>>
    /\ \A i \in Before(stack, n, "Authenticate") :
           (\A j \in Before(stack, n, "Authenticate") : i <= j) => rt.named = <<stack[i].methods>>
    /\ rt.roles = {stack[i].roles : i \in Before(stack, n, "RequireRoles")}

Documents(rt, stack, n) ==
    /\ rt.anonymous => rt.security = "none" /\ rt.responses = {} /\ rt.described = {}
    /\ ~ rt.anonymous =>
           /\ Before(stack, n, "Authenticate") # {} =>
                  rt.security = "bearer" /\ {401, 503} \subseteq rt.responses
           /\ rt.described = rt.roles \ {{}}
           /\ rt.described # {} => 403 \in rt.responses

MadeBy(rt, base, stack, n) ==
    /\ rt \in RouteRecord /\ rt.atMethod = base.atMethod /\ rt.atClass = base.atClass
    /\ Guards(rt, stack, n) /\ Documents(rt, stack, n)

Stackable(stack) ==
    /\ stack \in Seq(Decorator)
    /\ \A i \in DOMAIN stack : stack[i].by = "Anonymous" => i = 1

\* One decorator more.
LEMMA BeforeGrows ==
    ASSUME NEW stack, NEW n \in Nat, NEW by
    PROVE  /\ stack[n + 1].by = by => Before(stack, n + 1, by) = Before(stack, n, by) \cup {n + 1}
           /\ stack[n + 1].by # by => Before(stack, n + 1, by) = Before(stack, n, by)
<1>1. \A i : i \in 1..n + 1 <=> i \in 1..n \/ i = n + 1
    OBVIOUS
<1>2. QED
    BY <1>1 DEF Before

\* The record of a route stays what the decorators make of it when one more runs:
\* @Authenticate, @RequireRoles, @Anonymous.
LEMMA AuthenticateMakes ==
    ASSUME NEW base, NEW stack, Stackable(stack), NEW n \in Nat, n + 1 \in DOMAIN stack,
           NEW rt, MadeBy(rt, base, stack, n), NEW d, d = stack[n + 1], d.by = "Authenticate",
           d.methods \in Seq(STRING),
           NEW x, x = Authenticate(rt, d.methods)
    PROVE  MadeBy(x, base, stack, n + 1)
<1>1. /\ x \in RouteRecord
      /\ x.atMethod = rt.atMethod /\ x.atClass = rt.atClass
      /\ x.anonymous = rt.anonymous /\ x.roles = rt.roles /\ x.described = rt.described
      /\ x.named = IF rt.named = <<>> THEN <<d.methods>> ELSE rt.named
      /\ rt.anonymous => x.security = rt.security /\ x.responses = rt.responses
      /\ ~ rt.anonymous => x.security = "bearer" /\ x.responses = rt.responses \cup {401, 503}
    BY AuthenticateDoes DEF MadeBy
<1>2. /\ Before(stack, n + 1, "Authenticate") = Before(stack, n, "Authenticate") \cup {n + 1}
      /\ Before(stack, n + 1, "RequireRoles") = Before(stack, n, "RequireRoles")
      /\ Before(stack, n + 1, "Anonymous") = Before(stack, n, "Anonymous")
    BY BeforeGrows, "Authenticate" # "RequireRoles", "Authenticate" # "Anonymous",
       "RequireRoles" # "Anonymous"
<1>3. ASSUME NEW i \in Before(stack, n + 1, "Authenticate"),
             \A j \in Before(stack, n + 1, "Authenticate") : i <= j
      PROVE  x.named = <<stack[i].methods>>
    <2>1. CASE Before(stack, n, "Authenticate") = {}
        <3>1. i = n + 1 /\ rt.named = <<>>
            BY <1>2, <2>1 DEF MadeBy, Guards
        <3>2. QED
            BY <1>1, <3>1
    <2>2. CASE Before(stack, n, "Authenticate") # {}
        <3>1. i # n + 1
            BY <1>2, <1>3, <2>2 DEF Before
        <3>2. rt.named = <<stack[i].methods>>
            BY <1>2, <1>3, <3>1 DEF MadeBy, Guards
        <3>3. QED
            BY <1>1, <3>2
    <2>3. QED
        BY <2>1, <2>2
<1>4. Guards(x, stack, n + 1)
    BY <1>1, <1>2, <1>3 DEF Guards, MadeBy
<1>5. Documents(x, stack, n + 1)
    BY <1>1 DEF Documents, MadeBy
<1>6. QED
    BY <1>1, <1>4, <1>5 DEF MadeBy

LEMMA RequireRolesMakes ==
    ASSUME NEW base, NEW stack, Stackable(stack), NEW n \in Nat, n + 1 \in DOMAIN stack,
           NEW rt, MadeBy(rt, base, stack, n), NEW d, d = stack[n + 1], d.by = "RequireRoles",
           d.roles \in SUBSET STRING,
           NEW x, x = RequireRoles(rt, d.roles)
    PROVE  MadeBy(x, base, stack, n + 1)
<1>1. PICK since : since = (rt.roles \cup {d.roles}) \ {{}}
    OBVIOUS
<1>2. /\ x \in RouteRecord
      /\ x.atMethod = rt.atMethod /\ x.atClass = rt.atClass
      /\ x.anonymous = rt.anonymous /\ x.roles = rt.roles \cup {d.roles}
      /\ x.named = rt.named /\ x.security = rt.security
      /\ rt.anonymous \/ since = {} =>
             x.responses = rt.responses /\ x.described = rt.described
      /\ ~ rt.anonymous /\ since # {} =>
             x.responses = rt.responses \cup {403} /\ x.described = since
    <2>1. rt \in RouteRecord
        BY DEF MadeBy
    <2>2. PICK roles \in SUBSET STRING : roles = d.roles
        OBVIOUS
    <2>3. x = RequireRoles(rt, roles)
        BY <2>2
    <2>4. /\ x \in RouteRecord
          /\ x.atMethod = rt.atMethod /\ x.atClass = rt.atClass
          /\ x.anonymous = rt.anonymous /\ x.roles = rt.roles \cup {roles}
          /\ x.named = rt.named /\ x.security = rt.security
          /\ rt.anonymous \/ (rt.roles \cup {roles}) \ {{}} = {} =>
                 x.responses = rt.responses /\ x.described = rt.described
          /\ ~ rt.anonymous /\ (rt.roles \cup {roles}) \ {{}} # {} =>
                 x.responses = rt.responses \cup {403} /\ x.described = (rt.roles \cup {roles}) \ {{}}
        BY <2>1, <2>3, RequireRolesDoes
    <2>5. QED
        BY <1>1, <2>2, <2>4
<1>3. /\ Before(stack, n + 1, "Authenticate") = Before(stack, n, "Authenticate")
      /\ Before(stack, n + 1, "RequireRoles") = Before(stack, n, "RequireRoles") \cup {n + 1}
      /\ Before(stack, n + 1, "Anonymous") = Before(stack, n, "Anonymous")
    BY BeforeGrows, "Authenticate" # "RequireRoles", "Authenticate" # "Anonymous",
       "RequireRoles" # "Anonymous"
<1>4. x.roles = {stack[i].roles : i \in Before(stack, n + 1, "RequireRoles")}
    BY <1>2, <1>3 DEF MadeBy, Guards
<1>5. Guards(x, stack, n + 1)
    BY <1>2, <1>3, <1>4 DEF Guards, MadeBy
<1>6. Documents(x, stack, n + 1)
    BY <1>1, <1>2, <1>3 DEF Documents, MadeBy
<1>7. QED
    BY <1>2, <1>5, <1>6 DEF MadeBy

LEMMA AnonymousMakes ==
    ASSUME NEW base, NEW stack, Stackable(stack), NEW n \in Nat, n + 1 \in DOMAIN stack,
           NEW rt, MadeBy(rt, base, stack, n), rt.responses = {} \/ n # 0, rt.described = {} \/ n # 0,
           NEW d, d = stack[n + 1], d.by = "Anonymous",
           NEW x, x = Anonymous(rt)
    PROVE  MadeBy(x, base, stack, n + 1)
<1>1. n = 0 /\ rt.responses = {} /\ rt.described = {}
    BY DEF Stackable
<1>2. /\ x \in RouteRecord
      /\ x.atMethod = rt.atMethod /\ x.atClass = rt.atClass
      /\ x.anonymous /\ x.roles = rt.roles /\ x.described = rt.described
      /\ x.named = rt.named /\ x.security = "none" /\ x.responses = rt.responses
    BY AnonymousDoes DEF MadeBy
<1>3. /\ Before(stack, n + 1, "Authenticate") = Before(stack, n, "Authenticate")
      /\ Before(stack, n + 1, "RequireRoles") = Before(stack, n, "RequireRoles")
      /\ Before(stack, n + 1, "Anonymous") = Before(stack, n, "Anonymous") \cup {n + 1}
    BY BeforeGrows, "Authenticate" # "RequireRoles", "Authenticate" # "Anonymous",
       "RequireRoles" # "Anonymous"
<1>4. Guards(x, stack, n + 1)
    BY <1>2, <1>3 DEF Guards, MadeBy
<1>5. Documents(x, stack, n + 1)
    BY <1>1, <1>2 DEF Documents
<1>6. QED
    BY <1>2, <1>4, <1>5 DEF MadeBy

LEMMA AppliedMakes ==
    ASSUME NEW base, NEW stack, Stackable(stack), NEW n \in Nat, n + 1 \in DOMAIN stack,
           NEW rt, MadeBy(rt, base, stack, n), rt.responses = {} \/ n # 0, rt.described = {} \/ n # 0
    PROVE  MadeBy(Applied(rt, stack[n + 1]), base, stack, n + 1)
<1>1. PICK d : d = stack[n + 1]
    OBVIOUS
<1>2. d \in Decorator
    BY <1>1 DEF Stackable
<1>3. \/ d.by = "Authenticate" /\ d.methods \in Seq(STRING)
      \/ d.by = "RequireRoles" /\ d.roles \in SUBSET STRING
      \/ d.by = "Anonymous"
    BY <1>2 DEF Decorator
<1>4. CASE d.by = "Authenticate"
    <2>1. Applied(rt, d) = Authenticate(rt, d.methods)
        BY <1>4 DEF Applied
    <2>2. d.methods \in Seq(STRING)
        BY <1>3, <1>4
    <2>3. QED
        BY <1>1, <1>4, <2>1, <2>2, AuthenticateMakes
<1>5. CASE d.by = "RequireRoles"
    <2>1. Applied(rt, d) = RequireRoles(rt, d.roles)
        BY <1>5 DEF Applied
    <2>2. d.roles \in SUBSET STRING
        BY <1>3, <1>5
    <2>3. QED
        BY <1>1, <1>5, <2>1, <2>2, RequireRolesMakes
<1>6. CASE d.by = "Anonymous"
    <2>1. Applied(rt, d) = Anonymous(rt)
        BY <1>6 DEF Applied
    <2>2. QED
        BY <1>1, <1>6, <2>1, AnonymousMakes
<1>7. QED
    BY <1>3, <1>4, <1>5, <1>6

\* ... and so all decorators of a stack, by induction on their number.
LEMMA StackMakes ==
    ASSUME NEW a \in Seq(Decorator), NEW c \in Seq(Decorator), NEW stack, Stackable(stack)
    PROVE  MadeBy(AppliedAll(Undecorated(a, c), stack), Undecorated(a, c), stack, Len(stack))
<1>1. PICK base : base = Undecorated(a, c)
    OBVIOUS
<1>2. PICK L \in Nat : L = Len(stack) /\ DOMAIN stack = 1..L
    BY DEF Stackable
<1>3. PICK g : /\ g[0] = base
               /\ \A n \in 1..L : g[n] = Applied(g[n - 1], stack[n])
               /\ AppliedAll(base, stack) = g[L]
    <2>1. L = Len(stack)
        BY <1>2
    <2>2. QED
        BY <2>1, AppliedAllUnwinds
<1> DEFINE T == {n \in Nat : n <= L => MadeBy(g[n], base, stack, n)}
<1>4. 0 \in T
    <2>1. base \in RouteRecord
        BY <1>1 DEF Undecorated, RouteRecord
    <2>2. Before(stack, 0, "Authenticate") = {} /\ Before(stack, 0, "RequireRoles") = {}
          /\ Before(stack, 0, "Anonymous") = {}
        BY DEF Before
    <2>3. Guards(base, stack, 0)
        BY <1>1, <2>2 DEF Guards, Undecorated
    <2>4. Documents(base, stack, 0)
        BY <1>1, <2>2 DEF Documents, Undecorated
    <2>5. MadeBy(base, base, stack, 0)
        BY <2>1, <2>3, <2>4 DEF MadeBy
    <2>6. QED
        BY <1>3, <2>5
<1>5. \A n \in Nat : n \in T => n + 1 \in T
    <2>1. SUFFICES ASSUME NEW n \in Nat, n \in T, n + 1 <= L PROVE MadeBy(g[n + 1], base, stack, n + 1)
        OBVIOUS
    <2>2. MadeBy(g[n], base, stack, n) /\ n + 1 \in DOMAIN stack /\ n + 1 \in 1..L /\ (n + 1) - 1 = n
        BY <1>2, <2>1
    <2>3. g[n + 1] = Applied(g[n], stack[n + 1])
        BY <1>3, <2>2
    <2>4. base.responses = {} /\ base.described = {}
        BY <1>1 DEF Undecorated
    <2>5. (g[n].responses = {} \/ n # 0) /\ (g[n].described = {} \/ n # 0)
        BY <1>3, <2>4
    <2>6. QED
        BY <2>2, <2>3, <2>5, AppliedMakes
<1> HIDE DEF T
<1>6. L \in T
    BY <1>4, <1>5, SetInduction
<1>7. QED
    BY <1>1, <1>2, <1>3, <1>6 DEF T

\* What holds of every route: the guard reads, and the document says, what the
\* decorators ask for.
RouteKept(rt) ==
    /\ rt.anonymous <=> Opened(rt)
    /\ rt.named = <<Nearest(rt, "Authenticate").methods>>
    /\ Nearest(rt, "Authenticate").methods \in Seq(STRING)
    /\ rt.roles \ {{}} = RolesAsked(rt)
    /\ Opened(rt) => rt.security = "none" /\ rt.responses = {} /\ rt.described = {}
    /\ ~ Opened(rt) =>
           /\ rt.security = "bearer" /\ {401, 503} \subseteq rt.responses
           /\ rt.described = RolesAsked(rt)
           /\ RolesAsked(rt) # {} => 403 \in rt.responses

\* The stack of method and class together: an @Anonymous runs first.
LEMMA RouteStacks ==
    ASSUME NEW a \in Seq(Decorator), NEW c \in Seq(Decorator), NEW stack, stack = a \o c,
           Places(a, "Anonymous") \subseteq {1}, Places(c, "Anonymous") = {}
    PROVE  /\ Stackable(stack)
           /\ Places(a, "Anonymous") # {} <=> Places(stack, "Anonymous") # {}
<1>1. PICK k, l \in Nat : k = Len(a) /\ l = Len(c) /\ DOMAIN a = 1..k /\ DOMAIN c = 1..l
    OBVIOUS
<1>2. /\ stack \in Seq(Decorator) /\ DOMAIN stack = 1..k + l
      /\ \A i \in 1..k + l : stack[i] = IF i <= k THEN a[i] ELSE c[i - k]
    BY <1>1
<1>3. ASSUME NEW i \in DOMAIN stack, stack[i].by = "Anonymous"
      PROVE  i = 1 /\ i \in Places(a, "Anonymous")
    <2>1. CASE i <= k
        <3>1. i \in 1..k /\ a[i].by = "Anonymous"
            BY <1>1, <1>2, <1>3, <2>1
        <3>2. QED
            BY <1>1, <3>1 DEF Places
    <2>2. CASE ~ (i <= k)
        <3>1. i - k \in 1..l /\ c[i - k].by = "Anonymous"
            BY <1>1, <1>2, <1>3, <2>2
        <3>2. QED
            BY <1>1, <3>1 DEF Places
    <2>3. QED
        BY <2>1, <2>2
<1>4. Stackable(stack)
    BY <1>2, <1>3 DEF Stackable
<1>5. Places(a, "Anonymous") # {} => Places(stack, "Anonymous") # {}
    <2>1. SUFFICES ASSUME NEW i \in Places(a, "Anonymous") PROVE Places(stack, "Anonymous") # {}
        OBVIOUS
    <2>2. i \in 1..k /\ a[i].by = "Anonymous"
        BY <1>1 DEF Places
    <2>3. i \in DOMAIN stack /\ stack[i].by = "Anonymous"
        BY <1>1, <1>2, <2>2
    <2>4. QED
        BY <2>3 DEF Places
<1>6. Places(stack, "Anonymous") # {} => Places(a, "Anonymous") # {}
    BY <1>3 DEF Places
<1>7. QED
    BY <1>4, <1>5, <1>6

\* The nearest @Authenticate is the one that runs first.
LEMMA NearestIsFirst ==
    ASSUME NEW rt, NEW n \in Nat, DOMAIN Stack(rt) = 1..n, Places(Stack(rt), "Authenticate") # {}
    PROVE  \E i \in Places(Stack(rt), "Authenticate") :
               /\ \A j \in Places(Stack(rt), "Authenticate") : i <= j
               /\ Nearest(rt, "Authenticate") = Stack(rt)[i]
<1>1. PICK A : A = Places(Stack(rt), "Authenticate")
    OBVIOUS
<1>2. A \subseteq Nat /\ A # {}
    BY <1>1 DEF Places
<1>3. \E i \in A : \A j \in A : i <= j
    BY <1>2, Least
<1>4. PICK i : i = CHOOSE k \in A : \A j \in A : k <= j
    OBVIOUS
<1>5. i \in A /\ \A j \in A : i <= j
    BY <1>3, <1>4
<1>6. Nearest(rt, "Authenticate") = Stack(rt)[i]
    BY <1>1, <1>4 DEF Nearest
<1>7. QED
    BY <1>1, <1>5, <1>6

\* Every route of the system is what its decorators ask for.
LEMMA EveryRouteKept ==
    ASSUME NEW s \in Routes
    PROVE  RouteKept(Decorated(s[1], s[2]))
<1>1. PICK a \in Seq(Decorator), c \in Seq(Decorator) : a = s[1] /\ c = s[2]
    BY RouteAssumption
<1>2. PICK stack : stack = a \o c
    OBVIOUS
<1>3. PICK rt : rt = Decorated(a, c)
    OBVIOUS
<1>4. /\ Places(stack, "Authenticate") # {}
      /\ Places(a, "Anonymous") \subseteq {1} /\ Places(c, "Anonymous") = {}
    BY <1>1, <1>2, RouteAssumption
<1>5. /\ Stackable(stack)
      /\ Places(a, "Anonymous") # {} <=> Places(stack, "Anonymous") # {}
    BY <1>2, <1>4, RouteStacks
<1>6. PICK n \in Nat : n = Len(stack) /\ DOMAIN stack = 1..n
    BY <1>5 DEF Stackable
<1>7. MadeBy(rt, Undecorated(a, c), stack, n)
    BY <1>2, <1>3, <1>5, <1>6, StackMakes DEF Decorated
<1>8. rt.atMethod = a /\ rt.atClass = c
    BY <1>7 DEF MadeBy, Undecorated
<1>9. Stack(rt) = stack
    BY <1>2, <1>8 DEF Stack
<1>10. \A by : Before(stack, n, by) = Places(stack, by)
    BY <1>6 DEF Before, Places
<1>11. Opened(rt) <=> rt.anonymous
    BY <1>5, <1>7, <1>8, <1>10 DEF Opened, MadeBy, Guards
<1>12. PICK i \in Places(stack, "Authenticate") :
           /\ \A j \in Places(stack, "Authenticate") : i <= j
           /\ Nearest(rt, "Authenticate") = stack[i]
    BY <1>4, <1>6, <1>9, NearestIsFirst
<1>13. rt.named = <<stack[i].methods>>
    BY <1>7, <1>10, <1>12 DEF MadeBy, Guards
<1>14. stack[i].methods \in Seq(STRING)
    <2>1. stack[i] \in Decorator /\ stack[i].by = "Authenticate"
        BY <1>5, <1>12 DEF Stackable, Places
    <2>2. QED
        BY <2>1 DEF Decorator
<1>15. rt.roles \ {{}} = RolesAsked(rt)
    BY <1>7, <1>9, <1>10 DEF MadeBy, Guards, RolesAsked
<1>16. Documents(rt, stack, n) /\ Before(stack, n, "Authenticate") # {}
    BY <1>4, <1>7, <1>10 DEF MadeBy
<1>17. RouteKept(rt)
    <2>1. CASE rt.anonymous
        BY <1>11, <1>12, <1>13, <1>14, <1>15, <1>16, <2>1 DEF RouteKept, Documents
    <2>2. CASE ~ rt.anonymous
        <3>1. rt.security = "bearer" /\ {401, 503} \subseteq rt.responses
            BY <1>16, <2>2 DEF Documents
        <3>2. rt.described = rt.roles \ {{}} /\ (rt.described # {} => 403 \in rt.responses)
            BY <1>16, <2>2 DEF Documents
        <3>3. PICK since : since = RolesAsked(rt)
            OBVIOUS
        <3>4. rt.described = since /\ (since # {} => 403 \in rt.responses)
            BY <1>15, <3>2, <3>3
        <3>5. /\ rt.security = "bearer" /\ {401, 503} \subseteq rt.responses
              /\ rt.described = RolesAsked(rt)
              /\ RolesAsked(rt) # {} => 403 \in rt.responses
            BY <3>1, <3>3, <3>4
        <3>6. ~ Opened(rt)
            BY <1>11, <2>2
        <3>7. QED
            BY <1>12, <1>13, <1>14, <1>15, <2>2, <3>5, <3>6 DEF RouteKept
    <2>3. QED
        BY <2>1, <2>2
<1>18. QED
    BY <1>1, <1>3, <1>17
-----------------------------------------------------------------------------
\* The inductive invariant.

\* What makes a method admit a token at time t ...
Believed(m, o, t) ==
    Genuine(m, o, t) /\ (HasRow(m, o.iss, "value") \/ t < retiredAt[o.signer] + Ttl + Timeout)

\* ... and a token that it may not refuse.
Good(m, o, t) ==
    /\ Genuine(m, o, t)
    /\ \/ HasRow(m, o.iss, "value")
       \/ /\ o.kid = o.signer /\ retiredAt[o.signer] = Never
          /\ publishedAt[o.signer] + Cooldown + Timeout <= t

Trying(r) == pc[r] \in {"verifying", "fetching"}
Method(r) == Chain(route[r])[step[r]]

\* A request under way is of a guarded route, at a method that is configured.
TryingInv(r) ==
    Trying(r) =>
        /\ ~ Opened(route[r]) /\ step[r] \in 1..Len(Chain(route[r]))
        /\ \A i \in 1..Len(Chain(route[r])) : Chain(route[r])[i] \in Methods
        /\ Len(failures[r]) = step[r] - 1 /\ status[r] = 0

\* Who waits for keys waits for a fetch under way.
FetchingInv(r) ==
    pc[r] = "fetching" => ReadsKeySet(Method(r), offer[r])

PhaseInv(r) ==
    /\ pc[r] = "idle" => step[r] = 1 /\ failures[r] = <<>> /\ status[r] = 0
    /\ pc[r] = "answered" => answeredAt[r] <= now
    /\ pc[r] = "answered" /\ status[r] \in {401, 403, 503} => ~ Opened(route[r])
    /\ status[r] = 403 => RolesAsked(route[r]) # {}

\* An answer was right when it was given, and every refusal was.
AdmittedInv(r) ==
    status[r] = 200 /\ ~ Opened(route[r]) =>
        \E i \in 1..Len(Chain(route[r])) :
            /\ Believed(Chain(route[r])[i], offer[r], answeredAt[r])
            /\ RoleStatus(route[r], offer[r], RowFor(Chain(route[r])[i], offer[r].iss)) = 200

RefusedInv(r) ==
    /\ \A i \in 1..Len(failures[r]) :
           /\ failures[r][i].at <= now
           /\ failures[r][i].reason # "indeterminate" =>
                  ~ Good(Chain(route[r])[i], offer[r], failures[r][i].at)
    /\ status[r] = 401 =>
           /\ Len(failures[r]) = Len(Chain(route[r]))
           /\ \A i \in 1..Len(failures[r]) : failures[r][i].reason # "indeterminate"

RequestOK(r) ==
    TryingInv(r) /\ FetchingInv(r) /\ PhaseInv(r) /\ AdmittedInv(r) /\ RefusedInv(r)
RequestInv == \A r \in Requests : RequestOK(r)

\* A set of keys that was fetched no earlier than at time t.
KeysFrom(set, t) ==
    \A k \in Kids :
        /\ k \in set => t <= retiredAt[k]
        /\ k \notin set /\ retiredAt[k] = Never => t <= publishedAt[k]

KeysInv ==
    /\ \A k \in Kids : publishedAt[k] # Never => publishedAt[k] <= now
    /\ \A v \in Resolvers :
           /\ fetchedAt[v] <= now /\ fetchSince[v] <= now
           /\ fetchSince[v] # -1 => now <= fetchSince[v] + Timeout
           /\ reply[v] # <<>> => fetchSince[v] # -1 /\ KeysFrom(reply[v][1], fetchSince[v])
           /\ fetchedAt[v] # -1 => KeysFrom(keySet[v], fetchedAt[v] - Timeout)

AuthInv == TypeOK /\ KeysInv /\ RequestInv

-----------------------------------------------------------------------------
\* Facts about the constants, and about one verdict.

\* Every configured method is tried with the name its decorator gave.
LEMMA ChainNamed ==
    ASSUME NEW rt, RouteKept(rt), ~ Opened(rt)
    PROVE  /\ Chain(rt) \in Seq(STRING)
           /\ \A i \in 1..Len(Chain(rt)) :
                  LET named == Nearest(rt, "Authenticate").methods
                  IN  \E j \in DOMAIN named : named[j] = Chain(rt)[i]
<1>1. PICK named \in Seq(STRING) :
          named = Nearest(rt, "Authenticate").methods /\ rt.named = <<named>>
    BY DEF RouteKept
<1>2. Chain(rt) = DecodeMethods(named)
    BY <1>1 DEF Chain
<1>3. QED
    BY <1>1, <1>2, DecodedIsNamed

\* The row of an issuer that reads no inline key takes its keys from the provider.
LEMMA ReadsResolver ==
    ASSUME NEW m \in Methods, NEW o, ReadsKeySet(m, o)
    PROVE  <<m, o.iss>> \in Resolvers
<1>1. PICK i \in 1..Len(Verifiers[m]) : Verifiers[m][i].issuer = o.iss
    BY DEF ReadsKeySet, Trusts
<1>2. Verifiers[m][i].source = "jwks"
    BY <1>1, ConfigAssumption DEF ReadsKeySet, HasRow
<1>3. HasRow(m, o.iss, "jwks")
    BY <1>1, <1>2 DEF HasRow
<1>4. o.iss \in Issuers
    BY <1>1 DEF Issuers
<1>5. QED
    BY <1>3, <1>4 DEF Resolvers

\* Of a set of keys, a token that names its signer matches that key at most.
LEMMA SignerMatches ==
    ASSUME NEW set \in SUBSET Kids, NEW o, o.kid = o.signer, o.signer \in Kids
    PROVE  Matching(set, o) = IF o.signer \in set THEN {o.signer} ELSE {}
BY KidAssumption DEF Matching

\* What a key set says of a token: "ok" only of a genuine one whose signer is in
\* the set, and a refusal of a genuine token only if its signer is not, or if the
\* token does not say who signed it.
LEMMA JudgedOk ==
    ASSUME NEW row, NEW o, NEW key, Judged(row, o, key) = "ok"
    PROVE  key = o.signer /\ o.alg \in row.algorithms /\ o.aud = row.audience /\ now < o.until /\ o.sub
BY DEF Judged

LEMMA JudgedOther ==
    ASSUME NEW row, NEW o, NEW key, Judged(row, o, key) # "ok"
    PROVE  ~ (key = o.signer /\ o.alg \in row.algorithms /\ o.aud = row.audience /\ now < o.until /\ o.sub)
BY DEF Judged

LEMMA JudgedReason ==
    ASSUME NEW row, NEW o, NEW key
    PROVE  Judged(row, o, key) \in Reasons \cup {"ok"}
BY DEF Judged, Reasons

LEMMA JudgedBySound ==
    ASSUME NEW m, NEW o, NEW set \in SUBSET Kids, ReadsKeySet(m, o)
    PROVE  /\ JudgedBy(m, o, set) \in Reasons \cup {"ok"}
           /\ JudgedBy(m, o, set) = "ok" => Genuine(m, o, now) /\ o.signer \in set
           /\ JudgedBy(m, o, set) \notin {"ok", "indeterminate"} /\ Genuine(m, o, now)
                  /\ o.kid = o.signer => o.signer \notin set
<1>1. PICK key : key = CHOOSE k \in Matching(set, o) : TRUE
    OBVIOUS
<1>2. CASE Symmetric(o.alg)
    BY <1>2 DEF JudgedBy, Reasons
<1>3. CASE ~ Symmetric(o.alg) /\ Cardinality(Matching(set, o)) = 1
    <2>1. JudgedBy(m, o, set) = Judged(RowFor(m, o.iss), o, key)
        BY <1>1, <1>3 DEF JudgedBy
    <2>2. Matching(set, o) # {}
        BY <1>3, FS_EmptySet
    <2>3. key \in Matching(set, o)
        BY <1>1, <2>2
    <2>4. key \in set /\ key \in Kids /\ o.kid \in {NoKid, key}
        BY <2>3 DEF Matching
    <2>5. ASSUME JudgedBy(m, o, set) = "ok" PROVE Genuine(m, o, now) /\ o.signer \in set
        <3>1. /\ key = o.signer /\ o.alg \in RowFor(m, o.iss).algorithms
              /\ o.aud = RowFor(m, o.iss).audience /\ now < o.until /\ o.sub
            BY <2>1, <2>5, JudgedOk
        <3>2. QED
            BY <2>4, <3>1 DEF Genuine, ReadsKeySet
    <2>6. ASSUME JudgedBy(m, o, set) # "ok", Genuine(m, o, now), o.kid = o.signer
          PROVE  o.signer \notin set
        <3>1. o.signer \in Kids
            BY <2>6 DEF Genuine, ReadsKeySet
        <3>2. key # o.signer
            BY <2>1, <2>6, JudgedOther DEF Genuine
        <3>3. QED
            BY <2>3, <2>6, <3>1, <3>2, SignerMatches
    <2>7. JudgedBy(m, o, set) \in Reasons \cup {"ok"}
        BY <2>1, JudgedReason
    <2>8. QED
        BY <2>5, <2>6, <2>7
<1>4. CASE ~ Symmetric(o.alg) /\ Cardinality(Matching(set, o)) # 1
    <2>1. JudgedBy(m, o, set) = "invalid"
        BY <1>4 DEF JudgedBy
    <2>2. ASSUME Genuine(m, o, now), o.kid = o.signer, o.signer \in set PROVE FALSE
        <3>1. Matching(set, o) = {o.signer}
            BY <2>2, SignerMatches DEF Genuine, ReadsKeySet
        <3>2. QED
            BY <1>4, <3>1, FS_Singleton
    <2>3. QED
        BY <2>1, <2>2 DEF Reasons
<1>5. QED
    BY <1>2, <1>3, <1>4

\* A verdict that the invariant can live with.
Sound(m, o, verdict) ==
    /\ verdict \in Reasons \cup {"ok"}
    /\ verdict = "ok" => Believed(m, o, now)
    /\ verdict \notin {"ok", "indeterminate"} => ~ Good(m, o, now)

\* Keys that were fetched recently enough vouch for a token ...
LEMMA RecentKeysBelieved ==
    ASSUME TypeOK, NEW set, NEW t \in Int, KeysFrom(set, t), NEW m, NEW o,
           Genuine(m, o, now), o.signer \in Kids, o.signer \in set, now < t + Ttl + Timeout
    PROVE  Believed(m, o, now)
<1>1. t <= retiredAt[o.signer] /\ retiredAt[o.signer] \in Int /\ now \in Int /\ Ttl \in Int /\ Timeout \in Int
    BY TimeAssumption DEF KeysFrom, TypeOK, Never
<1>2. QED
    BY <1>1 DEF Believed

\* ... and against one.
LEMMA RecentKeysRefuse ==
    ASSUME TypeOK, NEW set, NEW t \in Int, KeysFrom(set, t), NEW m, NEW o, ~ HasRow(m, o.iss, "value"),
           o.signer \in Kids => o.signer \notin set, now < t + Cooldown + Timeout
    PROVE  ~ Good(m, o, now)
<1>1. SUFFICES ASSUME Good(m, o, now) PROVE FALSE
    OBVIOUS
<1>2. /\ o.signer \in Kids /\ retiredAt[o.signer] = Never
      /\ publishedAt[o.signer] + Cooldown + Timeout <= now
    BY <1>1 DEF Good, Genuine
<1>3. t <= publishedAt[o.signer] /\ publishedAt[o.signer] \in Int /\ now \in Int
      /\ Cooldown \in Int /\ Timeout \in Int
    BY <1>2, TimeAssumption DEF KeysFrom, TypeOK, Never
<1>4. QED
    BY <1>2, <1>3

\* The keys at hand, when no fetch is due, judge soundly.
LEMMA VerdictSound ==
    ASSUME TypeOK, KeysInv, NEW m \in Methods, NEW o, ~ MustFetch(m, o)
    PROVE  Sound(m, o, Verdict(m, o))
<1>1. CASE o.scheme # "bearer"
    BY <1>1 DEF Verdict, Sound, Reasons, Good, Genuine
<1>2. CASE o.scheme = "bearer" /\ ~ o.parses
    BY <1>2 DEF Verdict, Sound, Reasons, Good, Genuine
<1>3. CASE o.scheme = "bearer" /\ o.parses /\ ~ Trusts(m, o.iss)
    BY <1>3 DEF Verdict, Sound, Reasons, Good, Genuine
<1>4. CASE o.scheme = "bearer" /\ o.parses /\ Trusts(m, o.iss) /\ HasRow(m, o.iss, "value")
    <2>1. PICK row, key : row = RowFor(m, o.iss) /\ key = StaticRow(m, o.iss)
        OBVIOUS
    <2>2. Verdict(m, o) = IF o.alg \in key.algorithms THEN Judged(row, o, key.key) ELSE "invalid"
        BY <1>4, <2>1 DEF Verdict
    <2>3. Genuine(m, o, now) <=>
              /\ o.sub /\ now < o.until /\ o.aud = row.audience /\ o.alg \in row.algorithms
              /\ o.signer = key.key /\ o.alg \in key.algorithms
        BY <1>4, <2>1 DEF Genuine
    <2>4. Verdict(m, o) \in Reasons \cup {"ok"}
        BY <2>2, JudgedReason DEF Reasons
    <2>5. Verdict(m, o) = "ok" => Genuine(m, o, now)
        BY <2>2, <2>3, JudgedOk
    <2>6. Verdict(m, o) # "ok" => ~ Genuine(m, o, now)
        BY <2>2, <2>3, JudgedOther
    <2>7. QED
        BY <1>4, <2>4, <2>5, <2>6 DEF Sound, Believed, Good
<1>5. CASE ReadsKeySet(m, o)
    <2>1. PICK v \in Resolvers : v = <<m, o.iss>>
        BY <1>5, ReadsResolver
    <2>2. PICK set \in SUBSET Kids : set = keySet[v]
        BY DEF TypeOK
    <2>3. Verdict(m, o) = JudgedBy(m, o, set)
        BY <1>5, <2>1, <2>2 DEF Verdict, ReadsKeySet
    <2>4. /\ fetchedAt[v] >= 0 /\ now < fetchedAt[v] + Ttl
          /\ Symmetric(o.alg) \/ Matching(set, o) # {} \/ now < fetchedAt[v] + Cooldown
        BY <1>5, <2>1, <2>2 DEF MustFetch, Fresh, CoolingDown
    <2>5. PICK t \in Int : t = fetchedAt[v] - Timeout
        BY TimeAssumption DEF TypeOK
    <2>6. KeysFrom(set, t)
        BY <2>2, <2>4, <2>5, TimeAssumption DEF KeysInv, TypeOK
    <2>7. now \in Int /\ fetchedAt[v] \in Int /\ Ttl \in Int /\ Timeout \in Int /\ Cooldown \in Int
        BY TimeAssumption DEF TypeOK
    <2>8. now < t + Ttl + Timeout
        BY <2>4, <2>5, <2>7
    <2>9. Verdict(m, o) = "ok" => Believed(m, o, now)
        BY <2>2, <2>3, <2>6, <2>8, <1>5, JudgedBySound, RecentKeysBelieved
    <2>10. ASSUME Verdict(m, o) \notin {"ok", "indeterminate"}, Good(m, o, now) PROVE FALSE
        <3>1. Genuine(m, o, now) /\ o.kid = o.signer /\ ~ HasRow(m, o.iss, "value") /\ o.signer \in Kids
            BY <1>5, <2>10 DEF Good, ReadsKeySet, Genuine
        <3>2. o.signer \notin set
            BY <1>5, <2>3, <2>10, <3>1, JudgedBySound
        <3>3. Matching(set, o) = {}
            BY <3>1, <3>2, SignerMatches
        <3>4. ~ Symmetric(o.alg)
            BY <2>3, <2>10 DEF JudgedBy
        <3>5. now < t + Cooldown + Timeout
            BY <2>4, <2>5, <2>7, <3>3, <3>4
        <3>6. QED
            BY <2>6, <2>10, <3>1, <3>2, <3>5, RecentKeysRefuse
    <2>11. Verdict(m, o) \in Reasons \cup {"ok"}
        BY <1>5, <2>3, JudgedBySound
    <2>12. QED
        BY <2>9, <2>10, <2>11 DEF Sound
<1>6. QED
    BY <1>1, <1>2, <1>3, <1>4, <1>5 DEF ReadsKeySet

\* So do the keys that were just fetched.
LEMMA FetchedSound ==
    ASSUME TypeOK, KeysInv, NEW m \in Methods, NEW o, ReadsKeySet(m, o),
           NEW v \in Resolvers, reply[v] # <<>>
    PROVE  Sound(m, o, JudgedBy(m, o, reply[v][1]))
<1>1. PICK set \in SUBSET Kids : reply[v] = <<set>>
    BY DEF TypeOK
<1>2. PICK t \in Int : t = fetchSince[v]
    BY DEF TypeOK
<1>3. KeysFrom(set, t) /\ now <= t + Timeout
    BY <1>1, <1>2 DEF KeysInv
<1>4. now < t + Ttl + Timeout /\ now < t + Cooldown + Timeout
    BY <1>3, TimeAssumption DEF TypeOK
<1>5. JudgedBy(m, o, set) = "ok" => Believed(m, o, now)
    BY <1>3, <1>4, JudgedBySound, RecentKeysBelieved
<1>6. ASSUME JudgedBy(m, o, set) \notin {"ok", "indeterminate"}, Good(m, o, now) PROVE FALSE
    <2>1. Genuine(m, o, now) /\ o.kid = o.signer /\ ~ HasRow(m, o.iss, "value")
        BY <1>6 DEF Good, ReadsKeySet
    <2>2. o.signer \notin set
        BY <1>6, <2>1, JudgedBySound
    <2>3. QED
        BY <1>3, <1>4, <1>6, <2>1, <2>2, RecentKeysRefuse
<1>7. JudgedBy(m, o, set) \in Reasons \cup {"ok"}
    BY JudgedBySound
<1>8. QED
    BY <1>1, <1>5, <1>6, <1>7 DEF Sound

-----------------------------------------------------------------------------
\* What Settle does to one request.
Failed(r, verdict) == Append(failures[r], [reason |-> verdict, at |-> now])

LEMMA SettleDoes ==
    ASSUME NEW verdicts, Settle(verdicts), NEW r \in Requests
    PROVE  /\ r \notin DOMAIN verdicts =>
                  /\ pc'[r] = pc[r] /\ step'[r] = step[r] /\ failures'[r] = failures[r]
                  /\ status'[r] = status[r] /\ answeredAt'[r] = answeredAt[r]
           /\ r \in DOMAIN verdicts /\ verdicts[r] = "ok" =>
                  /\ pc'[r] = "answered" /\ step'[r] = step[r] /\ failures'[r] = failures[r]
                  /\ status'[r] = RoleStatus(route[r], offer[r], RowFor(Method(r), offer[r].iss))
                  /\ answeredAt'[r] = now
           /\ r \in DOMAIN verdicts /\ verdicts[r] # "ok" /\ step[r] = Len(Chain(route[r])) =>
                  /\ pc'[r] = "answered" /\ step'[r] = step[r] /\ failures'[r] = Failed(r, verdicts[r])
                  /\ status'[r] = StatusForReason(MostTelling(Failed(r, verdicts[r])))
                  /\ answeredAt'[r] = now
           /\ r \in DOMAIN verdicts /\ verdicts[r] # "ok" /\ step[r] # Len(Chain(route[r])) =>
                  /\ pc'[r] = "verifying" /\ step'[r] = step[r] + 1 /\ failures'[r] = Failed(r, verdicts[r])
                  /\ status'[r] = status[r] /\ answeredAt'[r] = answeredAt[r]
<1>1. CASE r \notin DOMAIN verdicts
    BY <1>1 DEF Settle
<1>2. CASE r \in DOMAIN verdicts /\ verdicts[r] = "ok"
    BY <1>2 DEF Settle, Method
<1>3. CASE r \in DOMAIN verdicts /\ verdicts[r] # "ok" /\ step[r] = Len(Chain(route[r]))
    BY <1>3 DEF Settle, Failed
<1>4. CASE r \in DOMAIN verdicts /\ verdicts[r] # "ok" /\ step[r] # Len(Chain(route[r]))
    BY <1>4 DEF Settle, Failed
<1>5. QED
    BY <1>1, <1>2, <1>3, <1>4

\* The most telling of the failures is indeterminate if one of them is.
LEMMA MostTellingTells ==
    ASSUME NEW n \in Nat, NEW fs, Len(fs) = n, \A i \in 1..n : fs[i].reason \in Reasons
    PROVE  /\ StatusForReason(MostTelling(fs)) \in {401, 503}
           /\ StatusForReason(MostTelling(fs)) = 401 => \A i \in 1..n : fs[i].reason # "indeterminate"
<1>1. CASE \E i \in 1..n : fs[i].reason = "indeterminate"
    <2>1. MostTelling(fs) = "indeterminate"
        BY <1>1 DEF MostTelling
    <2>2. QED
        BY <2>1 DEF StatusForReason
<1>2. CASE \A i \in 1..n : fs[i].reason # "indeterminate"
    BY <1>2 DEF StatusForReason
<1>3. QED
    BY <1>1, <1>2

\* A route that asks for no role refuses none, and one that asks for some admits
\* only who has one of each.
LEMMA RoleStatusIs ==
    ASSUME NEW rt, RouteKept(rt), NEW o, NEW row
    PROVE  /\ RoleStatus(rt, o, row) \in {200, 403}
           /\ RoleStatus(rt, o, row) = 403 => RolesAsked(rt) # {}
           /\ RoleStatus(rt, o, row) = 200 =>
                  \A anyOf \in RolesAsked(rt) : anyOf \cap Claimed(o, row.rolesClaim) # {}
<1>1. PICK since : since = RolesAsked(rt)
    OBVIOUS
<1>2. since = rt.roles \ {{}}
    BY <1>1 DEF RouteKept
<1>3. Satisfies(Claimed(o, row.rolesClaim), rt.roles) <=>
          \A anyOf \in since : anyOf \cap Claimed(o, row.rolesClaim) # {}
    BY <1>2 DEF Satisfies
<1>4. QED
    BY <1>1, <1>3 DEF RoleStatus

LEMMA RoutesKept ==
    ASSUME TypeOK, NEW r \in Requests
    PROVE  RouteKept(route[r])
<1>1. PICK s \in Routes : route[r] = Decorated(s[1], s[2])
    BY DEF TypeOK
<1>2. QED
    BY <1>1, EveryRouteKept

-----------------------------------------------------------------------------
\* What time and the provider do leaves every answer right.
Later ==
    /\ now <= now'
    /\ \A k \in Kids :
           /\ retiredAt'[k] = retiredAt[k] \/ (retiredAt[k] = Never /\ retiredAt'[k] = now)
           /\ publishedAt'[k] = publishedAt[k] \/ (publishedAt[k] = Never /\ publishedAt'[k] = now)

\* A token that was believed stays one that was rightly believed at that time ...
LEMMA LaterBelieved ==
    ASSUME TypeOK, Later, NEW m, NEW o, NEW t \in 0..MaxTime, t <= now, Believed(m, o, t)
    PROVE  Believed(m, o, t)'
<1>1. CASE HasRow(m, o.iss, "value")
    BY <1>1 DEF Believed, Genuine
<1>2. CASE ~ HasRow(m, o.iss, "value")
    <2>1. o.signer \in Kids
        BY <1>2 DEF Believed, Genuine
    <2>2. t < retiredAt[o.signer] + Ttl + Timeout
        BY <1>2 DEF Believed
    <2>3. retiredAt'[o.signer] \in {retiredAt[o.signer], now}
        BY <2>1 DEF Later
    <2>4. /\ t \in Int /\ now \in Int /\ Ttl \in Nat \ {0} /\ Timeout \in Nat
          /\ retiredAt[o.signer] \in Int
        BY <2>1, TimeAssumption DEF TypeOK, Never
    <2>5. t < retiredAt'[o.signer] + Ttl + Timeout
        BY <2>2, <2>3, <2>4
    <2>6. QED
        BY <2>5 DEF Believed, Genuine
<1>3. QED
    BY <1>1, <1>2

\* ... and one that was no good at a time does not become good at that time.
LEMMA LaterGood ==
    ASSUME TypeOK, Later, NEW m, NEW o, NEW t \in 0..MaxTime, t <= now, Good(m, o, t)'
    PROVE  Good(m, o, t)
<1>1. Genuine(m, o, t)
    BY DEF Good, Genuine
<1>2. CASE HasRow(m, o.iss, "value")
    BY <1>1, <1>2 DEF Good
<1>3. CASE ~ HasRow(m, o.iss, "value")
    <2>1. o.signer \in Kids
        BY <1>1, <1>3 DEF Genuine
    <2>2. /\ o.kid = o.signer /\ retiredAt'[o.signer] = Never
          /\ publishedAt'[o.signer] + Cooldown + Timeout <= t
        BY <1>3 DEF Good
    <2>3. retiredAt[o.signer] = Never
        BY <2>1, <2>2 DEF Later
    <2>4. publishedAt'[o.signer] = publishedAt[o.signer]
        BY <2>1, <2>2, TimeAssumption DEF Later, TypeOK
    <2>5. QED
        BY <1>1, <2>2, <2>3, <2>4 DEF Good
<1>4. QED
    BY <1>2, <1>3

LEMMA FailureTyped ==
    ASSUME TypeOK, NEW r \in Requests
    PROVE  /\ failures[r] \in Seq(Failure)
           /\ \A i \in 1..Len(failures[r]) : failures[r][i] \in Failure
<1>1. failures[r] \in Seq(Failure)
    BY DEF TypeOK
<1>2. QED
    BY <1>1

Unmoved(r) ==
    /\ pc'[r] = pc[r] /\ route'[r] = route[r] /\ offer'[r] = offer[r] /\ step'[r] = step[r]
    /\ failures'[r] = failures[r] /\ status'[r] = status[r] /\ answeredAt'[r] = answeredAt[r]

\* A request that does not move stays right.
LEMMA RequestKept ==
    ASSUME TypeOK, now' \in 0..MaxTime, Later, NEW r \in Requests, RequestOK(r), Unmoved(r)
    PROVE  RequestOK(r)'
<1>1. TryingInv(r)'
    BY DEF RequestOK, TryingInv, Unmoved, Trying
<1>2. FetchingInv(r)'
    BY DEF RequestOK, FetchingInv, Unmoved, Method
<1>3. PhaseInv(r)'
    BY DEF RequestOK, PhaseInv, Unmoved, Later, TypeOK, Never
<1>4. AdmittedInv(r)'
    <2>1. SUFFICES ASSUME status[r] = 200, ~ Opened(route[r]) PROVE AdmittedInv(r)'
        BY DEF AdmittedInv, Unmoved
    <2>2. pc[r] = "answered"
        BY <2>1 DEF RequestOK, TryingInv, PhaseInv, Trying, TypeOK
    <2>3. answeredAt[r] \in 0..MaxTime /\ answeredAt[r] <= now
        BY <2>2, TimeAssumption DEF RequestOK, PhaseInv, TypeOK, Never
    <2>4. PICK i \in 1..Len(Chain(route[r])) :
              /\ Believed(Chain(route[r])[i], offer[r], answeredAt[r])
              /\ RoleStatus(route[r], offer[r], RowFor(Chain(route[r])[i], offer[r].iss)) = 200
        BY <2>1 DEF RequestOK, AdmittedInv
    <2>5. Believed(Chain(route[r])[i], offer[r], answeredAt[r])'
        BY <2>3, <2>4, LaterBelieved DEF Unmoved
    <2>6. QED
        BY <2>4, <2>5 DEF AdmittedInv, Unmoved
<1>5. RefusedInv(r)'
    <2>1. ASSUME NEW i \in 1..Len(failures[r])
          PROVE  /\ failures[r][i].at <= now'
                 /\ failures[r][i].reason # "indeterminate" =>
                        ~ Good(Chain(route[r])[i], offer[r], failures[r][i].at)'
        <3>1. PICK m, o, t : m = Chain(route[r])[i] /\ o = offer[r] /\ t = failures[r][i].at
            OBVIOUS
        <3>2. failures[r][i] \in Failure
            BY FailureTyped
        <3>3. t \in 0..MaxTime /\ t <= now
            BY <3>1, <3>2 DEF RequestOK, RefusedInv, Failure
        <3>4. failures[r][i].reason # "indeterminate" => ~ Good(m, o, t)
            BY <3>1 DEF RequestOK, RefusedInv
        <3>5. ~ Good(m, o, t) => ~ Good(m, o, t)'
            BY <3>3, LaterGood
        <3>6. t <= now'
            BY <3>3 DEF Later, TypeOK
        <3>7. QED
            BY <3>1, <3>4, <3>5, <3>6 DEF Unmoved
    <2>2. QED
        BY <2>1 DEF RequestOK, RefusedInv, Unmoved
<1>6. QED
    BY <1>1, <1>2, <1>3, <1>4, <1>5 DEF RequestOK

-----------------------------------------------------------------------------
\* Verdicts that come in leave every request right.
Judges(verdicts) ==
    /\ DOMAIN verdicts \subseteq Requests
    /\ \A r \in DOMAIN verdicts :
           Trying(r) /\ Method(r) \in Methods /\ Sound(Method(r), offer[r], verdicts[r])

\* A refusal that is added to the failures of a request is a right one.
LEMMA FailureAdded ==
    ASSUME TypeOK, NEW verdicts, Judges(verdicts), NEW r \in DOMAIN verdicts, RequestOK(r),
           verdicts[r] # "ok"
    PROVE  LET fs == Failed(r, verdicts[r])
           IN  /\ fs \in Seq(Failure) /\ Len(fs) = step[r]
               /\ \A i \in 1..Len(fs) :
                      /\ fs[i] \in Failure /\ fs[i].at <= now
                      /\ fs[i].reason # "indeterminate" =>
                             ~ Good(Chain(route[r])[i], offer[r], fs[i].at)
<1>1. PICK f, fs : f = [reason |-> verdicts[r], at |-> now] /\ fs = Failed(r, verdicts[r])
    OBVIOUS
<1>2. r \in Requests /\ Sound(Method(r), offer[r], verdicts[r]) /\ Trying(r)
    BY DEF Judges
<1>3. f \in Failure /\ f.at = now /\ f.reason = verdicts[r]
    BY <1>1, <1>2 DEF Sound, Failure, TypeOK
<1>4. failures[r] \in Seq(Failure)
    BY <1>2, FailureTyped
<1>5. PICK n \in Nat : n = Len(failures[r])
    BY <1>4
<1>6. /\ fs \in Seq(Failure) /\ Len(fs) = n + 1 /\ fs[n + 1] = f
      /\ \A i \in 1..n : fs[i] = failures[r][i] /\ failures[r][i] \in Failure
    <2>1. fs = Append(failures[r], f)
        BY <1>1 DEF Failed
    <2>2. QED
        BY <1>3, <1>4, <1>5, <2>1
<1>7. step[r] = n + 1
    BY <1>2, <1>5 DEF RequestOK, TryingInv, TypeOK
<1>8. ASSUME NEW i \in 1..n + 1
      PROVE  /\ fs[i] \in Failure /\ fs[i].at <= now
             /\ fs[i].reason # "indeterminate" => ~ Good(Chain(route[r])[i], offer[r], fs[i].at)
    <2>1. CASE i = n + 1
        BY <1>2, <1>3, <1>6, <1>7, <2>1 DEF Sound, Method, TypeOK
    <2>2. CASE i \in 1..n
        BY <1>2, <1>5, <1>6, <2>2 DEF RequestOK, RefusedInv
    <2>3. i = n + 1 \/ i \in 1..n
        BY <1>5, <1>8
    <2>4. QED
        BY <2>1, <2>2, <2>3
<1>9. fs \in Seq(Failure) /\ Len(fs) = step[r] /\ 1..Len(fs) = 1..n + 1
    BY <1>6, <1>7
<1>10. QED
    BY <1>1, <1>8, <1>9

LEMMA StillLater ==
    ASSUME TypeOK, UNCHANGED <<now, idp>>
    PROVE  Later /\ now' \in 0..MaxTime
<1>1. now' = now /\ publishedAt' = publishedAt /\ retiredAt' = retiredAt
    BY DEF idp
<1>2. now \in 0..MaxTime /\ MaxTime \in Nat
    BY TimeAssumption DEF TypeOK
<1>3. now <= now'
    BY <1>1, <1>2
<1>4. QED
    BY <1>1, <1>2, <1>3 DEF Later

LEMMA GoodUnchanged ==
    ASSUME UNCHANGED idp, NEW m, NEW o, NEW t
    PROVE  Good(m, o, t)' = Good(m, o, t) /\ Believed(m, o, t)' = Believed(m, o, t)
<1>1. publishedAt' = publishedAt /\ retiredAt' = retiredAt
    BY DEF idp
<1>2. QED
    BY <1>1 DEF Good, Believed, Genuine

\* A method that verifies the token settles the request ...
LEMMA SettleAdmits ==
    ASSUME TypeOK, NEW verdicts, Judges(verdicts), Settle(verdicts), UNCHANGED <<now, idp>>,
           NEW r \in DOMAIN verdicts, RequestOK(r), verdicts[r] = "ok"
    PROVE  RequestOK(r)'
<1>1. /\ r \in Requests /\ Trying(r)
      /\ Believed(Method(r), offer[r], now)
    BY DEF Judges, Sound
<1>2. PICK row : row = RowFor(Method(r), offer[r].iss)
    OBVIOUS
<1>3. /\ pc'[r] = "answered" /\ step'[r] = step[r] /\ failures'[r] = failures[r]
      /\ status'[r] = RoleStatus(route[r], offer[r], row) /\ answeredAt'[r] = now
      /\ route' = route /\ offer' = offer /\ now' = now /\ idp' = idp
    BY <1>1, <1>2, SettleDoes DEF Settle
<1>4. RouteKept(route[r]) /\ ~ Opened(route[r]) /\ step[r] \in 1..Len(Chain(route[r]))
    BY <1>1, RoutesKept DEF RequestOK, TryingInv
<1>5. /\ status'[r] \in {200, 403}
      /\ status'[r] = 403 => RolesAsked(route[r]) # {}
    BY <1>3, <1>4, RoleStatusIs
<1>6. TryingInv(r)' /\ FetchingInv(r)'
    BY <1>3 DEF TryingInv, FetchingInv, Trying
<1>7. PhaseInv(r)'
    BY <1>3, <1>4, <1>5 DEF PhaseInv, TypeOK
<1>8. AdmittedInv(r)'
    <2>1. SUFFICES ASSUME status'[r] = 200 PROVE AdmittedInv(r)'
        BY DEF AdmittedInv
    <2>2. PICK i \in 1..Len(Chain(route[r])) : i = step[r]
        BY <1>4
    <2>3. PICK m, o, t : m = Chain(route[r])[i] /\ o = offer[r] /\ t = now
        OBVIOUS
    <2>4. m = Method(r)
        BY <2>2, <2>3 DEF Method
    <2>5. Believed(m, o, t)
        BY <1>1, <2>3, <2>4
    <2>6. Believed(m, o, t)'
        BY <2>5, GoodUnchanged
    <2>7. RoleStatus(route[r], o, RowFor(m, o.iss)) = 200
        BY <1>2, <1>3, <2>1, <2>3, <2>4
    <2>8. route'[r] = route[r] /\ offer'[r] = o /\ answeredAt'[r] = t /\ m = Chain(route[r])[i]
        BY <1>3, <2>3
    <2>9. QED
        BY <2>6, <2>7, <2>8 DEF AdmittedInv
<1>9. RefusedInv(r)'
    BY <1>3, <1>5, GoodUnchanged DEF RequestOK, RefusedInv
<1>10. QED
    BY <1>6, <1>7, <1>8, <1>9 DEF RequestOK

\* ... and one that refuses it settles the request or tries the next method.
LEMMA SettleRefuses ==
    ASSUME TypeOK, NEW verdicts, Judges(verdicts), Settle(verdicts), UNCHANGED <<now, idp>>,
           NEW r \in DOMAIN verdicts, RequestOK(r), verdicts[r] # "ok"
    PROVE  RequestOK(r)'
<1>1. PICK fs : fs = Failed(r, verdicts[r])
    OBVIOUS
<1>2. /\ fs \in Seq(Failure) /\ Len(fs) = step[r]
      /\ \A i \in 1..Len(fs) :
             /\ fs[i] \in Failure /\ fs[i].at <= now
             /\ fs[i].reason # "indeterminate" => ~ Good(Chain(route[r])[i], offer[r], fs[i].at)
    BY <1>1, FailureAdded
<1>3. r \in Requests /\ Trying(r)
    BY DEF Judges
<1>4. /\ ~ Opened(route[r]) /\ step[r] \in 1..Len(Chain(route[r])) /\ status[r] = 0
      /\ \A i \in 1..Len(Chain(route[r])) : Chain(route[r])[i] \in Methods
      /\ Len(Chain(route[r])) \in Nat
    BY <1>3, RoutesKept, ChainNamed DEF RequestOK, TryingInv
<1>5. route' = route /\ offer' = offer /\ now' = now /\ idp' = idp /\ failures'[r] = fs
    BY <1>1, <1>3, SettleDoes DEF Settle
<1>6. CASE step[r] = Len(Chain(route[r]))
    <2>1. /\ pc'[r] = "answered" /\ step'[r] = step[r]
          /\ status'[r] = StatusForReason(MostTelling(fs)) /\ answeredAt'[r] = now
        BY <1>1, <1>3, <1>6, SettleDoes
    <2>2. /\ status'[r] \in {401, 503}
          /\ status'[r] = 401 => \A i \in 1..Len(fs) : fs[i].reason # "indeterminate"
        <3>1. \A i \in 1..Len(fs) : fs[i].reason \in Reasons
            BY <1>2 DEF Failure
        <3>2. Len(fs) \in Nat
            BY <1>2
        <3>3. QED
            BY <2>1, <3>1, <3>2, MostTellingTells
    <2>3. TryingInv(r)' /\ FetchingInv(r)' /\ AdmittedInv(r)'
        BY <2>1, <2>2 DEF TryingInv, FetchingInv, AdmittedInv, Trying
    <2>4. PhaseInv(r)'
        BY <1>4, <1>5, <2>1, <2>2 DEF PhaseInv, TypeOK
    <2>5. RefusedInv(r)'
        BY <1>2, <1>5, <1>6, <2>2, GoodUnchanged DEF RefusedInv
    <2>6. QED
        BY <2>3, <2>4, <2>5 DEF RequestOK
<1>7. CASE step[r] # Len(Chain(route[r]))
    <2>1. /\ pc'[r] = "verifying" /\ step'[r] = step[r] + 1 /\ status'[r] = status[r]
        BY <1>1, <1>3, <1>7, SettleDoes
    <2>2. TryingInv(r)'
        BY <1>2, <1>4, <1>5, <1>7, <2>1 DEF TryingInv
    <2>3. FetchingInv(r)' /\ PhaseInv(r)' /\ AdmittedInv(r)'
        BY <1>4, <2>1 DEF FetchingInv, PhaseInv, AdmittedInv
    <2>4. RefusedInv(r)'
        BY <1>2, <1>4, <1>5, <2>1, GoodUnchanged DEF RefusedInv
    <2>5. QED
        BY <2>2, <2>3, <2>4 DEF RequestOK
<1>8. QED
    BY <1>6, <1>7

\* All requests that wait for one verdict are settled rightly.
LEMMA SettleKeeps ==
    ASSUME TypeOK, RequestInv, NEW verdicts, Judges(verdicts), Settle(verdicts), UNCHANGED <<now, idp>>
    PROVE  RequestInv'
<1>1. SUFFICES ASSUME NEW r \in Requests PROVE RequestOK(r)'
    BY DEF RequestInv
<1>2. RequestOK(r)
    BY DEF RequestInv
<1>3. CASE r \in DOMAIN verdicts /\ verdicts[r] = "ok"
    BY <1>2, <1>3, SettleAdmits
<1>4. CASE r \in DOMAIN verdicts /\ verdicts[r] # "ok"
    BY <1>2, <1>4, SettleRefuses
<1>5. CASE r \notin DOMAIN verdicts
    <2>1. Unmoved(r)
        BY <1>5, SettleDoes DEF Settle, Unmoved
    <2>2. Later /\ now' \in 0..MaxTime
        BY StillLater
    <2>3. QED
        BY <1>2, <2>1, <2>2, RequestKept
<1>6. QED
    BY <1>3, <1>4, <1>5

LEMMA SettleTyped ==
    ASSUME TypeOK, RequestInv, NEW verdicts, Judges(verdicts), Settle(verdicts)
    PROVE  /\ pc' \in [Requests -> {"idle", "verifying", "fetching", "answered"}]
           /\ route' = route /\ offer' = offer
           /\ step' \in [Requests -> Nat] /\ failures' \in [Requests -> Seq(Failure)]
           /\ status' \in [Requests -> {0, 200, 401, 403, 500, 503}]
           /\ answeredAt' \in [Requests -> 0..Never]
<1>1. /\ pc' = [r \in Requests |-> pc'[r]] /\ step' = [r \in Requests |-> step'[r]]
      /\ failures' = [r \in Requests |-> failures'[r]] /\ status' = [r \in Requests |-> status'[r]]
      /\ answeredAt' = [r \in Requests |-> answeredAt'[r]] /\ route' = route /\ offer' = offer
    BY DEF Settle
<1>2. ASSUME NEW r \in Requests
      PROVE  /\ pc'[r] \in {"idle", "verifying", "fetching", "answered"}
             /\ step'[r] \in Nat /\ failures'[r] \in Seq(Failure)
             /\ status'[r] \in {0, 200, 401, 403, 500, 503} /\ answeredAt'[r] \in 0..Never
    <2>1. PICK fs : fs = Failed(r, verdicts[r])
        OBVIOUS
    <2>2. /\ pc[r] \in {"idle", "verifying", "fetching", "answered"}
          /\ step[r] \in Nat /\ failures[r] \in Seq(Failure)
          /\ status[r] \in {0, 200, 401, 403, 500, 503} /\ answeredAt[r] \in 0..Never
          /\ now \in 0..Never
        BY TimeAssumption DEF TypeOK, Never
    <2>3. CASE r \notin DOMAIN verdicts
        BY <2>2, <2>3, SettleDoes
    <2>4. CASE r \in DOMAIN verdicts /\ verdicts[r] = "ok"
        <3>1. status'[r] \in {200, 403}
            BY <2>4, RoutesKept, RoleStatusIs, SettleDoes
        <3>2. QED
            BY <2>2, <2>4, <3>1, SettleDoes
    <2>5. CASE r \in DOMAIN verdicts /\ verdicts[r] # "ok"
        <3>1. fs \in Seq(Failure) /\ \A i \in 1..Len(fs) : fs[i] \in Failure
            BY <2>1, <2>5, FailureAdded DEF RequestInv
        <3>2. Len(fs) \in Nat /\ \A i \in 1..Len(fs) : fs[i].reason \in Reasons
            BY <3>1 DEF Failure
        <3>3. StatusForReason(MostTelling(fs)) \in {401, 503}
            BY <3>2, MostTellingTells
        <3>4. CASE step[r] = Len(Chain(route[r]))
            BY <2>1, <2>2, <2>5, <3>1, <3>3, <3>4, SettleDoes
        <3>5. CASE step[r] # Len(Chain(route[r]))
            BY <2>1, <2>2, <2>5, <3>1, <3>5, SettleDoes
        <3>6. QED
            BY <3>4, <3>5
    <2>6. QED
        BY <2>3, <2>4, <2>5
<1>3. QED
    BY <1>1, <1>2

LEMMA SettleKeepsTypes ==
    ASSUME TypeOK, RequestInv, NEW verdicts, Judges(verdicts), Settle(verdicts), UNCHANGED <<now, idp>>,
           keySet' \in [Resolvers -> SUBSET Kids],
           fetchedAt' \in [Resolvers -> -1..MaxTime], fetchSince' \in [Resolvers -> -1..MaxTime],
           reply' \in [Resolvers -> {<<>>} \cup {<<set>> : set \in SUBSET Kids}]
    PROVE  TypeOK'
<1>1. /\ pc' \in [Requests -> {"idle", "verifying", "fetching", "answered"}]
      /\ route' = route /\ offer' = offer
      /\ step' \in [Requests -> Nat] /\ failures' \in [Requests -> Seq(Failure)]
      /\ status' \in [Requests -> {0, 200, 401, 403, 500, 503}]
      /\ answeredAt' \in [Requests -> 0..Never]
    BY SettleTyped
<1>2. now' = now /\ publishedAt' = publishedAt /\ retiredAt' = retiredAt
    BY DEF idp
<1>3. QED
    BY <1>1, <1>2 DEF TypeOK

-----------------------------------------------------------------------------
\* The invariant is inductive.
LEMMA KeysFromEarlier ==
    ASSUME TypeOK, NEW set, NEW t \in Int, NEW u \in Int, u <= t, KeysFrom(set, t)
    PROVE  KeysFrom(set, u)
BY TimeAssumption DEF KeysFrom, TypeOK, Never

\* Keys that were fetched not before t are so whatever the provider publishes or
\* retires later.
LEMMA KeysFromLater ==
    ASSUME TypeOK, Later, NEW set, NEW t \in Int, t <= now, KeysFrom(set, t)
    PROVE  KeysFrom(set, t)'
<1>1. SUFFICES ASSUME NEW k \in Kids
               PROVE  /\ k \in set => t <= retiredAt'[k]
                      /\ k \notin set /\ retiredAt'[k] = Never => t <= publishedAt'[k]
    BY DEF KeysFrom
<1>2. /\ retiredAt'[k] = retiredAt[k] \/ (retiredAt[k] = Never /\ retiredAt'[k] = now)
      /\ publishedAt'[k] = publishedAt[k] \/ (publishedAt[k] = Never /\ publishedAt'[k] = now)
    BY DEF Later
<1>3. now \in 0..MaxTime /\ now # Never
    BY TimeAssumption DEF TypeOK, Never
<1>4. QED
    BY <1>2, <1>3 DEF KeysFrom

LEMMA KeysKept ==
    ASSUME TypeOK, KeysInv, Later, now' \in 0..MaxTime, UNCHANGED keys,
           \A k \in Kids : publishedAt'[k] # Never => publishedAt'[k] <= now',
           \A v \in Resolvers : fetchSince[v] # -1 => now' <= fetchSince[v] + Timeout
    PROVE  KeysInv'
<1>1. keySet' = keySet /\ fetchedAt' = fetchedAt /\ fetchSince' = fetchSince /\ reply' = reply
    BY DEF keys
<1>2. ASSUME NEW v \in Resolvers
      PROVE  /\ fetchedAt[v] <= now' /\ fetchSince[v] <= now'
             /\ reply[v] # <<>> => fetchSince[v] # -1 /\ KeysFrom(reply[v][1], fetchSince[v])'
             /\ fetchedAt[v] # -1 => KeysFrom(keySet[v], fetchedAt[v] - Timeout)'
    <2>1. /\ fetchedAt[v] \in Int /\ fetchSince[v] \in Int /\ Timeout \in Nat /\ now \in Int
          /\ now' \in Int /\ now <= now'
        BY TimeAssumption DEF TypeOK, Later
    <2>2. fetchedAt[v] <= now /\ fetchSince[v] <= now
        BY DEF KeysInv
    <2>3. PICK t, u, since, had :
              /\ t \in Int /\ t = fetchSince[v] /\ u \in Int /\ u = fetchedAt[v] - Timeout
              /\ since = reply[v][1] /\ had = keySet[v]
        BY <2>1
    <2>4. t <= now /\ u <= now
        BY <2>1, <2>2, <2>3
    <2>5. reply[v] # <<>> => fetchSince[v] # -1 /\ KeysFrom(since, t)'
        BY <2>3, <2>4, KeysFromLater DEF KeysInv
    <2>6. fetchedAt[v] # -1 => KeysFrom(had, u)'
        BY <2>3, <2>4, KeysFromLater DEF KeysInv
    <2>7. reply'[v][1] = since /\ keySet'[v] = had /\ fetchSince'[v] = t /\ fetchedAt'[v] - Timeout = u
        BY <1>1, <2>3
    <2>8. QED
        BY <1>1, <2>1, <2>2, <2>5, <2>6, <2>7
<1>3. QED
    BY <1>1, <1>2 DEF KeysInv

LEMMA RequestsKept ==
    ASSUME TypeOK, RequestInv, Later, now' \in 0..MaxTime, UNCHANGED request
    PROVE  RequestInv'
<1>1. \A r \in Requests : Unmoved(r)
    BY DEF request, Unmoved
<1>2. QED
    BY <1>1, RequestKept DEF RequestInv

LEMMA AuthStarts == Init => AuthInv
<1>1. SUFFICES ASSUME Init PROVE AuthInv
    OBVIOUS
<1>2. MaxTime \in Nat /\ Never \in Nat /\ now = 0 /\ 0 # Never
    BY <1>1, TimeAssumption DEF Init, Never
<1>3. TypeOK
    <2>1. <<>> \in Seq(Failure)
        OBVIOUS
    <2>2. QED
        BY <1>1, <1>2, <2>1 DEF Init, TypeOK, Never
<1>4. KeysInv
    BY <1>1, <1>2, TimeAssumption DEF Init, KeysInv
<1>5. RequestInv
    BY <1>1, <1>2 DEF Init, RequestInv, RequestOK, TryingInv, FetchingInv, PhaseInv, AdmittedInv,
       RefusedInv, Trying
<1>6. QED
    BY <1>3, <1>4, <1>5 DEF AuthInv

\* One request moves, the others do not.
LEMMA OneMoved ==
    ASSUME TypeOK, RequestInv, Later, now' \in 0..MaxTime, NEW r \in Requests, RequestOK(r)',
           \A q \in Requests \ {r} : Unmoved(q)
    PROVE  RequestInv'
BY RequestKept DEF RequestInv

\* Each action keeps the invariant.
LEMMA ArriveInv ==
    ASSUME AuthInv, NEW r \in Requests, Arrive(r)
    PROVE  AuthInv'
<1> DEFINE wrong == \/ Chain(route[r]) = <<>>
                    \/ \E i \in 1..Len(Chain(route[r])) : Chain(route[r])[i] \notin Methods
           code == IF route[r].anonymous THEN 200 ELSE IF wrong THEN 500 ELSE 0
<1>1. code = 0 => Chain(route[r]) # <<>> /\ \A i \in 1..Len(Chain(route[r])) : Chain(route[r])[i] \in Methods
    OBVIOUS
<1>2. /\ code \in {0, 200, 500}
      /\ code = 200 <=> route[r].anonymous
    OBVIOUS
<1>3. /\ pc[r] = "idle" /\ status' = [status EXCEPT ![r] = code]
      /\ pc' = [pc EXCEPT ![r] = IF code = 0 THEN "verifying" ELSE "answered"]
      /\ answeredAt' = [answeredAt EXCEPT ![r] = IF code = 0 THEN @ ELSE now]
    BY DEF Arrive
<1> HIDE DEF wrong, code
<1>4. /\ now' = now /\ route' = route /\ offer' = offer /\ step' = step /\ failures' = failures
      /\ UNCHANGED <<now, idp>> /\ UNCHANGED keys
    BY DEF Arrive
<1>5. TypeOK /\ KeysInv /\ RequestInv /\ RequestOK(r) /\ RouteKept(route[r])
    BY RoutesKept DEF AuthInv, RequestInv
<1>6. Later /\ now' \in 0..MaxTime
    BY <1>4, <1>5, StillLater
<1>7. TypeOK'
    <2>1. /\ status' \in [Requests -> {0, 200, 401, 403, 500, 503}]
          /\ pc' \in [Requests -> {"idle", "verifying", "fetching", "answered"}]
          /\ answeredAt' \in [Requests -> 0..Never]
        BY <1>2, <1>3, <1>5, TimeAssumption DEF TypeOK, Never
    <2>2. QED
        BY <1>4, <1>5, <2>1 DEF TypeOK, idp, keys
<1>8. KeysInv'
    BY <1>4, <1>5, <1>6, KeysKept DEF KeysInv, idp
<1>9. /\ pc'[r] = IF code = 0 THEN "verifying" ELSE "answered"
      /\ status'[r] = code /\ (code # 0 => answeredAt'[r] = now)
      /\ step'[r] = 1 /\ failures'[r] = <<>> /\ Len(failures'[r]) = 0
    BY <1>3, <1>4, <1>5 DEF TypeOK, RequestOK, PhaseInv
<1>10. TryingInv(r)'
    <2>1. SUFFICES ASSUME code = 0 PROVE TryingInv(r)'
        BY <1>9 DEF TryingInv, Trying
    <2>2. ~ Opened(route[r])
        BY <1>2, <1>5, <2>1 DEF RouteKept
    <2>3. Chain(route[r]) \in Seq(STRING)
        BY <1>5, <2>2, ChainNamed
    <2>4. 1 \in 1..Len(Chain(route[r]))
        BY <1>1, <2>1, <2>3
    <2>5. QED
        BY <1>1, <1>4, <1>9, <2>1, <2>2, <2>4 DEF TryingInv
<1>11. PhaseInv(r)' /\ FetchingInv(r)'
    BY <1>2, <1>4, <1>5, <1>9 DEF PhaseInv, FetchingInv, TypeOK
<1>12. AdmittedInv(r)' /\ RefusedInv(r)'
    BY <1>2, <1>4, <1>5, <1>9 DEF AdmittedInv, RefusedInv, RouteKept
<1>13. RequestOK(r)'
    BY <1>10, <1>11, <1>12 DEF RequestOK
<1>14. \A q \in Requests \ {r} : Unmoved(q)
    BY <1>3, <1>4, <1>5 DEF Unmoved, TypeOK
<1>15. QED
    BY <1>5, <1>6, <1>7, <1>8, <1>13, <1>14, OneMoved DEF AuthInv

LEMMA VerifyInv ==
    ASSUME AuthInv, NEW r \in Requests, Verify(r)
    PROVE  AuthInv'
<1>1. TypeOK /\ KeysInv /\ RequestInv /\ RequestOK(r)
    BY DEF AuthInv, RequestInv
<1>2. PICK verdict : verdict = Verdict(Method(r), offer[r])
    OBVIOUS
<1>3. PICK verdicts : verdicts = [x \in {r} |-> verdict]
    OBVIOUS
<1>4. /\ pc[r] = "verifying" /\ ~ MustFetch(Method(r), offer[r]) /\ Settle(verdicts)
      /\ UNCHANGED <<now, idp>> /\ UNCHANGED keys
    BY <1>2, <1>3 DEF Verify, Method
<1>5. Trying(r) /\ Method(r) \in Methods
    BY <1>1, <1>4 DEF RequestOK, TryingInv, Trying, Method
<1>6. Sound(Method(r), offer[r], verdict)
    BY <1>1, <1>2, <1>4, <1>5, VerdictSound
<1>7. Judges(verdicts)
    BY <1>3, <1>5, <1>6 DEF Judges
<1>8. Later /\ now' \in 0..MaxTime
    BY <1>1, <1>4, StillLater
<1>9. TypeOK'
    BY <1>1, <1>4, <1>7, SettleKeepsTypes DEF keys, TypeOK
<1>10. KeysInv'
    BY <1>1, <1>4, <1>8, KeysKept DEF KeysInv, idp
<1>11. QED
    BY <1>1, <1>4, <1>7, <1>9, <1>10, SettleKeeps DEF AuthInv

LEMMA AwaitKeysInv ==
    ASSUME AuthInv, NEW r \in Requests, AwaitKeys(r)
    PROVE  AuthInv'
<1>1. TypeOK /\ KeysInv /\ RequestInv /\ RequestOK(r)
    BY DEF AuthInv, RequestInv
<1>2. PICK v : v = <<Method(r), offer[r].iss>>
    OBVIOUS
<1>3. /\ pc[r] = "verifying" /\ MustFetch(Method(r), offer[r])
      /\ pc' = [pc EXCEPT ![r] = "fetching"]
      /\ fetchSince' = [fetchSince EXCEPT ![v] = IF @ = -1 THEN now ELSE @]
      /\ now' = now /\ keySet' = keySet /\ fetchedAt' = fetchedAt /\ reply' = reply
      /\ route' = route /\ offer' = offer /\ step' = step
      /\ failures' = failures /\ status' = status /\ answeredAt' = answeredAt
      /\ UNCHANGED <<now, idp>> /\ UNCHANGED idp
    BY <1>2 DEF AwaitKeys, Method
<1>4. ReadsKeySet(Method(r), offer[r])
    BY <1>3 DEF MustFetch
<1>5. Trying(r) /\ Method(r) \in Methods
    BY <1>1, <1>3 DEF RequestOK, TryingInv, Trying, Method
<1>6. v \in Resolvers
    BY <1>2, <1>4, <1>5, ReadsResolver
<1>7. Later /\ now' \in 0..MaxTime
    BY <1>1, <1>3, StillLater
<1>8. TypeOK'
    <2>1. fetchSince' \in [Resolvers -> -1..MaxTime]
        BY <1>1, <1>3, <1>6, TimeAssumption DEF TypeOK
    <2>2. pc' \in [Requests -> {"idle", "verifying", "fetching", "answered"}]
        BY <1>1, <1>3 DEF TypeOK
    <2>3. publishedAt' = publishedAt /\ retiredAt' = retiredAt
        BY <1>3 DEF idp
    <2>4. QED
        BY <1>1, <1>3, <2>1, <2>2, <2>3 DEF TypeOK
<1>9. KeysInv'
    <2>1. publishedAt' = publishedAt /\ retiredAt' = retiredAt
        BY <1>3 DEF idp
    <2>2. ASSUME NEW u \in Resolvers
          PROVE  /\ fetchedAt[u] <= now /\ fetchSince'[u] <= now
                 /\ fetchSince'[u] # -1 => now <= fetchSince'[u] + Timeout
                 /\ reply[u] # <<>> => fetchSince'[u] = fetchSince[u] /\ fetchSince[u] # -1
        BY <1>1, <1>3, <1>6, TimeAssumption DEF KeysInv, TypeOK
    <2>3. \A set, t : KeysFrom(set, t)' = KeysFrom(set, t)
        BY <2>1 DEF KeysFrom
    <2>4. QED
        BY <1>1, <1>3, <2>1, <2>2, <2>3 DEF KeysInv
<1>10. pc'[r] = "fetching" /\ status[r] = 0
    BY <1>1, <1>3, <1>5 DEF TypeOK, RequestOK, TryingInv
<1>11. TryingInv(r)' /\ FetchingInv(r)'
    BY <1>1, <1>3, <1>4, <1>5, <1>10 DEF RequestOK, TryingInv, FetchingInv, Trying, Method
<1>12. PhaseInv(r)' /\ AdmittedInv(r)'
    BY <1>3, <1>10 DEF PhaseInv, AdmittedInv
<1>13. RefusedInv(r)'
    BY <1>1, <1>3, <1>10, GoodUnchanged DEF RequestOK, RefusedInv
<1>14. RequestOK(r)'
    BY <1>11, <1>12, <1>13 DEF RequestOK
<1>15. \A q \in Requests \ {r} : Unmoved(q)
    BY <1>1, <1>3 DEF Unmoved, TypeOK
<1>16. QED
    BY <1>1, <1>7, <1>8, <1>9, <1>14, <1>15, OneMoved DEF AuthInv

LEMMA ProviderRepliesInv ==
    ASSUME AuthInv, NEW v \in Resolvers, ProviderReplies(v)
    PROVE  AuthInv'
<1>1. TypeOK /\ KeysInv /\ RequestInv
    BY DEF AuthInv
<1>2. PICK set : set = Published
    OBVIOUS
<1>3. /\ fetchSince[v] # -1 /\ reply' = [reply EXCEPT ![v] = <<set>>]
      /\ now' = now /\ keySet' = keySet /\ fetchedAt' = fetchedAt /\ fetchSince' = fetchSince
      /\ UNCHANGED <<now, idp>> /\ UNCHANGED request
      /\ publishedAt' = publishedAt /\ retiredAt' = retiredAt
    BY <1>2 DEF ProviderReplies, idp
<1>4. Later /\ now' \in 0..MaxTime
    BY <1>1, <1>3, StillLater
<1>5. TypeOK'
    <2>1. set \in SUBSET Kids
        BY <1>2 DEF Published
    <2>2. reply' \in [Resolvers -> {<<>>} \cup {<<s>> : s \in SUBSET Kids}]
        BY <1>1, <1>3, <2>1 DEF TypeOK
    <2>3. QED
        BY <1>1, <1>3, <2>2 DEF TypeOK, request
<1>6. KeysFrom(set, fetchSince[v])
    <2>1. now \in Nat /\ now < Never /\ fetchSince[v] \in Int /\ fetchSince[v] <= now
        BY <1>1, TimeAssumption DEF TypeOK, KeysInv, Never
    <2>2. \A k \in Kids : publishedAt[k] \in Int /\ retiredAt[k] \in Int
        BY <1>1 DEF TypeOK
    <2>3. QED
        BY <1>2, <2>1, <2>2 DEF KeysFrom, Published
<1>7. KeysInv'
    <2>1. \A u \in Resolvers : reply'[u] # <<>> => reply'[u] = reply[u] \/ (u = v /\ reply'[u][1] = set)
        BY <1>1, <1>3 DEF TypeOK
    <2>2. \A some, t : KeysFrom(some, t)' = KeysFrom(some, t)
        BY <1>3 DEF KeysFrom
    <2>3. QED
        BY <1>1, <1>3, <1>6, <2>1, <2>2 DEF KeysInv
<1>8. QED
    BY <1>1, <1>3, <1>4, <1>5, <1>7, RequestsKept DEF AuthInv

\* Who waits for the keys of an issuer is tried against a method that reads them.
LEMMA WaitingForKeys ==
    ASSUME AuthInv, NEW v \in Resolvers, NEW r \in Waiting(v)
    PROVE  /\ r \in Requests /\ Trying(r) /\ Method(r) = v[1] /\ Method(r) \in Methods
           /\ ReadsKeySet(Method(r), offer[r])
<1>1. r \in Requests /\ pc[r] = "fetching" /\ <<Method(r), offer[r].iss>> = v
    BY DEF Waiting, Method
<1>2. RequestOK(r)
    BY <1>1 DEF AuthInv, RequestInv
<1>3. QED
    BY <1>1, <1>2 DEF RequestOK, TryingInv, FetchingInv, Trying, Method

LEMMA FetchEndsInv ==
    ASSUME AuthInv, NEW v \in Resolvers, FetchEnds(v)
    PROVE  AuthInv'
<1>1. TypeOK /\ KeysInv /\ RequestInv
    BY DEF AuthInv
<1>2. PICK set \in SUBSET Kids : reply[v] = <<set>> /\ reply[v][1] = set
    BY <1>1 DEF TypeOK, FetchEnds
<1>3. PICK verdicts : verdicts = [r \in Waiting(v) |-> JudgedBy(v[1], offer[r], set)]
    OBVIOUS
<1>4. /\ keySet' = [keySet EXCEPT ![v] = set] /\ fetchedAt' = [fetchedAt EXCEPT ![v] = now]
      /\ fetchSince' = [fetchSince EXCEPT ![v] = -1] /\ reply' = [reply EXCEPT ![v] = <<>>]
      /\ Settle(verdicts) /\ UNCHANGED <<now, idp>>
      /\ now' = now /\ publishedAt' = publishedAt /\ retiredAt' = retiredAt
    BY <1>2, <1>3 DEF FetchEnds, idp
<1>5. Judges(verdicts)
    <2>1. ASSUME NEW r \in Waiting(v)
          PROVE  /\ r \in Requests /\ Trying(r) /\ Method(r) \in Methods
                 /\ Sound(Method(r), offer[r], verdicts[r])
        <3>1. /\ r \in Requests /\ Trying(r) /\ Method(r) = v[1] /\ Method(r) \in Methods
              /\ ReadsKeySet(Method(r), offer[r])
            BY WaitingForKeys
        <3>2. Sound(Method(r), offer[r], JudgedBy(Method(r), offer[r], reply[v][1]))
            BY <1>1, <1>2, <3>1, FetchedSound
        <3>3. QED
            BY <1>2, <1>3, <3>1, <3>2
    <2>2. DOMAIN verdicts = Waiting(v)
        BY <1>3
    <2>3. QED
        BY <2>1, <2>2 DEF Judges
<1>6. TypeOK'
    <2>1. /\ keySet' \in [Resolvers -> SUBSET Kids]
          /\ fetchedAt' \in [Resolvers -> -1..MaxTime] /\ fetchSince' \in [Resolvers -> -1..MaxTime]
        BY <1>1, <1>4, TimeAssumption DEF TypeOK
    <2>2. reply' \in [Resolvers -> {<<>>} \cup {<<s>> : s \in SUBSET Kids}]
        BY <1>1, <1>4 DEF TypeOK
    <2>3. QED
        BY <1>1, <1>4, <1>5, <2>1, <2>2, SettleKeepsTypes
<1>7. KeysFrom(set, now - Timeout)
    <2>1. KeysFrom(set, fetchSince[v]) /\ fetchSince[v] # -1 /\ now <= fetchSince[v] + Timeout
        BY <1>1, <1>2 DEF KeysInv
    <2>2. fetchSince[v] \in Int /\ now \in Int /\ Timeout \in Int
        BY <1>1, TimeAssumption DEF TypeOK
    <2>3. PICK t \in Int, u \in Int : t = fetchSince[v] /\ u = now - Timeout
        BY <2>2
    <2>4. u <= t
        BY <2>1, <2>2, <2>3
    <2>5. QED
        BY <1>1, <2>1, <2>3, <2>4, KeysFromEarlier
<1>8. KeysInv'
    <2>1. \A some, t : KeysFrom(some, t)' = KeysFrom(some, t)
        BY <1>4 DEF KeysFrom
    <2>2. ASSUME NEW u \in Resolvers, u # v
          PROVE  /\ keySet'[u] = keySet[u] /\ fetchedAt'[u] = fetchedAt[u]
                 /\ fetchSince'[u] = fetchSince[u] /\ reply'[u] = reply[u]
        BY <1>1, <1>4, <2>2 DEF TypeOK
    <2>3. /\ keySet'[v] = set /\ fetchedAt'[v] = now /\ fetchSince'[v] = -1 /\ reply'[v] = <<>>
          /\ now \in Nat
        BY <1>1, <1>4, TimeAssumption DEF TypeOK
    <2>4. QED
        BY <1>1, <1>4, <1>7, <2>1, <2>2, <2>3 DEF KeysInv
<1>9. QED
    BY <1>1, <1>4, <1>5, <1>6, <1>8, SettleKeeps DEF AuthInv

LEMMA FetchFailsInv ==
    ASSUME AuthInv, NEW v \in Resolvers, FetchFails(v)
    PROVE  AuthInv'
<1>1. TypeOK /\ KeysInv /\ RequestInv
    BY DEF AuthInv
<1>2. PICK verdicts : verdicts = [r \in Waiting(v) |-> "indeterminate"]
    OBVIOUS
<1>3. /\ fetchSince' = [fetchSince EXCEPT ![v] = -1] /\ reply' = [reply EXCEPT ![v] = <<>>]
      /\ Settle(verdicts) /\ keySet' = keySet /\ fetchedAt' = fetchedAt /\ UNCHANGED <<now, idp>>
      /\ now' = now /\ publishedAt' = publishedAt /\ retiredAt' = retiredAt
    BY <1>2 DEF FetchFails, idp
<1>4. Judges(verdicts)
    <2>1. \A m, o : Sound(m, o, "indeterminate")
        BY DEF Sound, Reasons
    <2>2. DOMAIN verdicts = Waiting(v) /\ \A r \in Waiting(v) : verdicts[r] = "indeterminate"
        BY <1>2
    <2>3. QED
        BY <2>1, <2>2, WaitingForKeys DEF Judges
<1>5. TypeOK'
    <2>1. fetchSince' \in [Resolvers -> -1..MaxTime]
        BY <1>1, <1>3, TimeAssumption DEF TypeOK
    <2>2. reply' \in [Resolvers -> {<<>>} \cup {<<s>> : s \in SUBSET Kids}]
        BY <1>1, <1>3 DEF TypeOK
    <2>3. keySet' \in [Resolvers -> SUBSET Kids] /\ fetchedAt' \in [Resolvers -> -1..MaxTime]
        BY <1>1, <1>3 DEF TypeOK
    <2>4. QED
        BY <1>1, <1>3, <1>4, <2>1, <2>2, <2>3, SettleKeepsTypes
<1>6. KeysInv'
    <2>1. \A some, t : KeysFrom(some, t)' = KeysFrom(some, t)
        BY <1>3 DEF KeysFrom
    <2>2. ASSUME NEW u \in Resolvers, u # v
          PROVE  fetchSince'[u] = fetchSince[u] /\ reply'[u] = reply[u]
        BY <1>1, <1>3, <2>2 DEF TypeOK
    <2>3. fetchSince'[v] = -1 /\ reply'[v] = <<>> /\ now \in Nat
        BY <1>1, <1>3, TimeAssumption DEF TypeOK
    <2>4. QED
        BY <1>1, <1>3, <2>1, <2>2, <2>3 DEF KeysInv
<1>7. QED
    BY <1>1, <1>3, <1>4, <1>5, <1>6, SettleKeeps DEF AuthInv

LEMMA PublishInv ==
    ASSUME AuthInv, NEW k \in Kids, Publish(k)
    PROVE  AuthInv'
<1>1. TypeOK /\ KeysInv /\ RequestInv
    BY DEF AuthInv
<1>2. /\ publishedAt[k] = Never /\ publishedAt' = [publishedAt EXCEPT ![k] = now]
      /\ now' = now /\ retiredAt' = retiredAt /\ UNCHANGED keys /\ UNCHANGED request
    BY DEF Publish
<1>3. now \in 0..MaxTime /\ MaxTime \in Nat /\ now \in 0..Never
    BY <1>1, TimeAssumption DEF TypeOK, Never
<1>4. Later /\ now' \in 0..MaxTime
    BY <1>1, <1>2, <1>3 DEF Later, TypeOK
<1>5. TypeOK'
    BY <1>1, <1>2, <1>3 DEF TypeOK, keys, request
<1>6. KeysInv'
    BY <1>1, <1>2, <1>3, <1>4, KeysKept DEF KeysInv, TypeOK
<1>7. QED
    BY <1>1, <1>2, <1>4, <1>5, <1>6, RequestsKept DEF AuthInv

LEMMA RetireInv ==
    ASSUME AuthInv, NEW k \in Kids, Retire(k)
    PROVE  AuthInv'
<1>1. TypeOK /\ KeysInv /\ RequestInv
    BY DEF AuthInv
<1>2. /\ retiredAt[k] = Never /\ retiredAt' = [retiredAt EXCEPT ![k] = now]
      /\ now' = now /\ publishedAt' = publishedAt /\ UNCHANGED keys /\ UNCHANGED request
    BY DEF Retire
<1>3. now \in 0..MaxTime /\ MaxTime \in Nat /\ now \in 0..Never
    BY <1>1, TimeAssumption DEF TypeOK, Never
<1>4. Later /\ now' \in 0..MaxTime
    BY <1>1, <1>2, <1>3 DEF Later, TypeOK
<1>5. TypeOK'
    BY <1>1, <1>2, <1>3 DEF TypeOK, keys, request
<1>6. KeysInv'
    BY <1>1, <1>2, <1>3, <1>4, KeysKept DEF KeysInv
<1>7. QED
    BY <1>1, <1>2, <1>4, <1>5, <1>6, RequestsKept DEF AuthInv

LEMMA TickInv ==
    ASSUME AuthInv, Tick
    PROVE  AuthInv'
<1>1. TypeOK /\ KeysInv /\ RequestInv
    BY DEF AuthInv
<1>2. /\ now < MaxTime /\ now' = now + 1
      /\ \A v \in Resolvers : fetchSince[v] # -1 => now < fetchSince[v] + Timeout
      /\ publishedAt' = publishedAt /\ retiredAt' = retiredAt /\ UNCHANGED keys /\ UNCHANGED request
    BY DEF Tick, idp
<1>3. now \in 0..MaxTime /\ MaxTime \in Nat /\ Timeout \in Nat
    BY <1>1, TimeAssumption DEF TypeOK
<1>4. Later /\ now' \in 0..MaxTime
    BY <1>1, <1>2, <1>3 DEF Later
<1>5. TypeOK'
    BY <1>1, <1>2, <1>4 DEF TypeOK, keys, request
<1>6. /\ \A k \in Kids : publishedAt'[k] # Never => publishedAt'[k] <= now'
      /\ \A v \in Resolvers : fetchSince[v] # -1 => now' <= fetchSince[v] + Timeout
    BY <1>1, <1>2, <1>3 DEF KeysInv, TypeOK
<1>7. KeysInv'
    BY <1>1, <1>2, <1>4, <1>6, KeysKept
<1>8. QED
    BY <1>1, <1>2, <1>4, <1>5, <1>7, RequestsKept DEF AuthInv

LEMMA StutterInv ==
    ASSUME AuthInv, UNCHANGED vars
    PROVE  AuthInv'
<1>1. TypeOK /\ KeysInv /\ RequestInv
    BY DEF AuthInv
<1>2. UNCHANGED <<now, idp>> /\ UNCHANGED keys /\ UNCHANGED request /\ now' = now
      /\ publishedAt' = publishedAt
    BY DEF vars, idp
<1>3. Later /\ now' \in 0..MaxTime
    BY <1>1, <1>2, StillLater
<1>4. TypeOK'
    BY <1>1, <1>2 DEF TypeOK, idp, keys, request
<1>5. KeysInv'
    BY <1>1, <1>2, <1>3, KeysKept DEF KeysInv
<1>6. QED
    BY <1>1, <1>2, <1>3, <1>4, <1>5, RequestsKept DEF AuthInv

LEMMA AuthSteps == AuthInv /\ [Next]_vars => AuthInv'
<1>1. SUFFICES ASSUME AuthInv, [Next]_vars PROVE AuthInv'
    OBVIOUS
<1>2. ASSUME NEW r \in Requests, Proceed(r) PROVE AuthInv'
    BY <1>1, <1>2, ArriveInv, VerifyInv, AwaitKeysInv DEF Proceed
<1>3. ASSUME NEW v \in Resolvers, ProviderReplies(v) \/ FetchEnds(v) \/ FetchFails(v) PROVE AuthInv'
    BY <1>1, <1>3, ProviderRepliesInv, FetchEndsInv, FetchFailsInv
<1>4. ASSUME NEW k \in Kids, Publish(k) \/ Retire(k) PROVE AuthInv'
    BY <1>1, <1>4, PublishInv, RetireInv
<1>5. QED
    BY <1>1, <1>2, <1>3, <1>4, TickInv, StutterInv DEF Next

LEMMA Invariant == Spec => []AuthInv
BY AuthStarts, AuthSteps, PTL DEF Spec

-----------------------------------------------------------------------------
\* The theorems.

\* Every variable keeps its type; in particular a request ends with one of the
\* answers the guard gives.
THEOREM AuthTypes == Spec => []TypeOK
<1>1. AuthInv => TypeOK
    BY DEF AuthInv
<1>2. QED
    BY <1>1, Invariant, PTL

\* Whatever methods, issuers, keys and routes are configured, whoever calls with
\* whatever credential, and however the provider's keys rotate: the handler of a
\* guarded route runs only for a genuine token of a method the nearest
\* @Authenticate names, with a role of every @RequireRoles, and on a retired key
\* no longer than the key set's life and one timeout.
THEOREM OnlySoundlyAdmitted == Spec => []AdmittedSoundly
<1>1. AuthInv => AdmittedSoundly
    <2> SUFFICES ASSUME AuthInv
                 PROVE  \A r \in Requests : status[r] = 200 /\ ~ Opened(route[r]) =>
                            \E i \in 1..Len(Chain(route[r])) :
                                LET m == Chain(route[r])[i]
                                    o == offer[r]
                                    named == Nearest(route[r], "Authenticate").methods
                                IN  /\ Genuine(m, o, answeredAt[r])
                                    /\ HasRow(m, o.iss, "value")
                                       \/ answeredAt[r] < retiredAt[o.signer] + Ttl + Timeout
                                    /\ \A anyOf \in RolesAsked(route[r]) :
                                           anyOf \cap Claimed(o, RowFor(m, o.iss).rolesClaim) # {}
                                    /\ \E j \in DOMAIN named : named[j] = m
        BY DEF AdmittedSoundly
    <2> TAKE r \in Requests
    <2>1. HAVE status[r] = 200 /\ ~ Opened(route[r])
    <2>2. RouteKept(route[r]) /\ AdmittedInv(r)
        BY <2>1, RoutesKept DEF AuthInv, RequestInv, RequestOK
    <2>3. PICK i \in 1..Len(Chain(route[r])) :
              /\ Believed(Chain(route[r])[i], offer[r], answeredAt[r])
              /\ RoleStatus(route[r], offer[r], RowFor(Chain(route[r])[i], offer[r].iss)) = 200
        BY <2>1, <2>2 DEF AdmittedInv
    <2>4. PICK m, o, named : /\ m = Chain(route[r])[i] /\ o = offer[r]
                             /\ named = Nearest(route[r], "Authenticate").methods
        OBVIOUS
    <2>5. \A anyOf \in RolesAsked(route[r]) : anyOf \cap Claimed(o, RowFor(m, o.iss).rolesClaim) # {}
        BY <2>2, <2>3, <2>4, RoleStatusIs
    <2>6. \E j \in DOMAIN named : named[j] = m
        BY <2>1, <2>2, <2>4, ChainNamed
    <2>7. Genuine(m, o, answeredAt[r])
          /\ (HasRow(m, o.iss, "value") \/ answeredAt[r] < retiredAt[o.signer] + Ttl + Timeout)
        BY <2>3, <2>4 DEF Believed
    <2>8. QED
        BY <2>4, <2>5, <2>6, <2>7
<1>2. QED
    BY <1>1, Invariant, PTL

\* However the decorators of method and class are stacked, the document tells
\* every refusal a caller meets and every role that is since for, and an open
\* operation carries neither padlock nor refusal.
THEOREM DocumentTells == Spec => []DocumentedAsGuarded
<1>1. AuthInv => DocumentedAsGuarded
    <2>1. SUFFICES ASSUME AuthInv, NEW r \in Requests, pc[r] = "answered"
                   PROVE  /\ status[r] \in {401, 403, 503} => status[r] \in route[r].responses
                          /\ route[r].security = IF Opened(route[r]) THEN "none" ELSE "bearer"
                          /\ route[r].described = IF Opened(route[r]) THEN {} ELSE RolesAsked(route[r])
                          /\ Opened(route[r]) => route[r].responses = {}
        BY DEF DocumentedAsGuarded
    <2>2. PICK rt : rt = route[r]
        OBVIOUS
    <2>3. RouteKept(rt) /\ PhaseInv(r)
        BY <2>1, <2>2, RoutesKept DEF AuthInv, RequestInv, RequestOK
    <2>4. /\ status[r] \in {401, 403, 503} => ~ Opened(rt)
          /\ status[r] = 403 => RolesAsked(rt) # {}
        BY <2>1, <2>2, <2>3 DEF PhaseInv
    <2>5. CASE Opened(rt)
        BY <2>2, <2>3, <2>4, <2>5 DEF RouteKept
    <2>6. CASE ~ Opened(rt)
        <3>1. /\ rt.security = "bearer" /\ {401, 503} \subseteq rt.responses
              /\ rt.described = RolesAsked(rt)
              /\ RolesAsked(rt) # {} => 403 \in rt.responses
            BY <2>3, <2>6 DEF RouteKept
        <3>2. status[r] \in {401, 403, 503} => status[r] \in rt.responses
            BY <2>4, <3>1
        <3>3. QED
            BY <2>2, <2>6, <3>1, <3>2
    <2>7. QED
        BY <2>5, <2>6
<1>2. QED
    BY <1>1, Invariant, PTL

\* Whatever outage, rotation or cooldown comes between, a token that is good, and
\* whose key had been published for the cooldown and one timeout, is never
\* refused as a bad credential.
THEOREM NobodyBlamedForOurTrouble == Spec => []GoodTokenNotBlamed
<1>1. AuthInv => GoodTokenNotBlamed
    <2>1. SUFFICES ASSUME AuthInv, NEW r \in Requests, status[r] = 401
                   PROVE  /\ Len(failures[r]) = Len(Chain(route[r]))
                          /\ \A i \in 1..Len(failures[r]) :
                                 ~ Good(Chain(route[r])[i], offer[r], failures[r][i].at)
        BY DEF GoodTokenNotBlamed, Good
    <2>2. RefusedInv(r)
        BY <2>1 DEF AuthInv, RequestInv, RequestOK
    <2>3. QED
        BY <2>1, <2>2 DEF RefusedInv
<1>2. QED
    BY <1>1, Invariant, PTL

-----------------------------------------------------------------------------
Seen(p) == \E i \in DOMAIN seen : seen[i] = p
Queued(p) == \E i \in DOMAIN outbox : outbox[i] = p
Tells(p) == p.kind = "answer" /\ p.text # "error" /\ Payload[p.of] # "action"

\* What went out over this connection, the broker has received.
SentSeen == \A i \in 1..sent : Seen(outbox[i])

\* A command that was carried out has told its value, unless the client is ended.
DoneTold ==
    \A c \in Commands : at[c] = "done" /\ Payload[c] # "action" /\ config.mqtt =>
        destroyed \/ ~ config.enabled \/ Seen(Notification(c)) \/ Queued(Notification(c))

\* Before an answer that tells a value comes its notification.
OutboxInOrder ==
    config.mqtt =>
        \A i \in DOMAIN outbox : Tells(outbox[i]) =>
            \/ Seen(Notification(outbox[i].of))
            \/ \E j \in 1..i : outbox[j] = Notification(outbox[i].of)

\* Before an answer the broker has received it has received the notification.
SeenInOrder ==
    config.mqtt =>
        \A i \in DOMAIN seen : Tells(seen[i]) =>
            \E j \in 1..i : seen[j] = Notification(seen[i].of)

CommandPlaces == {"unsent", "flying", "lost", "ignored", "running", "done", "refused", "answered"}

Startup == boot = "starting" => errors < MAX_STARTUP_ERRORS

BridgeInv == BridgeTypeOK /\ Startup /\ SentSeen /\ DoneTold /\ OutboxInOrder /\ SeenInOrder

-----------------------------------------------------------------------------
\* What the type invariant says of the packets.
LEMMA PacketsTyped ==
    ASSUME BridgeInv
    PROVE  \E n \in Nat, l \in Nat :
               /\ outbox \in Seq(Packet) /\ l = Len(outbox) /\ DOMAIN outbox = 1..l
               /\ seen \in Seq(Packet) /\ n = Len(seen) /\ DOMAIN seen = 1..n
               /\ sent \in Nat /\ sent <= l
<1>1. outbox \in Seq(Packet) /\ seen \in Seq(Packet) /\ sent \in 0..Len(outbox)
    BY DEF BridgeInv, BridgeTypeOK
<1>2. Len(outbox) \in Nat /\ DOMAIN outbox = 1..Len(outbox) /\ Len(seen) \in Nat /\ DOMAIN seen = 1..Len(seen)
    BY <1>1
<1>3. sent \in Nat /\ sent <= Len(outbox)
    BY <1>1, <1>2
<1>4. QED
    BY <1>1, <1>2, <1>3

LEMMA BridgeStarts == BridgeInit => BridgeInv
<1>1. SUFFICES ASSUME BridgeInit PROVE BridgeInv
    OBVIOUS
<1>2. /\ outbox = <<>> /\ seen = <<>> /\ observed = <<>> /\ sent = 0 /\ posts = {}
      /\ errors = 0 /\ drops = 0 /\ boot \in {"starting", "ready", "failed"}
      /\ connected = FALSE /\ destroyed = FALSE /\ listening = FALSE /\ asked = FALSE
      /\ subscribed = FALSE /\ deniedIn = -1 /\ at = [c \in Commands |-> "unsent"]
    BY <1>1 DEF BridgeInit
<1>3. config \in [enabled : BOOLEAN, topicPrefix : {"", "home", "home/"},
                  http : BOOLEAN, mqtt : BOOLEAN]
    BY <1>1 DEF BridgeInit
<1>4. BridgeTypeOK /\ Startup
    <2>1. /\ outbox \in Seq(Packet) /\ seen \in Seq(Packet) /\ observed \in Seq(Values)
          /\ sent \in 0..Len(outbox)
        BY <1>2
    <2>2. errors \in 0..MAX_STARTUP_ERRORS /\ drops \in 0..MaxDrops /\ deniedIn \in -1..MaxDrops
          /\ errors < MAX_STARTUP_ERRORS
        BY <1>2, BridgeAssumption
    <2>3. at \in [Commands -> {"unsent", "flying", "lost", "ignored", "running", "done",
                               "refused", "answered"}]
        BY <1>2
    <2>4. QED
        BY <1>2, <1>3, <2>1, <2>2, <2>3 DEF BridgeTypeOK, Startup
<1>5. SentSeen /\ DoneTold /\ OutboxInOrder /\ SeenInOrder
    <2>1. 1..sent = {} /\ DOMAIN outbox = {} /\ DOMAIN seen = {}
        BY <1>2
    <2>2. QED
        BY <1>2, <2>1 DEF SentSeen, DoneTold, OutboxInOrder, SeenInOrder
<1>6. QED
    BY <1>4, <1>5 DEF BridgeInv

\* The packets.
LEMMA PacketsAre ==
    /\ \A v \in Values : Notification(v) \in Packet /\ ~ Tells(Notification(v))
    /\ \A c \in Commands, text \in {"", "value", "error"} :
           /\ Answer(c, text) \in Packet /\ Answer(c, text).of = c
           /\ Tells(Answer(c, text)) <=> text # "error" /\ Payload[c] # "action"
BY DEF Notification, Answer, Packet, Values, Tells

\* Publishing one packet appends it.
LEMMA OneAppended ==
    ASSUME NEW s \in Seq(Packet), NEW p \in Packet
    PROVE  s \o <<p>> = Append(s, p) /\ s \o <<>> = s
OBVIOUS

\* Steps that leave the packets alone, but for those a loss sends again.
LEMMA PacketsKept ==
    ASSUME BridgeInv, outbox' = outbox, seen' = seen, sent' \in {0, sent}, config' = config,
           destroyed => destroyed',
           \A c \in Commands : at'[c] = "done" => at[c] = "done"
    PROVE  SentSeen' /\ DoneTold' /\ OutboxInOrder' /\ SeenInOrder'
<1>1. \A p : Seen(p)' = Seen(p) /\ Queued(p)' = Queued(p)
    BY DEF Seen, Queued
<1>2. SentSeen'
    BY <1>1 DEF BridgeInv, SentSeen
<1>3. DoneTold'
    BY <1>1 DEF BridgeInv, DoneTold
<1>4. OutboxInOrder' /\ SeenInOrder'
    BY <1>1 DEF BridgeInv, OutboxInOrder, SeenInOrder
<1>5. QED
    BY <1>2, <1>3, <1>4

\* What a step off the link has to show for the types.
LEMMA TypesKept ==
    ASSUME BridgeInv, UNCHANGED <<config, link>>,
           at' \in [Commands -> CommandPlaces], outbox' \in Seq(Packet), sent' \in 0..Len(outbox'),
           seen' \in Seq(Packet), posts' \subseteq Values, observed' \in Seq(Values)
    PROVE  BridgeTypeOK' /\ Startup'
<1>1. BridgeTypeOK /\ Startup
    BY DEF BridgeInv
<1>2. BridgeTypeOK'
    <2>1. /\ config' = config /\ boot' = boot /\ errors' = errors /\ connected' = connected
          /\ drops' = drops /\ destroyed' = destroyed /\ listening' = listening
          /\ asked' = asked /\ subscribed' = subscribed /\ deniedIn' = deniedIn
        BY DEF link
    <2>2. QED
        BY <1>1, <2>1 DEF BridgeTypeOK, CommandPlaces
<1>3. Startup'
    BY <1>1 DEF Startup, link
<1>4. QED
    BY <1>2, <1>3

\* A step that publishes nothing leaves the rest to the place of the commands.
LEMMA QuietStep ==
    ASSUME BridgeInv, UNCHANGED <<config, link, outbox, sent, seen>>,
           at' \in [Commands -> CommandPlaces], posts' \subseteq Values, observed' \in Seq(Values), DoneTold'
    PROVE  BridgeInv'
<1>1. outbox \in Seq(Packet) /\ sent \in 0..Len(outbox) /\ seen \in Seq(Packet)
    BY DEF BridgeInv, BridgeTypeOK
<1>2. outbox' \in Seq(Packet) /\ seen' \in Seq(Packet)
    BY <1>1
<1>3. sent' \in 0..Len(outbox')
    BY <1>1
<1>4. BridgeTypeOK' /\ Startup'
    BY <1>2, <1>3, TypesKept
<1>5. \A q : Seen(q)' = Seen(q)
    BY DEF Seen
<1>6. SentSeen' /\ OutboxInOrder' /\ SeenInOrder'
    BY <1>5 DEF BridgeInv, SentSeen, OutboxInOrder, SeenInOrder, Tells, Notification
<1>7. QED
    BY <1>4, <1>6 DEF BridgeInv

LEMMA LinkInv ==
    ASSUME BridgeInv,
           \/ Connect \/ ConnectError \/ Drop \/ Start \/ Subscribed \/ SubscribeFails \/ Destroy
    PROVE  BridgeInv'
<1>1. /\ outbox' = outbox /\ seen' = seen /\ sent' \in {0, sent} /\ config' = config
      /\ destroyed => destroyed'
      /\ posts' = posts /\ observed' = observed
      /\ at' = at \/ at' = [c \in Commands |-> IF at[c] = "flying" THEN "lost" ELSE at[c]]
    BY DEF Connect, ConnectError, Drop, Start, Subscribed, SubscribeFails, Destroy, out,
       BridgeInv, BridgeTypeOK
<1>2. /\ \A c \in Commands : at'[c] = "done" => at[c] = "done"
      /\ at' \in [Commands -> {"unsent", "flying", "lost", "ignored", "running", "done",
                             "refused", "answered"}]
    BY <1>1 DEF BridgeInv, BridgeTypeOK
<1>3. SentSeen' /\ DoneTold' /\ OutboxInOrder' /\ SeenInOrder'
    BY <1>1, <1>2, PacketsKept
<1>4. sent' \in 0..Len(outbox')
    BY <1>1, PacketsTyped
<1>5. /\ boot' \in {"starting", "ready", "failed"} /\ errors' \in 0..MAX_STARTUP_ERRORS
      /\ connected' \in BOOLEAN /\ destroyed' \in BOOLEAN /\ listening' \in BOOLEAN
      /\ asked' \in BOOLEAN /\ subscribed' \in BOOLEAN /\ drops' \in 0..MaxDrops
      /\ deniedIn' \in -1..MaxDrops /\ Startup'
    <2>1. /\ boot \in {"starting", "ready", "failed"} /\ errors \in 0..MAX_STARTUP_ERRORS
          /\ connected \in BOOLEAN /\ destroyed \in BOOLEAN /\ listening \in BOOLEAN
          /\ asked \in BOOLEAN /\ subscribed \in BOOLEAN /\ drops \in 0..MaxDrops
          /\ deniedIn \in -1..MaxDrops
          /\ boot = "starting" => errors < MAX_STARTUP_ERRORS
        BY DEF BridgeInv, BridgeTypeOK, Startup
    <2>2. CASE Connect
        BY <2>1, <2>2 DEF Connect, Startup
    <2>3. CASE ConnectError
        BY <2>1, <2>3, BridgeAssumption DEF ConnectError, Startup
    <2>4. CASE Drop
        <3>1. drops' \in 0..MaxDrops
            BY <2>1, <2>4, BridgeAssumption DEF Drop
        <3>2. QED
            BY <2>1, <2>4, <3>1 DEF Drop, Startup
    <2>5. CASE Start
        BY <2>1, <2>5 DEF Start, Startup
    <2>6. CASE Subscribed
        BY <2>1, <2>6 DEF Subscribed, Startup
    <2>7. CASE Destroy
        BY <2>1, <2>7 DEF Destroy, Startup
    <2>8. CASE SubscribeFails
        <3>1. deniedIn' \in -1..MaxDrops
            BY <2>1, <2>8, BridgeAssumption DEF SubscribeFails
        <3>2. QED
            BY <2>1, <2>8, <3>1 DEF SubscribeFails, Startup
    <2>9. QED
        BY <2>2, <2>3, <2>4, <2>5, <2>6, <2>7, <2>8
<1>6. BridgeTypeOK'
    BY <1>1, <1>2, <1>4, <1>5 DEF BridgeInv, BridgeTypeOK
<1>7. QED
    BY <1>3, <1>5, <1>6 DEF BridgeInv

LEMMA TransmitInv ==
    ASSUME BridgeInv, Transmit
    PROVE  BridgeInv'
<1>1. PICK n \in Nat, l \in Nat :
          /\ outbox \in Seq(Packet) /\ l = Len(outbox) /\ DOMAIN outbox = 1..l
          /\ seen \in Seq(Packet) /\ n = Len(seen) /\ DOMAIN seen = 1..n
          /\ sent \in Nat /\ sent <= l
    BY PacketsTyped
<1>2. PICK p \in Packet : p = outbox[sent + 1] /\ sent + 1 \in DOMAIN outbox /\ sent < l
    BY <1>1 DEF Transmit
<1>3. /\ sent' = sent + 1 /\ outbox' = outbox /\ seen' = Append(seen, p) /\ config' = config /\ at' = at
      /\ UNCHANGED <<config, link, at, outbox, posts, observed>>
    BY <1>2 DEF Transmit
<1>4. /\ DOMAIN seen' = 1..n + 1 /\ seen'[n + 1] = p /\ seen' \in Seq(Packet)
      /\ \A i \in 1..n : seen'[i] = seen[i]
    BY <1>1, <1>2, <1>3
<1>5. (\A q : Seen(q) => Seen(q)') /\ Seen(p)'
    <2>1. n + 1 \in 1..n + 1 /\ \A i \in 1..n : i \in 1..n + 1
        OBVIOUS
    <2>2. QED
        BY <1>1, <1>4, <2>1 DEF Seen
<1>6. BridgeTypeOK'
    <2>1. sent' \in 0..Len(outbox')
        BY <1>1, <1>2, <1>3
    <2>2. QED
        BY <1>3, <1>4, <2>1 DEF BridgeInv, BridgeTypeOK, link
<1>7. SentSeen'
    <2>1. ASSUME NEW i \in 1..sent + 1 PROVE Seen(outbox[i])'
        <3>1. i = sent + 1 \/ i \in 1..sent
            BY <1>1
        <3>2. Seen(outbox[i]) \/ outbox[i] = p
            BY <1>2, <3>1 DEF BridgeInv, SentSeen
        <3>3. PICK q : q = outbox[i]
            OBVIOUS
        <3>4. Seen(q)'
            BY <1>5, <3>2, <3>3
        <3>5. QED
            BY <1>3, <3>3, <3>4
    <2>2. QED
        BY <1>3, <2>1 DEF SentSeen
<1>8. DoneTold'
    BY <1>3, <1>5 DEF BridgeInv, DoneTold, Queued, Notification, link
<1>9. OutboxInOrder'
    BY <1>3, <1>5 DEF BridgeInv, OutboxInOrder, Notification
<1>10. SeenInOrder'
    <2>1. SUFFICES ASSUME config.mqtt, NEW i \in 1..n + 1, Tells(seen'[i])
                   PROVE  \E j \in 1..i : seen'[j] = Notification(seen'[i].of)
        BY <1>3, <1>4 DEF SeenInOrder, Tells, Notification
    <2>2. CASE i \in 1..n
        <3>1. Tells(seen[i]) /\ seen'[i] = seen[i]
            BY <1>4, <2>1, <2>2
        <3>2. PICK j \in 1..i : seen[j] = Notification(seen[i].of)
            BY <1>1, <2>1, <2>2, <3>1 DEF BridgeInv, SeenInOrder
        <3>3. j \in 1..n
            BY <2>2
        <3>4. QED
            BY <1>4, <3>1, <3>2, <3>3
    <2>3. CASE i = n + 1
        <3>1. PICK told : told = Notification(p.of)
            OBVIOUS
        <3>2. p # told
            BY <1>4, <2>1, <2>3, <3>1 DEF Tells, Notification
        <3>3. Tells(outbox[sent + 1])
            BY <1>2, <1>4, <2>1, <2>3
        <3>4. Seen(told) \/ \E j \in 1..sent + 1 : outbox[j] = told
            BY <1>2, <2>1, <3>1, <3>3 DEF BridgeInv, OutboxInOrder
        <3>5. ASSUME NEW j \in 1..sent + 1, outbox[j] = told PROVE Seen(told)
            <4>1. j # sent + 1
                BY <1>2, <3>2, <3>5
            <4>2. j \in 1..sent
                BY <1>1, <4>1
            <4>3. QED
                BY <3>5, <4>2 DEF BridgeInv, SentSeen
        <3>6. PICK j \in 1..n : seen[j] = told
            BY <1>1, <3>4, <3>5 DEF Seen
        <3>7. j \in 1..i /\ seen'[j] = told
            BY <1>4, <2>3, <3>6
        <3>8. QED
            BY <1>4, <2>3, <3>1, <3>7
    <2>4. i \in 1..n \/ i = n + 1
        OBVIOUS
    <2>5. QED
        BY <2>2, <2>3, <2>4
<1>11. Startup'
    BY <1>3 DEF BridgeInv, Startup, link
<1>12. QED
    BY <1>6, <1>7, <1>8, <1>9, <1>10, <1>11 DEF BridgeInv

LEMMA AcknowledgedInv ==
    ASSUME BridgeInv, Acknowledged
    PROVE  BridgeInv'
<1>1. PICK l \in Nat : /\ outbox \in Seq(Packet) /\ l = Len(outbox) /\ DOMAIN outbox = 1..l
                       /\ sent \in Nat /\ sent <= l
    BY PacketsTyped
<1>2. sent \in Nat \ {0} /\ sent <= l /\ l > 0
    BY <1>1 DEF Acknowledged
<1>3. /\ outbox' = Tail(outbox) /\ sent' = sent - 1 /\ seen' = seen /\ config' = config /\ at' = at
      /\ UNCHANGED <<config, link, at, seen, posts, observed>>
    BY DEF Acknowledged
<1>4. /\ outbox' \in Seq(Packet) /\ Len(outbox') = l - 1 /\ DOMAIN outbox' = 1..l - 1
      /\ \A i \in 1..l - 1 : outbox'[i] = outbox[i + 1]
    BY <1>1, <1>2, <1>3
<1>5. \A p : Seen(p)' = Seen(p)
    BY <1>3 DEF Seen
<1>6. Seen(outbox[1])
    BY <1>2 DEF BridgeInv, SentSeen
<1>7. BridgeTypeOK' /\ Startup'
    <2>1. sent' \in 0..Len(outbox')
        BY <1>2, <1>3, <1>4
    <2>2. QED
        BY <1>3, <1>4, <2>1 DEF BridgeInv, BridgeTypeOK, Startup, link
<1>8. SentSeen'
    <2>1. ASSUME NEW i \in 1..sent - 1 PROVE Seen(outbox[i + 1]) /\ outbox'[i] = outbox[i + 1]
        BY <1>2, <1>4 DEF BridgeInv, SentSeen
    <2>2. QED
        BY <1>3, <1>5, <2>1 DEF SentSeen
<1>9. ASSUME NEW p, NEW i \in 1..l, outbox[i] = p, ~ Seen(p)
      PROVE  i - 1 \in 1..l - 1 /\ outbox'[i - 1] = p
    <2>1. i # 1
        BY <1>6, <1>9
    <2>2. i - 1 \in 1..l - 1 /\ (i - 1) + 1 = i
        BY <2>1
    <2>3. QED
        BY <1>4, <1>9, <2>2
<1>10. DoneTold'
    <2>1. \A p : Queued(p) => Seen(p) \/ Queued(p)'
        BY <1>1, <1>4, <1>9 DEF Queued
    <2>2. QED
        BY <1>3, <1>5, <2>1 DEF BridgeInv, DoneTold, Notification, link
<1>11. OutboxInOrder'
    <2>1. SUFFICES ASSUME config.mqtt, NEW i \in 1..l - 1, Tells(outbox'[i]), NEW told,
                          told = Notification(outbox'[i].of), ~ Seen(told)
                   PROVE  \E j \in 1..i : outbox'[j] = told
        <3>1. config' = config /\ DOMAIN outbox' = 1..l - 1 /\ \A p : Seen(p)' = Seen(p)
            BY <1>3, <1>4, <1>5
        <3>2. QED
            BY <3>1 DEF OutboxInOrder, Tells, Notification
    <2>2. i + 1 \in 1..l /\ Tells(outbox[i + 1]) /\ told = Notification(outbox[i + 1].of)
        BY <1>2, <1>4, <2>1
    <2>3. PICK j \in 1..i + 1 : outbox[j] = told
        BY <1>1, <2>1, <2>2 DEF BridgeInv, OutboxInOrder
    <2>4. j \in 1..l
        BY <2>2
    <2>5. j - 1 \in 1..l - 1 /\ outbox'[j - 1] = told
        BY <1>9, <2>1, <2>3, <2>4
    <2>6. j - 1 \in 1..i
        BY <2>5
    <2>7. QED
        BY <2>5, <2>6
<1>12. SeenInOrder'
    BY <1>3 DEF BridgeInv, SeenInOrder, Tells, Notification
<1>13. QED
    BY <1>7, <1>8, <1>10, <1>11, <1>12 DEF BridgeInv

\* A packet is published: it goes to the end of the outbox, or nowhere once the
\* client is ended.
LEMMA OnePublished ==
    ASSUME BridgeInv, NEW p \in Packet, sent' = sent, seen' = seen, UNCHANGED <<config, link>>,
           outbox' = outbox \/ outbox' = Append(outbox, p),
           config.mqtt /\ Tells(p) /\ outbox' # outbox =>
               Seen(Notification(p.of)) \/ Queued(Notification(p.of))
    PROVE  /\ outbox' \in Seq(Packet) /\ sent' \in 0..Len(outbox')
           /\ SentSeen' /\ OutboxInOrder' /\ SeenInOrder' /\ Startup'
           /\ \A q : (Seen(q)' = Seen(q)) /\ (Queued(q) => Queued(q)')
           /\ outbox' = Append(outbox, p) => Queued(p)'
<1>1. PICK l \in Nat : /\ outbox \in Seq(Packet) /\ l = Len(outbox) /\ DOMAIN outbox = 1..l
                       /\ sent \in Nat /\ sent <= l
    BY PacketsTyped
<1>2. \A q : Seen(q)' = Seen(q)
    BY DEF Seen
<1>3. SeenInOrder' /\ Startup'
    BY DEF BridgeInv, SeenInOrder, Tells, Notification, Startup, link
<1>4. CASE outbox' = outbox
    <2>1. \A q : Queued(q)' = Queued(q)
        BY <1>4 DEF Queued
    <2>2. SentSeen' /\ OutboxInOrder'
        BY <1>2, <1>4 DEF BridgeInv, SentSeen, OutboxInOrder, Tells, Notification
    <2>3. outbox' # Append(outbox, p)
        <3>1. Len(Append(outbox, p)) = l + 1
            BY <1>1
        <3>2. QED
            BY <1>1, <1>4, <3>1
    <2>4. outbox' \in Seq(Packet) /\ sent' \in 0..Len(outbox')
        BY <1>1, <1>4
    <2>5. QED
        BY <1>2, <1>3, <2>1, <2>2, <2>3, <2>4
<1>5. CASE outbox' = Append(outbox, p) /\ outbox' # outbox
    <2>1. /\ outbox' \in Seq(Packet) /\ Len(outbox') = l + 1 /\ DOMAIN outbox' = 1..l + 1
          /\ outbox'[l + 1] = p /\ \A i \in 1..l : outbox'[i] = outbox[i]
        BY <1>1, <1>5
    <2>2. sent' \in 0..Len(outbox') /\ \A i \in 1..sent : i \in 1..l
        BY <1>1, <2>1
    <2>3. SentSeen'
        BY <1>2, <2>1, <2>2 DEF BridgeInv, SentSeen
    <2>4. (\A q : Queued(q) => Queued(q)') /\ Queued(p)'
        <3>1. l + 1 \in 1..l + 1 /\ \A i \in 1..l : i \in 1..l + 1
            OBVIOUS
        <3>2. QED
            BY <1>1, <2>1, <3>1 DEF Queued
    <2>5. OutboxInOrder'
        <3>1. SUFFICES ASSUME config.mqtt, NEW i \in 1..l + 1, Tells(outbox'[i]), NEW told,
                              told = Notification(outbox'[i].of), ~ Seen(told)
                       PROVE  \E j \in 1..i : outbox'[j] = told
            BY <1>2, <2>1 DEF OutboxInOrder, Notification, Tells
        <3>2. CASE i \in 1..l
            <4>1. outbox'[i] = outbox[i]
                BY <2>1, <3>2
            <4>2. PICK j \in 1..i : outbox[j] = told
                BY <1>1, <3>1, <3>2, <4>1 DEF BridgeInv, OutboxInOrder
            <4>3. j \in 1..l
                BY <3>2
            <4>4. QED
                BY <2>1, <4>2, <4>3
        <3>3. CASE i = l + 1
            <4>1. Tells(p) /\ told = Notification(p.of)
                BY <2>1, <3>1, <3>3
            <4>2. PICK j \in 1..l : outbox[j] = told
                BY <1>1, <1>5, <3>1, <4>1 DEF Queued
            <4>3. j \in 1..i /\ outbox'[j] = told
                BY <2>1, <3>3, <4>2
            <4>4. QED
                BY <4>3
        <3>4. i \in 1..l \/ i = l + 1
            OBVIOUS
        <3>5. QED
            BY <3>2, <3>3, <3>4
    <2>6. QED
        BY <1>2, <1>3, <2>1, <2>2, <2>3, <2>4, <2>5
<1>6. QED
    BY <1>4, <1>5
\* What is observed goes to both sinks at once.
LEMMA ReceiveInv ==
    ASSUME BridgeInv, NEW v \in Values, Receive(v), UNCHANGED <<sent, seen, config, link>>
    PROVE  /\ outbox' \in Seq(Packet) /\ sent' \in 0..Len(outbox')
           /\ posts' \subseteq Values /\ observed' \in Seq(Values)
           /\ SentSeen' /\ OutboxInOrder' /\ SeenInOrder' /\ Startup'
           /\ \A q : (Seen(q)' = Seen(q)) /\ (Queued(q) => Queued(q)')
           /\ config.mqtt => destroyed \/ ~ config.enabled \/ Queued(Notification(v))'
<1>1. PICK p : p = Notification(v)
    OBVIOUS
<1>2. p \in Packet /\ ~ Tells(p)
    BY <1>1, PacketsAre
<1>3. outbox \in Seq(Packet) /\ posts \subseteq Values /\ observed \in Seq(Values)
    BY DEF BridgeInv, BridgeTypeOK
<1>4. outbox \o <<p>> = Append(outbox, p) /\ outbox \o <<>> = outbox
    BY <1>2, <1>3, OneAppended
<1>5. /\ outbox' = outbox \/ outbox' = Append(outbox, p)
      /\ config.mqtt => destroyed \/ ~ config.enabled \/ outbox' = Append(outbox, p)
    BY <1>1, <1>4 DEF Receive, PublishAsync
<1>6. posts' \subseteq Values /\ observed' \in Seq(Values)
    BY <1>3 DEF Receive
<1>7. /\ outbox' \in Seq(Packet) /\ sent' \in 0..Len(outbox')
      /\ SentSeen' /\ OutboxInOrder' /\ SeenInOrder' /\ Startup'
      /\ \A q : (Seen(q)' = Seen(q)) /\ (Queued(q) => Queued(q)')
      /\ outbox' = Append(outbox, p) => Queued(p)'
    BY <1>2, <1>5, OnePublished
<1>8. Notification(v)' = Notification(v)
    BY DEF Notification
<1>9. Queued(p)' => Queued(Notification(v))'
    BY <1>1 DEF Queued, Notification
<1>10. QED
    BY <1>5, <1>6, <1>7, <1>9

LEMMA PollObservesInv ==
    ASSUME BridgeInv, NEW p \in Polls, PollObserves(p)
    PROVE  BridgeInv'
<1>1. p \in Values /\ Receive(p) /\ UNCHANGED <<config, link, at, sent, seen>>
    BY DEF PollObserves, Values
<1>2. /\ outbox' \in Seq(Packet) /\ sent' \in 0..Len(outbox')
      /\ posts' \subseteq Values /\ observed' \in Seq(Values)
      /\ SentSeen' /\ OutboxInOrder' /\ SeenInOrder' /\ Startup'
      /\ \A q : (Seen(q)' = Seen(q)) /\ (Queued(q) => Queued(q)')
    BY <1>1, ReceiveInv
<1>3. DoneTold'
    BY <1>1, <1>2 DEF BridgeInv, DoneTold, Notification, link
<1>4. BridgeTypeOK'
    <2>1. at' \in [Commands -> CommandPlaces] /\ seen' \in Seq(Packet)
        BY <1>1 DEF BridgeInv, BridgeTypeOK, CommandPlaces
    <2>2. QED
        BY <1>1, <1>2, <2>1, TypesKept
<1>5. QED
    BY <1>2, <1>3, <1>4 DEF BridgeInv

\* A command goes a step further, and nothing is published.
LEMMA CommandMoves ==
    ASSUME BridgeInv, NEW c \in Commands,
           NEW to \in {"flying", "lost", "ignored", "running", "refused"},
           at' = [at EXCEPT ![c] = to], UNCHANGED <<config, link, out, posts, observed>>
    PROVE  BridgeInv'
<1>1. /\ at' \in [Commands -> CommandPlaces]
      /\ \A d \in Commands : at'[d] = "done" => at[d] = "done"
    BY DEF BridgeInv, BridgeTypeOK, CommandPlaces
<1>2. \A q : Seen(q)' = Seen(q) /\ Queued(q)' = Queued(q)
    BY DEF Seen, Queued, out
<1>3. DoneTold'
    BY <1>1, <1>2 DEF BridgeInv, DoneTold, Notification, link
<1>4. posts' \subseteq Values /\ observed' \in Seq(Values)
    BY DEF BridgeInv, BridgeTypeOK
<1>5. QED
    BY <1>1, <1>3, <1>4, QuietStep DEF out

LEMMA ExecutesInv ==
    ASSUME BridgeInv, NEW c \in Commands, Executes(c)
    PROVE  BridgeInv'
<1>1. /\ at' \in [Commands -> CommandPlaces]
      /\ \A d \in Commands : at'[d] = "done" => at[d] = "done" \/ d = c
      /\ UNCHANGED <<config, link, sent, seen>>
    BY DEF Executes, BridgeInv, BridgeTypeOK, out, CommandPlaces
<1>2. CASE Payload[c] = "action"
    <2>1. UNCHANGED <<config, link, out, posts, observed>>
        BY <1>2 DEF Executes
    <2>2. \A q : Seen(q)' = Seen(q) /\ Queued(q)' = Queued(q)
        BY <2>1 DEF Seen, Queued, out
    <2>3. DoneTold'
        BY <1>1, <1>2, <2>1, <2>2 DEF BridgeInv, DoneTold, Notification, link
    <2>4. posts' \subseteq Values /\ observed' \in Seq(Values)
        BY <2>1 DEF BridgeInv, BridgeTypeOK
    <2>5. QED
        BY <1>1, <2>1, <2>3, <2>4, QuietStep DEF out
<1>3. CASE Payload[c] # "action"
    <2>1. Receive(c) /\ c \in Values
        BY <1>3 DEF Executes, Values
    <2>2. /\ outbox' \in Seq(Packet) /\ sent' \in 0..Len(outbox')
          /\ posts' \subseteq Values /\ observed' \in Seq(Values)
          /\ SentSeen' /\ OutboxInOrder' /\ SeenInOrder' /\ Startup'
          /\ \A q : (Seen(q)' = Seen(q)) /\ (Queued(q) => Queued(q)')
          /\ config.mqtt => destroyed \/ ~ config.enabled \/ Queued(Notification(c))'
        BY <1>1, <2>1, ReceiveInv
    <2>3. DoneTold'
        BY <1>1, <2>2 DEF BridgeInv, DoneTold, Notification, link
    <2>4. BridgeTypeOK'
        <3>1. seen' \in Seq(Packet)
            BY <1>1 DEF BridgeInv, BridgeTypeOK
        <3>2. QED
            BY <1>1, <2>2, <3>1, TypesKept
    <2>5. QED
        BY <2>2, <2>3, <2>4 DEF BridgeInv
<1>4. QED
    BY <1>2, <1>3

LEMMA RespondInv ==
    ASSUME BridgeInv, NEW c \in Commands, Respond(c)
    PROVE  BridgeInv'
<1>1. /\ at' \in [Commands -> CommandPlaces]
      /\ \A d \in Commands : at'[d] = "done" => at[d] = "done"
      /\ UNCHANGED <<config, link, sent, seen, posts, observed>>
    BY DEF Respond, BridgeInv, BridgeTypeOK, CommandPlaces
<1>2. PICK text \in {"", "value", "error"} :
          PublishAsync(<<Answer(c, text)>>) /\ (text # "error" => at[c] = "done")
    BY DEF Respond, Response
<1>3. PICK p : p = Answer(c, text)
    OBVIOUS
<1>4. p \in Packet /\ p.of = c /\ (Tells(p) <=> text # "error" /\ Payload[c] # "action")
    BY <1>3, PacketsAre
<1>5. outbox \in Seq(Packet)
    BY DEF BridgeInv, BridgeTypeOK
<1>6. outbox \o <<p>> = Append(outbox, p)
    BY <1>4, <1>5, OneAppended
<1>7. outbox' = IF destroyed \/ ~ config.enabled THEN outbox ELSE Append(outbox, p)
    BY <1>2, <1>3, <1>6 DEF PublishAsync
<1>8. config.mqtt /\ Tells(p) /\ outbox' # outbox =>
          Seen(Notification(p.of)) \/ Queued(Notification(p.of))
    BY <1>2, <1>4, <1>7 DEF BridgeInv, DoneTold
<1>9. /\ outbox' \in Seq(Packet) /\ sent' \in 0..Len(outbox')
      /\ SentSeen' /\ OutboxInOrder' /\ SeenInOrder' /\ Startup'
      /\ \A q : (Seen(q)' = Seen(q)) /\ (Queued(q) => Queued(q)')
    BY <1>1, <1>4, <1>7, <1>8, OnePublished
<1>10. DoneTold'
    BY <1>1, <1>9 DEF BridgeInv, DoneTold, Notification, link
<1>11. BridgeTypeOK'
    <2>1. seen' \in Seq(Packet) /\ posts' \subseteq Values /\ observed' \in Seq(Values)
        BY <1>1 DEF BridgeInv, BridgeTypeOK
    <2>2. QED
        BY <1>1, <1>9, <2>1, TypesKept
<1>12. QED
    BY <1>9, <1>10, <1>11 DEF BridgeInv

-----------------------------------------------------------------------------
LEMMA BridgeSteps == BridgeInv /\ [BridgeNext]_bridgeVars => BridgeInv'
<1>1. SUFFICES ASSUME BridgeInv, [BridgeNext]_bridgeVars
               PROVE  BridgeInv'
    OBVIOUS
<1>2. CASE Connect \/ ConnectError \/ Drop \/ Start \/ Subscribed \/ SubscribeFails \/ Destroy
    BY <1>1, <1>2, LinkInv
<1>3. CASE Transmit
    BY <1>1, <1>3, TransmitInv
<1>4. CASE Acknowledged
    BY <1>1, <1>4, AcknowledgedInv
<1>5. ASSUME NEW p \in Polls, PollObserves(p) PROVE BridgeInv'
    BY <1>1, <1>5, PollObservesInv
<1>6. ASSUME NEW v \in Polls \cup Commands, PostEnds(v) PROVE BridgeInv'
    <2>1. UNCHANGED <<config, link, outbox, sent, seen, at, observed>> /\ posts' \subseteq posts
        BY <1>6 DEF PostEnds, out
    <2>2. at' \in [Commands -> CommandPlaces] /\ posts' \subseteq Values /\ observed' \in Seq(Values)
        BY <1>1, <2>1 DEF BridgeInv, BridgeTypeOK, CommandPlaces
    <2>3. \A q : Seen(q)' = Seen(q) /\ Queued(q)' = Queued(q)
        BY <2>1 DEF Seen, Queued
    <2>4. DoneTold'
        BY <1>1, <2>1, <2>3 DEF BridgeInv, DoneTold, Notification, link
    <2>5. QED
        BY <1>1, <2>1, <2>2, <2>4, QuietStep
<1>7. ASSUME NEW c \in Commands, Send(c) PROVE BridgeInv'
    <2>1. PICK to \in {"flying", "lost"} : at' = [at EXCEPT ![c] = to]
        BY <1>7 DEF Send
    <2>2. QED
        BY <1>1, <1>7, <2>1, CommandMoves DEF Send
<1>8. ASSUME NEW c \in Commands, Message(c) PROVE BridgeInv'
    <2>1. PICK to \in {"ignored", "refused", "running"} : at' = [at EXCEPT ![c] = to]
        BY <1>8 DEF Message
    <2>2. QED
        BY <1>1, <1>8, <2>1, CommandMoves DEF Message
<1>9. ASSUME NEW c \in Commands, Executes(c) PROVE BridgeInv'
    BY <1>1, <1>9, ExecutesInv
<1>10. ASSUME NEW c \in Commands, ExecuteFails(c) PROVE BridgeInv'
    BY <1>1, <1>10, CommandMoves DEF ExecuteFails
<1>11. ASSUME NEW c \in Commands, Respond(c) PROVE BridgeInv'
    BY <1>1, <1>11, RespondInv
<1>12. CASE UNCHANGED bridgeVars
    <2>1. UNCHANGED <<config, link, outbox, sent, seen, at, observed>> /\ posts' \subseteq posts
        BY <1>12 DEF bridgeVars, out
    <2>2. at' \in [Commands -> CommandPlaces] /\ posts' \subseteq Values /\ observed' \in Seq(Values)
        BY <1>1, <2>1 DEF BridgeInv, BridgeTypeOK, CommandPlaces
    <2>3. \A q : Seen(q)' = Seen(q) /\ Queued(q)' = Queued(q)
        BY <2>1 DEF Seen, Queued
    <2>4. DoneTold'
        BY <1>1, <2>1, <2>3 DEF BridgeInv, DoneTold, Notification, link
    <2>5. QED
        BY <1>1, <2>1, <2>2, <2>4, QuietStep
<1>13. QED
    BY <1>1, <1>2, <1>3, <1>4, <1>5, <1>6, <1>7, <1>8, <1>9, <1>10, <1>11, <1>12 DEF BridgeNext

LEMMA BridgeInvariance == BridgeSpec => []BridgeInv
<1>1. QED
    BY BridgeStarts, BridgeSteps, PTL DEF BridgeSpec

\* The link's state, the places of the commands and the packets have their
\* types, whatever is lost, repeated or published (MqttClientProvider,
\* MqttListenerService, NotificationDispatchService).
THEOREM BridgeTypes == BridgeSpec => []BridgeTypeOK
<1>1. BridgeInv => BridgeTypeOK
    BY DEF BridgeInv
<1>2. QED
    BY <1>1, BridgeInvariance, PTL

\* Whoever reads the answer to a get or a set finds that the consumers of the
\* notifications have had the value before, for any number of commands, polls
\* and lost links: execute dispatches before it returns, the client keeps its
\* order and repeats a whole tail of it (DeviceCommandService.execute,
\* MqttListenerService.publishResponse).
THEOREM ValueBeforeAnswer == BridgeSpec => []NotifiedBeforeAnswered
<1>1. ASSUME BridgeInv PROVE NotifiedBeforeAnswered
    <2>1. SUFFICES ASSUME config.mqtt, NEW c \in Commands, NEW i \in AnsweredIn(c),
                          seen[i].text # "error", Payload[c] # "action"
                   PROVE  \E j \in 1..i : seen[j] = Notification(c)
        BY DEF NotifiedBeforeAnswered
    <2>2. i \in DOMAIN seen /\ Tells(seen[i]) /\ seen[i].of = c
        BY <2>1 DEF AnsweredIn, Tells
    <2>3. QED
        BY <1>1, <2>1, <2>2 DEF BridgeInv, SeenInOrder
<1>2. QED
    BY <1>1, BridgeInvariance, PTL

=============================================================================

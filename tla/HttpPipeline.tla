----------------------------- MODULE HttpPipeline -----------------------------
(***************************************************************************)
(* A request on its way through the HTTP layer: the guard of its route,    *)
(* the roles the route asks for, its handler, and the filter that gives    *)
(* what any of them throws its status.                                     *)
(*                                                                         *)
(* A token names a user and the role the user had when it was issued.  The *)
(* guard accepts it for an hour, but loads the row of the user again each  *)
(* time; operators change and remove these rows while tokens are out.  The *)
(* work of the handlers is that of the other modules: here a handler       *)
(* answers, or throws what the handlers of its context throw.              *)
(***************************************************************************)
EXTENDS HttpRoutes

CONSTANTS
    Users,          \* ids of users
    Requests,       \* requests that may be in flight together
    Called          \* the operations clients call

Nobody == "nobody"

ASSUME PipelineAssumption == Called \subseteq Operations /\ Nobody \notin Users

VARIABLES
    users,      \* the role in the row of each user, Removed when it has none
    accepted,   \* the tokens issued and not expired
    request,    \* how far each request is
    had         \* history: what the row of its user said since each request arrived

vars == <<users, accepted, request, had>>

-----------------------------------------------------------------------------
Removed == "removed"

Token == [sub : Users, role : Roles]

\* No entry of a map: none has matched so far.
NoMatch == Entry("none", 500)

AllEntries == UNION {StatusMap(context) : context \in Contexts}

Stages == {"idle", "load", "find", "verify", "handle", "filter", "answered"}

Request == [stage     : Stages,
            operation : Operations,
            user      : Users \cup {Nobody},        \* of the token, or who logs in
            role      : Roles \cup {Removed},       \* as it was loaded
            thrown    : Exceptions \cup {"none"},
            left      : SUBSET AllEntries,          \* entries that fit, to consider yet
            match     : AllEntries \cup {NoMatch},
            status    : Int]

InFlight(r) == request[r].stage \notin {"idle", "answered"}

At(r, stage) == request[r].stage = stage

Asks(r) == request[r].operation

Sees(u) == IF u = Nobody THEN {} ELSE {users[u]}

Fresh(operation, user, stage) ==
    [stage |-> stage, operation |-> operation, user |-> user, role |-> Removed,
     thrown |-> "none", left |-> {}, match |-> NoMatch, status |-> 0]

\* The filter of the route gets what was thrown; the entries of its map that are no
\* superclass of it are passed over.
Caught(old, exception) ==
    [old EXCEPT !.stage = "filter", !.thrown = exception,
                !.left = {entry \in StatusMap(ContextOf(old.operation)) :
                            InstanceOf(exception, entry.class)}]

Throw(r, exception) ==
    request' = [request EXCEPT ![r] = Caught(request[r], exception)]

GoOn(r, stage, role) ==
    request' = [request EXCEPT ![r] = [request[r] EXCEPT !.stage = stage, !.role = role]]

Answer(old, status) == [old EXCEPT !.stage = "answered", !.status = status]

-----------------------------------------------------------------------------
(***************************************************************************)
(* Arrival, up to the first query.                                         *)
(***************************************************************************)
Arrive(r, operation, user, stage) ==
    /\ ~InFlight(r)
    /\ request' = [request EXCEPT ![r] = Fresh(operation, user, stage)]
    /\ had' = [had EXCEPT ![r] = Sees(user)]
    /\ UNCHANGED <<users, accepted>>

\* Refused before any row is read.
Refuse(r, operation) ==
    /\ ~InFlight(r)
    /\ request' = [request EXCEPT ![r] = Caught(Fresh(operation, Nobody, "idle"),
                                                "Unauthorized")]
    /\ had' = [had EXCEPT ![r] = {}]
    /\ UNCHANGED <<users, accepted>>

\* JwtAuthGuard, as far as passport-jwt: signature and expiry.
ArriveWithToken(r, operation, token) ==
    /\ GuardOf(operation) = "jwt" /\ token \in accepted
    /\ Arrive(r, operation, token.sub, "load")

ArriveWithoutToken(r, operation) == GuardOf(operation) = "jwt" /\ Refuse(r, operation)

\* WebhookAuthGuard: the signature of the body, which identifies no user.
Notify(r, operation) ==
    /\ GuardOf(operation) = "webhook"
    /\ Arrive(r, operation, Nobody, "handle") \/ Refuse(r, operation)

Probe(r, operation) ==
    ContextOf(operation) = "app" /\ Arrive(r, operation, Nobody, "handle")

Logins == {"login", "loginAdmin"}

LogIn(r, operation, user) ==
    operation \in Logins /\ Arrive(r, operation, user, "find")

-----------------------------------------------------------------------------
(***************************************************************************)
(* Guards.                                                                 *)
(***************************************************************************)

\* What findById and findByEmail find: the row of the user as it is now.
RowOf(u) == users[u]

\* RolesGuard: a route that names no role is open to all.
CanActivate(operation, role) == RolesOf(operation) = {} \/ role \in RolesOf(operation)

\* Mutant: the roles guard asks the token.
LoadUserOfToken(r) ==
    /\ At(r, "load")
    /\ IF RowOf(request[r].user) = Removed
       THEN Throw(r, "access.InvalidCredentials")
       ELSE \E role \in {token.role : token \in {t \in accepted : t.sub = request[r].user}} :
                IF CanActivate(Asks(r), role)
                THEN GoOn(r, "handle", role)
                ELSE Throw(r, "Forbidden")
    /\ UNCHANGED <<users, accepted, had>>

\* ValidateAuthenticatedUser loads the row, and RolesGuard asks it.  The query fails
\* when the database does.
LoadUser(r) ==
    LET role == RowOf(request[r].user)
        fits == CanActivate(Asks(r), role)
    IN  /\ At(r, "load")
        /\ \/ role = Removed /\ Throw(r, "access.InvalidCredentials")
           \/ role # Removed /\ ~fits /\ Throw(r, "Forbidden")
           \/ role # Removed /\ fits /\ GoOn(r, "handle", role)
           \/ Throw(r, Unmapped)
        /\ UNCHANGED <<users, accepted, had>>

-----------------------------------------------------------------------------
(***************************************************************************)
(* Login: the row is read once, and verifying the password takes a while.  *)
(***************************************************************************)

\* The pipe may refuse the body before, and the query fail.
FindByEmail(r) ==
    LET role == RowOf(request[r].user)
    IN  /\ At(r, "find")
        /\ \/ role = Removed /\ Throw(r, "access.InvalidCredentials")
           \/ role # Removed /\ GoOn(r, "verify", role)
           \/ \E exception \in {"BadRequest", Unmapped} : Throw(r, exception)
        /\ UNCHANGED <<users, accepted, had>>

RequiredRoles(operation) == IF operation = "loginAdmin" THEN {"ATTENDANT"} ELSE Roles

WrongPassword(r) ==
    /\ At(r, "verify")
    /\ Throw(r, "access.InvalidCredentials")
    /\ UNCHANGED <<users, accepted, had>>

\* Mutant: the row is read again, and by then may be gone.
IssueTokenReloading(r) ==
    /\ accepted' = accepted \cup {[sub |-> request[r].user, role |-> users[request[r].user]]}
    /\ request' = [request EXCEPT ![r] = Answer(request[r], Success(Asks(r)))]
    /\ UNCHANGED <<users, had>>

\* The token says what was loaded with the password.
IssueToken(r) ==
    /\ accepted' = accepted \cup {[sub |-> request[r].user, role |-> request[r].role]}
    /\ request' = [request EXCEPT ![r] = Answer(request[r], Success(Asks(r)))]
    /\ UNCHANGED <<users, had>>

VerifyPassword(r) ==
    LET fits == request[r].role \in RequiredRoles(Asks(r))
    IN  /\ At(r, "verify")
        /\ \/ fits /\ IssueToken(r)
           \/ ~fits /\ Throw(r, "access.ForbiddenRole") /\ UNCHANGED <<users, accepted, had>>

-----------------------------------------------------------------------------
(***************************************************************************)
(* The handler, and the filter.                                            *)
(***************************************************************************)
HandlerAnswers(r) ==
    /\ At(r, "handle")
    /\ request' = [request EXCEPT ![r] = Answer(request[r], Success(Asks(r)))]
    /\ UNCHANGED <<users, accepted, had>>

\* The pipe refuses the body, the handler throws, or the database does.  What login
\* throws is above, and me answers what the guard has loaded.
MayThrow(operation) ==
    IF ContextOf(operation) = "app"
    THEN IF operation = "readiness" THEN {"ServiceUnavailable"} ELSE {}
    ELSE IF ContextOf(operation) = "access" THEN {}
         ELSE Thrown(ContextOf(operation)) \cup Foreign(ContextOf(operation))
                \cup {"BadRequest", Unmapped}

HandlerThrows(r, exception) ==
    /\ At(r, "handle") /\ exception \in MayThrow(Asks(r))
    /\ Throw(r, exception)
    /\ UNCHANGED <<users, accepted, had>>

\* Mutant: the last entry that fits decides.
ConsiderLast(r, entry) ==
    /\ At(r, "filter") /\ entry \in request[r].left
    /\ request' = [request EXCEPT ![r] = [request[r] EXCEPT !.left = @ \ {entry},
                                                            !.match = entry]]
    /\ UNCHANGED <<users, accepted, had>>

\* The entries come in the order the context wrote them: any order, here.
Consider(r, entry) ==
    LET old == request[r]
        better == old.match = NoMatch \/ Inherits(entry.class, old.match.class)
    IN  /\ At(r, "filter") /\ entry \in old.left
        /\ request' = [request EXCEPT ![r] =
                        [old EXCEPT !.left = old.left \ {entry},
                                    !.match = IF better THEN entry ELSE old.match]]
        /\ UNCHANGED <<users, accepted, had>>

Resolved(old) ==
    IF old.thrown \in HttpExceptions THEN HttpStatusOf[old.thrown] ELSE old.match.status

Respond(r) ==
    /\ At(r, "filter") /\ request[r].left = {}
    /\ request' = [request EXCEPT ![r] = Answer(request[r], Resolved(request[r]))]
    /\ UNCHANGED <<users, accepted, had>>

-----------------------------------------------------------------------------
(***************************************************************************)
(* The world outside.                                                      *)
(***************************************************************************)
\* An operator changes the row of a user, or removes it; its id is not used again.
SetRole(u, role) ==
    /\ users[u] \notin {Removed, role}
    /\ users' = [users EXCEPT ![u] = role]
    /\ had' = [r \in Requests |-> IF request[r].user = u THEN had[r] \cup {role} ELSE had[r]]
    /\ UNCHANGED <<accepted, request>>

\* The hour of a token is over.
Expire(token) ==
    /\ token \in accepted
    /\ accepted' = accepted \ {token}
    /\ UNCHANGED <<users, request, had>>

-----------------------------------------------------------------------------
Init ==
    /\ users \in [Users -> Roles]
    /\ accepted = {}
    /\ request = [r \in Requests |-> Fresh("health", Nobody, "idle")]
    /\ had = [r \in Requests |-> {}]

Receive(r, operation) ==
    \/ \E token \in Token : ArriveWithToken(r, operation, token)
    \/ ArriveWithoutToken(r, operation)
    \/ Notify(r, operation)
    \/ Probe(r, operation)
    \/ \E u \in Users : LogIn(r, operation, u)

Step(r) ==
    \/ LoadUser(r)
    \/ FindByEmail(r)
    \/ WrongPassword(r)
    \/ VerifyPassword(r)
    \/ HandlerAnswers(r)
    \/ \E exception \in Exceptions : HandlerThrows(r, exception)
    \/ \E entry \in AllEntries : Consider(r, entry)
    \/ Respond(r)

Next ==
    \/ \E r \in Requests : Step(r) \/ \E operation \in Called : Receive(r, operation)
    \/ \E u \in Users, role \in Roles \cup {Removed} : SetRole(u, role)
    \/ \E token \in Token : Expire(token)

Spec == Init /\ [][Next]_vars

-----------------------------------------------------------------------------
TypeOK ==
    /\ users \in [Users -> Roles \cup {Removed}]
    /\ accepted \subseteq Token
    /\ request \in [Requests -> Request]
    /\ had \in [Requests -> SUBSET (Roles \cup {Removed})]

\* A handler runs, and a token is issued, only for a user whose row had one of the
\* roles the route asks for while the request was under way, whatever an older token
\* says.
HandledWithRole ==
    \A r \in Requests :
        LET asked == IF RolesOf(Asks(r)) = {} THEN Roles ELSE RolesOf(Asks(r))
        IN  /\ At(r, "handle") /\ GuardOf(Asks(r)) = "jwt" => had[r] \cap asked # {}
            /\ At(r, "answered") /\ Asks(r) \in Logins /\ request[r].status = 201
                => had[r] \cap RequiredRoles(Asks(r)) # {}

\* The status is that of the entry closest to the class thrown, in whatever order a
\* map lists them.
ClosestEntryDecides ==
    \A r \in Requests :
        LET old == request[r]
            fitting == {entry \in StatusMap(ContextOf(Asks(r))) :
                            InstanceOf(old.thrown, entry.class)}
        IN  At(r, "answered") /\ old.thrown \notin HttpExceptions \cup {"none"}
                => \/ fitting = {} /\ old.status = 500
                   \/ \E closest \in fitting :
                        /\ old.status = closest.status
                        /\ \A entry \in fitting : ~Inherits(entry.class, closest.class)

\* What a context throws of its own is never answered as an internal error.
OwnExceptionsAreMapped ==
    \A r \in Requests :
        /\ At(r, "answered")
        /\ request[r].thrown \in Thrown(ContextOf(Asks(r)))
        => request[r].status < 500

\* A token the guard refuses is answered with 401, as the documentation says.
RefusedTokensGet401 ==
    \A r \in Requests :
        /\ At(r, "answered") /\ GuardOf(Asks(r)) = "jwt"
        /\ request[r].thrown \in {"Unauthorized", "access.InvalidCredentials"}
        => request[r].status = 401
=============================================================================

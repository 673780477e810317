-------------------------- MODULE HttpPipelineProofs --------------------------
(***************************************************************************)
(* The invariants of HttpPipeline, for every set of users and requests.    *)
(***************************************************************************)
EXTENDS HttpPipeline, TLAPS


USE DEF Removed, Nobody, InFlight, At, Asks

-----------------------------------------------------------------------------
(***************************************************************************)
(* The tables.                                                             *)
(***************************************************************************)

\* What the proofs use of the controllers.
LEMMA ControllersAreSound ==
    \A c \in Controllers :
        /\ c.context \in Contexts
        /\ \A operation \in DOMAIN c.answers : c.answers[operation] \in Int
        /\ c.context = "app" => c.guard = "none"
        /\ \A operation \in {"login", "loginAdmin"} : operation \in DOMAIN c.answers => c = Auth
BY DEF Controllers, Contexts, Auth, Me, CustomerController, VehicleController,
       MaterialsController, ServiceCatalogController, ServiceOrderController,
       EstimateController, MechanicController, DiagnosisController, MetricsController,
       EstimateNotificationController, AppController

\* Every operation is of some controller.
LEMMA ControllerOfOperation ==
    ASSUME NEW operation \in Operations
    PROVE  /\ ControllerOf(operation) \in Controllers
           /\ operation \in DOMAIN ControllerOf(operation).answers
BY DEF Operations, ControllerOf

\* What the proofs use of the operations.
LEMMA OperationsAreSound ==
    ASSUME NEW operation \in Operations
    PROVE  /\ ContextOf(operation) \in Contexts
           /\ Success(operation) \in Int
           /\ ContextOf(operation) = "app" => GuardOf(operation) = "none"
           /\ operation \in Logins
                => ContextOf(operation) = "access" /\ GuardOf(operation) = "none"
BY ControllerOfOperation, ControllersAreSound
   DEF ContextOf, Success, GuardOf, Logins, Auth

\* What fits an exception in the map of its route.
Fitting(operation, exception) ==
    {entry \in StatusMap(ContextOf(operation)) : InstanceOf(exception, entry.class)}

\* Only entries of the maps can fit.
LEMMA FittingEntries ==
    ASSUME NEW operation \in Operations, NEW exception
    PROVE  Fitting(operation, exception) \subseteq AllEntries
BY OperationsAreSound DEF Fitting, AllEntries

\* Nothing is answered with less than 400 on account of an exception.
LEMMA StatusesAreErrors ==
    /\ \A entry \in AllEntries \cup {NoMatch} : entry.status \in Int /\ entry.status >= 400
    /\ \A exception \in HttpExceptions :
            HttpStatusOf[exception] \in Int /\ HttpStatusOf[exception] >= 400
<1>1. \A context \in Contexts : \A entry \in StatusMap(context) :
            entry.status \in Int /\ entry.status >= 400
  BY DEF Contexts, StatusMap, AccessIdentityStatusMap, CustomerManagementStatusMap,
         MaterialsStatusMap, ServiceOrdersStatusMap, Entries, Entry
<1>2. NoMatch.status = 500
  BY DEF NoMatch, Entry
<1>3. \A exception \in HttpExceptions :
            HttpStatusOf[exception] \in Int /\ HttpStatusOf[exception] >= 400
  BY DEF HttpExceptions, HttpStatusOf
<1> QED
  BY <1>1, <1>2, <1>3 DEF AllEntries

\* The exceptions that carry their status.
LEMMA TheHttpExceptions ==
    HttpExceptions = {"BadRequest", "Unauthorized", "Forbidden", "ServiceUnavailable"}
BY DEF HttpExceptions, HttpStatusOf

\* No exception is called "none".
LEMMA NoneIsNoException == "none" \notin Exceptions
<1>1. \A context \in Contexts : "none" \notin Thrown(context)
  BY DEF Contexts, Thrown
<1> QED
  BY <1>1, TheHttpExceptions DEF Exceptions, Unmapped

\* What the guards and the login throw.
LEMMA GuardsThrowExceptions ==
    {"Unauthorized", "Forbidden", "BadRequest", "access.InvalidCredentials",
     "access.ForbiddenRole", Unmapped}
        \subseteq Exceptions
<1>1. "access" \in Contexts
  BY DEF Contexts
<1>2. {"access.InvalidCredentials", "access.ForbiddenRole"} \subseteq Thrown("access")
  BY DEF Thrown
<1> QED
  BY <1>1, <1>2, TheHttpExceptions DEF Exceptions

-----------------------------------------------------------------------------
(***************************************************************************)
(* The inductive invariant: what is true of a request given what its user  *)
(* has been since it arrived.                                              *)
(***************************************************************************)

\* The roles a route asks for.
Asked(operation) == IF RolesOf(operation) = {} THEN Roles ELSE RolesOf(operation)

Guarded(q, roles) ==
    /\ q.stage \in {"load", "find", "verify"} => q.user \in Users
    /\ q.stage = "load" => GuardOf(q.operation) = "jwt"
    /\ q.stage \in {"find", "verify"} => q.operation \in Logins
    /\ q.stage = "verify" => q.role \in roles /\ q.role \in Roles
    /\ q.stage = "handle" => q.operation \notin Logins
    /\ q.stage = "handle" /\ GuardOf(q.operation) = "jwt"
         => roles \cap Asked(q.operation) # {}
    /\ q.stage = "answered" /\ q.operation \in Logins /\ q.status = 201
         => roles \cap RequiredRoles(q.operation) # {}

\* No entry that was considered is closer than the match.
Filtered(q) ==
    /\ q.thrown # "none"
    /\ q.left \subseteq Fitting(q.operation, q.thrown)
    /\ \/ q.match = NoMatch /\ q.left = Fitting(q.operation, q.thrown)
       \/ /\ q.match \in Fitting(q.operation, q.thrown) \ q.left
          /\ \A entry \in Fitting(q.operation, q.thrown) \ q.left :
                ~Inherits(entry.class, q.match.class)

ClosestDecided(q) ==
    \/ Fitting(q.operation, q.thrown) = {} /\ q.status = 500
    \/ \E closest \in Fitting(q.operation, q.thrown) :
         /\ q.status = closest.status
         /\ \A entry \in Fitting(q.operation, q.thrown) :
                ~Inherits(entry.class, closest.class)

Sound(q, roles) ==
    /\ Guarded(q, roles)
    /\ q.stage \notin {"filter", "answered"} => q.thrown = "none" /\ q.match = NoMatch
    /\ q.stage = "filter" => Filtered(q)
    /\ q.stage = "answered" /\ q.thrown \notin HttpExceptions \cup {"none"}
         => ClosestDecided(q)

\* The row of the user of a request is among those the request has seen.
Seen(q, roles) == q.user # Nobody => users[q.user] \in roles

Inv ==
    /\ TypeOK
    /\ \A r \in Requests : Sound(request[r], had[r]) /\ Seen(request[r], had[r])

-----------------------------------------------------------------------------
(***************************************************************************)
(* The steps of one request.                                               *)
(***************************************************************************)

\* A request that has just arrived.
LEMMA FreshIsSound ==
    ASSUME NEW operation \in Operations, NEW user \in Users \cup {Nobody}, NEW roles,
           NEW stage \in {"idle", "load", "find", "handle"},
           stage \in {"load", "find"} => user \in Users,
           stage = "load" => GuardOf(operation) = "jwt",
           stage = "find" => operation \in Logins,
           stage = "handle" => operation \notin Logins /\ GuardOf(operation) # "jwt"
    PROVE  /\ Fresh(operation, user, stage) \in Request
           /\ Sound(Fresh(operation, user, stage), roles)
<1> DEFINE q == Fresh(operation, user, stage)
<1>1. q \in Request
  <2> HIDE DEF AllEntries
  <2>1. stage \in Stages
    BY DEF Stages
  <2> QED
    BY <2>1 DEF Fresh, Request
<1>2. /\ q.operation = operation /\ q.user = user /\ q.stage = stage /\ q.thrown = "none"
     /\ q.match = NoMatch
  BY DEF Fresh
<1>3. Guarded(q, roles)
  BY <1>2 DEF Guarded
<1> HIDE DEF q
<1>4. Sound(q, roles)
  BY <1>2, <1>3 DEF Sound
<1> QED
  BY <1>1, <1>4 DEF q

\* The filter has not looked at what it caught.
LEMMA CaughtIsSound ==
    ASSUME NEW q \in Request, NEW exception \in Exceptions, NEW roles
    PROVE  /\ Caught(q, exception) \in Request
           /\ Caught(q, exception).user = q.user
           /\ q.match = NoMatch => Sound(Caught(q, exception), roles)
<1> DEFINE c == Caught(q, exception)
           fitting == Fitting(q.operation, exception)
<1>1. fitting \in SUBSET AllEntries
  BY FittingEntries DEF Request
<1>2. c = [q EXCEPT !.stage = "filter", !.thrown = exception, !.left = fitting]
  BY DEF Caught, Fitting
<1>3. "filter" \in Stages
  BY DEF Stages
<1> HIDE DEF c, fitting
<1>4. c \in Request
  BY <1>1, <1>2, <1>3 DEF Request
<1>5. /\ c.stage = "filter" /\ c.thrown = exception /\ c.left = fitting
      /\ c.operation = q.operation /\ c.match = q.match /\ c.user = q.user
  BY <1>2 DEF Request
<1>6. ASSUME q.match = NoMatch
      PROVE  Sound(c, roles)
  <2>1. Guarded(c, roles)
    BY <1>5 DEF Guarded
  <2>2. Filtered(c)
    BY <1>5, <1>6, NoneIsNoException DEF Filtered, fitting
  <2> QED
    BY <1>5, <2>1, <2>2 DEF Sound
<1> QED
  BY <1>4, <1>5, <1>6 DEF c

\* A guard that lets the request pass.
LEMMA GoneOnIsSound ==
    ASSUME NEW q \in Request, NEW roles, Sound(q, roles),
           NEW role \in Roles, role \in roles,
           NEW stage \in {"verify", "handle"},
           stage = "verify" => q.stage = "find",
           stage = "handle" => /\ q.stage = "load"
                               /\ RolesOf(q.operation) = {} \/ role \in RolesOf(q.operation)
    PROVE  LET next == [q EXCEPT !.stage = stage, !.role = role]
           IN  next \in Request /\ Sound(next, roles) /\ next.user = q.user
<1> DEFINE next == [q EXCEPT !.stage = stage, !.role = role]
<1>1. stage \in Stages
  BY DEF Stages
<1>2. next \in Request
  BY <1>1 DEF Request
<1>3. /\ next.stage = stage /\ next.role = role /\ next.operation = q.operation
      /\ next.user = q.user /\ next.thrown = q.thrown /\ next.match = q.match
  BY DEF Request
<1>4. q.thrown = "none" /\ q.match = NoMatch /\ Guarded(q, roles) /\ q.operation \in Operations
  BY DEF Sound, Request
<1> HIDE DEF next
<1>5. Guarded(next, roles)
  <2>1. CASE stage = "verify"
    BY <1>3, <1>4, <2>1 DEF Guarded
  <2>2. CASE stage = "handle"
    <3>1. GuardOf(q.operation) = "jwt"
      BY <1>4, <2>2 DEF Guarded
    <3>2. q.operation \notin Logins
      BY <1>4, <3>1, OperationsAreSound
    <3>3. role \in Asked(q.operation)
      BY <2>2 DEF Asked
    <3> QED
      BY <1>3, <2>2, <3>2, <3>3 DEF Guarded
  <2> QED
    BY <2>1, <2>2
<1>6. Sound(next, roles)
  BY <1>3, <1>4, <1>5 DEF Sound
<1> QED
  BY <1>2, <1>3, <1>6 DEF next

\* A handler, or a login, that succeeds.
LEMMA SucceededIsSound ==
    ASSUME NEW q \in Request, NEW roles, Sound(q, roles),
           \/ q.stage = "handle"
           \/ q.stage = "verify" /\ q.role \in RequiredRoles(q.operation)
    PROVE  LET next == Answer(q, Success(q.operation))
           IN  next \in Request /\ Sound(next, roles) /\ next.user = q.user
<1> DEFINE next == Answer(q, Success(q.operation))
<1>1. "answered" \in Stages /\ Success(q.operation) \in Int
  BY OperationsAreSound DEF Stages, Request
<1>2. next \in Request
  BY <1>1 DEF Request, Answer
<1>3. /\ next.stage = "answered" /\ next.role = q.role /\ next.operation = q.operation
      /\ next.user = q.user /\ next.thrown = q.thrown
  BY DEF Request, Answer
<1>4. q.thrown = "none" /\ Guarded(q, roles)
  BY DEF Sound
<1> HIDE DEF next
<1>5. Guarded(next, roles)
  BY <1>3, <1>4 DEF Guarded
<1>6. Sound(next, roles)
  BY <1>3, <1>4, <1>5 DEF Sound
<1> QED
  BY <1>2, <1>3, <1>6 DEF next

\* Inheritance is one level deep.
LEMMA OneLevel ==
    /\ \A class : ~Inherits(class, class)
    /\ \A a, b, c : Inherits(a, b) => ~Inherits(c, a)
    /\ \A class : class # "none" => ~InstanceOf(class, "none")
BY DEF Inherits, DomainExceptions, InstanceOf

\* The filter goes over one more entry.
LEMMA ConsideredIsSound ==
    ASSUME NEW q \in Request, NEW roles, Sound(q, roles), q.stage = "filter",
           NEW entry \in q.left
    PROVE  LET better == q.match = NoMatch \/ Inherits(entry.class, q.match.class)
               next == [q EXCEPT !.left = q.left \ {entry},
                                 !.match = IF better THEN entry ELSE q.match]
           IN  next \in Request /\ Sound(next, roles) /\ next.user = q.user
<1> DEFINE better == q.match = NoMatch \/ Inherits(entry.class, q.match.class)
           match == IF better THEN entry ELSE q.match
           next == [q EXCEPT !.left = q.left \ {entry}, !.match = match]
           fitting == Fitting(q.operation, q.thrown)
<1>1. /\ q.left \in SUBSET AllEntries /\ entry \in AllEntries
      /\ q.match \in AllEntries \cup {NoMatch}
  BY DEF Request
<1>2. next \in Request
  BY <1>1 DEF Request
<1>3. /\ next.stage = q.stage /\ next.role = q.role /\ next.operation = q.operation
      /\ next.user = q.user /\ next.thrown = q.thrown /\ next.match = match
      /\ next.left = q.left \ {entry}
  BY DEF Request
<1>4. Filtered(q) /\ Guarded(q, roles)
  BY DEF Sound
<1>5. entry \in fitting /\ NoMatch \notin fitting
  <2>1. NoMatch.class = "none"
    BY DEF NoMatch, Entry
  <2> QED
    BY <1>4, <2>1, OneLevel DEF Filtered, Fitting
<1>6. /\ match \in fitting \ next.left
      /\ \A other \in fitting \ next.left : ~Inherits(other.class, match.class)
  <2> HIDE DEF fitting, next, match
  <2>1. CASE q.match = NoMatch /\ q.left = fitting
    BY <1>3, <1>5, <2>1, OneLevel DEF match
  <2>2. CASE /\ q.match \in fitting \ q.left
             /\ \A other \in fitting \ q.left : ~Inherits(other.class, q.match.class)
    BY <1>3, <1>5, <2>2, OneLevel DEF match
  <2> QED
    BY <1>4, <2>1, <2>2 DEF Filtered, fitting
<1>7. Filtered(next)
  <2> HIDE DEF next, match
  <2> QED
    BY <1>3, <1>4, <1>6 DEF Filtered
<1>8. Sound(next, roles)
  <2> HIDE DEF next, match
  <2>1. Guarded(next, roles)
    BY <1>3 DEF Guarded
  <2> QED
    BY <1>3, <1>7, <2>1 DEF Sound
<1> HIDE DEF next, match, better
<1> QED
  BY <1>2, <1>3, <1>8 DEF next, match, better

\* The filter answers when every entry was considered.
LEMMA RespondedIsSound ==
    ASSUME NEW q \in Request, NEW roles, Sound(q, roles), q.stage = "filter", q.left = {}
    PROVE  LET next == Answer(q, Resolved(q))
           IN  next \in Request /\ Sound(next, roles) /\ next.user = q.user
<1> DEFINE next == Answer(q, Resolved(q))
<1>1. Resolved(q) \in Int /\ Resolved(q) >= 400
  BY StatusesAreErrors DEF Resolved, Request
<1>2. "answered" \in Stages
  BY DEF Stages
<1>3. next \in Request
  BY <1>1, <1>2 DEF Request, Answer
<1>4. /\ next.stage = "answered" /\ next.role = q.role /\ next.operation = q.operation
      /\ next.user = q.user /\ next.thrown = q.thrown /\ next.status = Resolved(q)
  BY DEF Request, Answer
<1>5. Filtered(q)
  BY DEF Sound
<1> HIDE DEF next
<1>6. Guarded(next, roles)
  BY <1>1, <1>4 DEF Guarded
<1>7. ASSUME q.thrown \notin HttpExceptions
      PROVE  ClosestDecided(next)
  <2>1. next.status = q.match.status
    BY <1>4, <1>7 DEF Resolved
  <2>2. NoMatch.status = 500
    BY DEF NoMatch, Entry
  <2> QED
    BY <1>4, <1>5, <2>1, <2>2 DEF Filtered, ClosestDecided
<1>8. Sound(next, roles)
  BY <1>4, <1>6, <1>7 DEF Sound
<1> QED
  BY <1>3, <1>4, <1>8 DEF next

-----------------------------------------------------------------------------
(***************************************************************************)
(* The steps of the system.                                                *)
(***************************************************************************)

\* A step that moves one request on.
LEMMA OneRequestMoves ==
    ASSUME Inv, NEW r \in Requests, NEW q \in Request,
           Sound(q, had[r]), q.user = request[r].user,
           request' = [request EXCEPT ![r] = q],
           accepted' \subseteq Token, users' = users, had' = had
    PROVE  Inv'
<1>1. TypeOK'
  BY DEF Inv, TypeOK
<1>2. ASSUME NEW s \in Requests
      PROVE  Sound(request'[s], had'[s]) /\ Seen(request[s], had[s])'
  BY DEF Inv, TypeOK, Seen
<1> QED
  BY <1>1, <1>2 DEF Inv

\* A step that a new request starts with.
LEMMA OneRequestArrives ==
    ASSUME Inv, NEW r \in Requests, NEW q \in Request,
           Sound(q, Sees(q.user)),
           request' = [request EXCEPT ![r] = q],
           had' = [had EXCEPT ![r] = Sees(q.user)],
           accepted' = accepted, users' = users
    PROVE  Inv'
<1>1. q.user \in Users \cup {Nobody}
  BY DEF Request
<1>2. Sees(q.user) \subseteq Roles \cup {Removed}
  BY <1>1 DEF Sees, Inv, TypeOK
<1>3. TypeOK'
  BY <1>2 DEF Inv, TypeOK
<1>4. q.user # Nobody => users[q.user] \in Sees(q.user)
  BY DEF Sees
<1>5. ASSUME NEW s \in Requests
      PROVE  Sound(request'[s], had'[s]) /\ Seen(request[s], had[s])'
  BY <1>2, <1>4 DEF Inv, TypeOK, Seen
<1> QED
  BY <1>3, <1>5 DEF Inv

\* The rows a request has seen only increase.
LEMMA SoundWithMore ==
    ASSUME NEW q, NEW roles, NEW more, Sound(q, roles), roles \subseteq more
    PROVE  Sound(q, more)
<1>1. Guarded(q, more)
  BY DEF Sound, Guarded
<1> QED
  BY <1>1 DEF Sound

\* A request that arrives is sound.
LEMMA ArrivalIsSound ==
    ASSUME Inv, NEW r \in Requests, NEW operation \in Operations,
           NEW user \in Users \cup {Nobody}, NEW stage \in {"load", "find", "handle"},
           Arrive(r, operation, user, stage),
           stage \in {"load", "find"} => user \in Users,
           stage = "load" => GuardOf(operation) = "jwt",
           stage = "find" => operation \in Logins,
           stage = "handle" => operation \notin Logins /\ GuardOf(operation) # "jwt"
    PROVE  Inv'
<1> DEFINE q == Fresh(operation, user, stage)
<1>1. q \in Request /\ Sound(q, Sees(user))
  BY FreshIsSound
<1>2. q.user = user
  BY DEF Fresh
<1>3. /\ request' = [request EXCEPT ![r] = q] /\ had' = [had EXCEPT ![r] = Sees(user)]
      /\ users' = users /\ accepted' = accepted
  BY DEF Arrive
<1> HIDE DEF q
<1> QED
  BY <1>1, <1>2, <1>3, OneRequestArrives

\* A request that is refused at once is sound.
LEMMA RefusalIsSound ==
    ASSUME Inv, NEW r \in Requests, NEW operation \in Operations, Refuse(r, operation)
    PROVE  Inv'
<1> DEFINE fresh == Fresh(operation, Nobody, "idle")
           q == Caught(fresh, "Unauthorized")
<1>1. fresh \in Request /\ fresh.user = Nobody /\ fresh.match = NoMatch
  BY FreshIsSound DEF Fresh
<1>2. "Unauthorized" \in Exceptions
  BY GuardsThrowExceptions
<1> HIDE DEF fresh
<1>3. q \in Request /\ q.user = Nobody /\ Sound(q, Sees(Nobody))
  BY <1>1, <1>2, CaughtIsSound
<1>4. /\ request' = [request EXCEPT ![r] = q] /\ had' = [had EXCEPT ![r] = Sees(Nobody)]
      /\ users' = users /\ accepted' = accepted
  BY DEF Refuse, Sees, fresh
<1> HIDE DEF q
<1> QED
  BY <1>3, <1>4, OneRequestArrives

\* However a request is received, it is sound.
LEMMA ReceiptIsSound ==
    ASSUME Inv, NEW r \in Requests, NEW operation \in Operations, Receive(r, operation)
    PROVE  Inv'
<1>1. ASSUME NEW token \in Token, ArriveWithToken(r, operation, token)
      PROVE  Inv'
  <2>1. token.sub \in Users /\ GuardOf(operation) = "jwt" /\ Arrive(r, operation, token.sub, "load")
    BY <1>1 DEF Token, ArriveWithToken
  <2> QED
    BY <2>1, ArrivalIsSound
<1>2. CASE ArriveWithoutToken(r, operation)
  BY <1>2, RefusalIsSound DEF ArriveWithoutToken
<1>3. CASE Notify(r, operation)
  <2>1. GuardOf(operation) = "webhook"
    BY <1>3 DEF Notify
  <2>2. operation \notin Logins
    BY <2>1, OperationsAreSound
  <2>3. Arrive(r, operation, Nobody, "handle") \/ Refuse(r, operation)
    BY <1>3 DEF Notify
  <2> QED
    BY <2>1, <2>2, <2>3, RefusalIsSound, ArrivalIsSound
<1>4. CASE Probe(r, operation)
  <2>1. ContextOf(operation) = "app" /\ Arrive(r, operation, Nobody, "handle")
    BY <1>4 DEF Probe
  <2>2. operation \notin Logins /\ GuardOf(operation) # "jwt"
    BY <2>1, OperationsAreSound
  <2> QED
    BY <2>1, <2>2, ArrivalIsSound
<1>5. ASSUME NEW u \in Users, LogIn(r, operation, u)
      PROVE  Inv'
  BY <1>5, ArrivalIsSound DEF LogIn
<1> QED
  BY <1>1, <1>2, <1>3, <1>4, <1>5 DEF Receive

\* Throwing before the filter.
LEMMA ThrowIsSound ==
    ASSUME Inv, NEW r \in Requests, NEW exception \in Exceptions, Throw(r, exception),
           request[r].stage \notin {"filter", "answered"},
           UNCHANGED <<users, accepted, had>>
    PROVE  Inv'
<1> DEFINE q == Caught(request[r], exception)
<1>1. request[r] \in Request /\ Sound(request[r], had[r]) /\ accepted \subseteq Token
  BY DEF Inv, TypeOK
<1>2. request[r].match = NoMatch
  BY <1>1 DEF Sound
<1>3. q \in Request /\ Sound(q, had[r]) /\ q.user = request[r].user
  BY <1>1, <1>2, CaughtIsSound
<1>4. request' = [request EXCEPT ![r] = q]
  BY DEF Throw
<1> HIDE DEF q
<1> QED
  BY <1>1, <1>3, <1>4, OneRequestMoves

\* The user of a request that is loaded is among those it has seen.
LEMMA LoadedIsSeen ==
    ASSUME Inv, NEW r \in Requests, request[r].stage \in {"load", "find", "verify"}
    PROVE  /\ request[r].user \in Users /\ users[request[r].user] \in had[r]
           /\ users[request[r].user] \in Roles \cup {Removed}
<1>1. request[r].user \in Users
  BY DEF Inv, Sound, Guarded
<1> QED
  BY <1>1, PipelineAssumption DEF Inv, TypeOK, Seen

\* A request its guard lets pass stays sound.
LEMMA GoOnIsSound ==
    ASSUME Inv, NEW r \in Requests, NEW stage \in {"verify", "handle"}, NEW role \in Roles,
           role \in had[r], GoOn(r, stage, role), UNCHANGED <<users, accepted, had>>,
           stage = "verify" => request[r].stage = "find",
           stage = "handle" => /\ request[r].stage = "load"
                               /\ RolesOf(Asks(r)) = {} \/ role \in RolesOf(Asks(r))
    PROVE  Inv'
<1> DEFINE q == [request[r] EXCEPT !.stage = stage, !.role = role]
<1>1. request[r] \in Request /\ Sound(request[r], had[r]) /\ accepted \subseteq Token
  BY DEF Inv, TypeOK
<1>2. q \in Request /\ Sound(q, had[r]) /\ q.user = request[r].user
  <2>1. stage = "verify" => request[r].stage = "find"
    OBVIOUS
  <2>2. stage = "handle" => /\ request[r].stage = "load"
                            /\ \/ RolesOf(request[r].operation) = {}
                               \/ role \in RolesOf(request[r].operation)
    OBVIOUS
  <2> QED
    <3>1. ASSUME NEW old \in Request, NEW roles, Sound(old, roles), role \in roles,
                 stage = "verify" => old.stage = "find",
                 stage = "handle" => /\ old.stage = "load"
                                     /\ \/ RolesOf(old.operation) = {}
                                        \/ role \in RolesOf(old.operation)
          PROVE  LET next == [old EXCEPT !.stage = stage, !.role = role]
                 IN  next \in Request /\ Sound(next, roles) /\ next.user = old.user
      BY <3>1, GoneOnIsSound
    <3> QED
      BY <1>1, <2>1, <2>2, <3>1
<1>3. request' = [request EXCEPT ![r] = q]
  BY DEF GoOn
<1> HIDE DEF q
<1> QED
  BY <1>1, <1>2, <1>3, OneRequestMoves

\* Every step of a request keeps the invariant.
LEMMA StepIsSound ==
    ASSUME Inv, NEW r \in Requests, Step(r)
    PROVE  Inv'
<1> USE GuardsThrowExceptions
<1>1. CASE LoadUser(r)
  <2> DEFINE role == users[request[r].user]
  <2>1. request[r].stage = "load" /\ UNCHANGED <<users, accepted, had>>
    BY <1>1 DEF LoadUser, RowOf, CanActivate
  <2>2. role \in had[r] /\ role \in Roles \cup {Removed}
    BY <2>1, LoadedIsSeen
  <2>3. CASE \/ Throw(r, "access.InvalidCredentials") \/ Throw(r, "Forbidden")
             \/ Throw(r, Unmapped)
    BY <2>1, <2>3, ThrowIsSound
  <2>4. CASE /\ role # Removed /\ GoOn(r, "handle", role)
             /\ RolesOf(Asks(r)) = {} \/ role \in RolesOf(Asks(r))
    BY <2>1, <2>2, <2>4, GoOnIsSound
  <2> QED
    BY <1>1, <2>3, <2>4 DEF LoadUser, RowOf, CanActivate
<1>2. CASE FindByEmail(r)
  <2> DEFINE role == users[request[r].user]
  <2>1. request[r].stage = "find" /\ UNCHANGED <<users, accepted, had>>
    BY <1>2 DEF FindByEmail, RowOf
  <2>2. role \in had[r] /\ role \in Roles \cup {Removed}
    BY <2>1, LoadedIsSeen
  <2>3. CASE \/ Throw(r, "access.InvalidCredentials") \/ Throw(r, "BadRequest")
             \/ Throw(r, Unmapped)
    BY <2>1, <2>3, ThrowIsSound
  <2>4. CASE role # Removed /\ GoOn(r, "verify", role)
    BY <2>1, <2>2, <2>4, GoOnIsSound
  <2> QED
    BY <1>2, <2>3, <2>4 DEF FindByEmail, RowOf
<1>3. CASE WrongPassword(r)
  BY <1>3, ThrowIsSound DEF WrongPassword
<1>4. CASE VerifyPassword(r)
  <2> DEFINE q == Answer(request[r], Success(Asks(r)))
  <2>1. /\ request[r] \in Request /\ Sound(request[r], had[r]) /\ accepted \subseteq Token
        /\ request[r].stage = "verify"
    BY <1>4 DEF Inv, TypeOK, VerifyPassword
  <2>2. CASE request[r].role \in RequiredRoles(Asks(r)) /\ IssueToken(r)
    <3>1. request[r].user \in Users /\ request[r].role \in Roles
      BY <2>1 DEF Sound, Guarded
    <3>2. accepted' \subseteq Token
      BY <2>1, <2>2, <3>1 DEF IssueToken, Token
    <3>3. q \in Request /\ Sound(q, had[r]) /\ q.user = request[r].user
      BY <2>1, <2>2, SucceededIsSound
    <3>4. request' = [request EXCEPT ![r] = q] /\ users' = users /\ had' = had
      BY <2>2 DEF IssueToken
    <3> HIDE DEF q
    <3> QED
      BY <3>2, <3>3, <3>4, OneRequestMoves
  <2>3. CASE Throw(r, "access.ForbiddenRole") /\ UNCHANGED <<users, accepted, had>>
    BY <2>1, <2>3, ThrowIsSound
  <2> QED
    BY <1>4, <2>2, <2>3 DEF VerifyPassword
<1>5. CASE HandlerAnswers(r)
  <2> DEFINE q == Answer(request[r], Success(Asks(r)))
  <2>1. /\ request[r] \in Request /\ Sound(request[r], had[r]) /\ accepted \subseteq Token
        /\ request[r].stage = "handle"
    BY <1>5 DEF Inv, TypeOK, HandlerAnswers
  <2>2. q \in Request /\ Sound(q, had[r]) /\ q.user = request[r].user
    BY <2>1, SucceededIsSound
  <2>3. request' = [request EXCEPT ![r] = q] /\ UNCHANGED <<users, accepted, had>>
    BY <1>5 DEF HandlerAnswers
  <2> HIDE DEF q
  <2> QED
    BY <2>1, <2>2, <2>3, OneRequestMoves
<1>6. ASSUME NEW exception \in Exceptions, HandlerThrows(r, exception)
      PROVE  Inv'
  BY <1>6, ThrowIsSound DEF HandlerThrows
<1>7. ASSUME NEW entry \in AllEntries, Consider(r, entry)
      PROVE  Inv'
  <2> DEFINE better == request[r].match = NoMatch \/ Inherits(entry.class, request[r].match.class)
             q == [request[r] EXCEPT !.left = request[r].left \ {entry},
                        !.match = IF better THEN entry ELSE request[r].match]
  <2>1. /\ request[r] \in Request /\ Sound(request[r], had[r]) /\ accepted \subseteq Token
        /\ request[r].stage = "filter" /\ entry \in request[r].left
    BY <1>7 DEF Inv, TypeOK, Consider
  <2>2. q \in Request /\ Sound(q, had[r]) /\ q.user = request[r].user
    BY <2>1, ConsideredIsSound
  <2>3. request' = [request EXCEPT ![r] = q] /\ UNCHANGED <<users, accepted, had>>
    BY <1>7 DEF Consider
  <2> HIDE DEF q
  <2> QED
    BY <2>1, <2>2, <2>3, OneRequestMoves
<1>8. CASE Respond(r)
  <2> DEFINE q == Answer(request[r], Resolved(request[r]))
  <2>1. /\ request[r] \in Request /\ Sound(request[r], had[r]) /\ accepted \subseteq Token
        /\ request[r].stage = "filter" /\ request[r].left = {}
    BY <1>8 DEF Inv, TypeOK, Respond
  <2>2. q \in Request /\ Sound(q, had[r]) /\ q.user = request[r].user
    BY <2>1, RespondedIsSound
  <2>3. request' = [request EXCEPT ![r] = q] /\ UNCHANGED <<users, accepted, had>>
    BY <1>8 DEF Respond
  <2> HIDE DEF q
  <2> QED
    BY <2>1, <2>2, <2>3, OneRequestMoves
<1> QED
  BY <1>1, <1>2, <1>3, <1>4, <1>5, <1>6, <1>7, <1>8 DEF Step

-----------------------------------------------------------------------------
(***************************************************************************)
(* The theorems.                                                           *)
(***************************************************************************)
LEMMA InitIsSound == Init => Inv
<1> SUFFICES ASSUME Init PROVE Inv
  OBVIOUS
<1>1. "health" \in Operations
  BY DEF Operations, Controllers, AppController
<1> DEFINE q == Fresh("health", Nobody, "idle")
<1>2. q \in Request /\ \A roles : Sound(q, roles)
  BY <1>1, FreshIsSound
<1>3. q.user = Nobody
  BY DEF Fresh
<1>4. request = [r \in Requests |-> q] /\ had = [r \in Requests |-> {}]
  BY DEF Init
<1>5. accepted = {} /\ users \in [Users -> Roles]
  BY DEF Init
<1> HIDE DEF q
<1>6. users \in [Users -> Roles \cup {Removed}]
  BY <1>5
<1>7. TypeOK
  BY <1>2, <1>4, <1>5, <1>6 DEF TypeOK
<1> QED
  BY <1>2, <1>3, <1>4, <1>7 DEF Inv, Seen

\* The invariant is inductive.
LEMMA NextIsSound == Inv /\ [Next]_vars => Inv'
<1> SUFFICES ASSUME Inv, [Next]_vars PROVE Inv'
  OBVIOUS
<1>1. ASSUME NEW r \in Requests, Step(r)
      PROVE  Inv'
  BY <1>1, StepIsSound
<1>2. ASSUME NEW r \in Requests, NEW operation \in Called, Receive(r, operation)
      PROVE  Inv'
  BY <1>2, ReceiptIsSound, PipelineAssumption
<1>3. ASSUME NEW u \in Users, NEW role \in Roles \cup {Removed}, SetRole(u, role)
      PROVE  Inv'
  <2>1. TypeOK'
    BY <1>3 DEF SetRole, Inv, TypeOK
  <2>2. ASSUME NEW r \in Requests
        PROVE  Sound(request'[r], had'[r]) /\ Seen(request[r], had[r])'
    <3>1. had[r] \subseteq had'[r]
      BY <1>3 DEF SetRole
    <3>2. Sound(request[r], had'[r])
      BY <3>1, SoundWithMore DEF Inv
    <3>3. request[r].user \in Users \cup {Nobody}
      BY DEF Inv, TypeOK, Request
    <3>4. Seen(request[r], had[r])'
      BY <1>3, <3>3 DEF SetRole, Inv, TypeOK, Seen
    <3> QED
      BY <1>3, <3>2, <3>4 DEF SetRole
  <2> QED
    BY <2>1, <2>2 DEF Inv
<1>4. ASSUME NEW token \in Token, Expire(token)
      PROVE  Inv'
  BY <1>4 DEF Expire, Inv, TypeOK, Seen
<1>5. CASE UNCHANGED vars
  BY <1>5 DEF vars, Inv, TypeOK, Seen
<1> QED
  BY <1>1, <1>2, <1>3, <1>4, <1>5 DEF Next

\* The invariant of the pipeline, from which the rest follows.
THEOREM Invariance == Spec => []Inv
<1> QED
  BY InitIsSound, NextIsSound, PTL DEF Spec

\* Every variable has its type: in particular the filter only ever considers entries of
\* the exception maps.
THEOREM TypeCorrectness == Spec => []TypeOK
<1>1. Inv => TypeOK
  BY DEF Inv
<1> QED
  BY <1>1, Invariance, PTL

\* Behind the JWT guard a handler runs only for a user whose row, not token, has had the
\* role while the request was under way; likewise a login that issues a token.
THEOREM RolesAreThoseOfTheRow == Spec => []HandledWithRole
<1>1. Inv => HandledWithRole
  <2> SUFFICES ASSUME Inv, NEW r \in Requests
               PROVE  /\ At(r, "handle") /\ GuardOf(Asks(r)) = "jwt"
                            => had[r] \cap Asked(Asks(r)) # {}
                      /\ At(r, "answered") /\ Asks(r) \in Logins /\ request[r].status = 201
                            => had[r] \cap RequiredRoles(Asks(r)) # {}
    BY DEF HandledWithRole, Asked
  <2> QED
    BY DEF Inv, Sound, Guarded
<1> QED
  BY <1>1, Invariance, PTL

\* In whatever order a map lists its entries, the status is that of the closest class.
THEOREM ClosestEntryWins == Spec => []ClosestEntryDecides
<1>1. Inv => ClosestEntryDecides
  <2> SUFFICES ASSUME Inv, NEW r \in Requests, request[r].stage = "answered",
                      request[r].thrown \notin HttpExceptions \cup {"none"}
               PROVE  ClosestDecided(request[r])
    BY DEF ClosestEntryDecides, ClosestDecided, Fitting
  <2> QED
    BY DEF Inv, Sound
<1> QED
  BY <1>1, Invariance, PTL

\* What a context throws of its own is no exception of Nest, and its map has an entry
\* for its class or for one above it, none of which is an internal error.
LEMMA OwnExceptionsFit ==
    ASSUME NEW operation \in Operations, NEW exception \in Thrown(ContextOf(operation))
    PROVE  /\ exception \notin HttpExceptions \cup {"none"}
           /\ Fitting(operation, exception) # {}
           /\ \A entry \in Fitting(operation, exception) : entry.status < 500
<1>1. ASSUME NEW context \in Contexts, NEW thrown \in Thrown(context)
      PROVE  /\ thrown \notin {"BadRequest", "Unauthorized", "Forbidden",
                               "ServiceUnavailable", "none"}
             /\ \E entry \in StatusMap(context) : InstanceOf(thrown, entry.class)
  <2>1. CASE context = "access"
    BY <1>1, <2>1 DEF Thrown, StatusMap, AccessIdentityStatusMap, Entry, InstanceOf
  <2>2. CASE context = "customers"
    <3>1. /\ Entry("customers.Domain", 400) \in CustomerManagementStatusMap
          /\ thrown \in {"customers.CustomerNotFound", "customers.VehicleNotFound"}
                => Entry(thrown, 404) \in CustomerManagementStatusMap
          /\ thrown \in {"customers.CustomerAlreadyExists", "customers.CustomerIsArchived",
                          "customers.VehicleAlreadyExists"}
                => Entry(thrown, 409) \in CustomerManagementStatusMap
      BY DEF CustomerManagementStatusMap, Entries
    <3>2. StatusMap(context) = CustomerManagementStatusMap
      BY <2>2 DEF StatusMap
    <3>3. /\ InstanceOf("customers.InvalidDocument", "customers.Domain")
          /\ InstanceOf("customers.InvalidLicensePlate", "customers.Domain")
          /\ InstanceOf(thrown, thrown)
      BY DEF InstanceOf, Inherits, DomainExceptions
    <3>4. thrown \in Thrown("customers")
      BY <1>1, <2>2
    <3>5. \A status : Entry(thrown, status).class = thrown
      BY DEF Entry
    <3>6. Entry("customers.Domain", 400).class = "customers.Domain"
      BY DEF Entry
    <3> QED
      BY <3>1, <3>2, <3>3, <3>4, <3>5, <3>6 DEF Thrown
  <2>3. CASE context = "materials"
    <3>1. thrown \in {"materials.Domain", "materials.NotFound", "materials.InsufficientStock"}
      BY <1>1, <2>3 DEF Thrown
    <3>2. \E status \in {400, 404, 409} : Entry(thrown, status) \in MaterialsStatusMap
      BY <3>1 DEF MaterialsStatusMap
    <3>3. StatusMap(context) = MaterialsStatusMap
      BY <2>3 DEF StatusMap
    <3>4. InstanceOf(thrown, thrown) /\ \A status : Entry(thrown, status).class = thrown
      BY DEF InstanceOf, Entry
    <3>5. thrown \notin {"BadRequest", "Unauthorized", "Forbidden", "ServiceUnavailable", "none"}
      BY <3>1
    <3> QED
      BY <3>2, <3>3, <3>4, <3>5
  <2>4. CASE context = "orders"
    <3>1. thrown \in Thrown("orders")
      BY <1>1, <2>4
    <3>2. \E status \in {400, 404, 409} : Entry(thrown, status) \in ServiceOrdersStatusMap
      BY <3>1 DEF Thrown, ServiceOrdersStatusMap, Entries
    <3>3. StatusMap(context) = ServiceOrdersStatusMap
      BY <2>4 DEF StatusMap
    <3>4. InstanceOf(thrown, thrown) /\ \A status : Entry(thrown, status).class = thrown
      BY DEF InstanceOf, Entry
    <3>5. thrown \notin {"BadRequest", "Unauthorized", "Forbidden", "ServiceUnavailable", "none"}
      BY <3>1 DEF Thrown
    <3> QED
      BY <3>2, <3>3, <3>4, <3>5
  <2>5. CASE context = "app"
    BY <1>1, <2>5 DEF Thrown
  <2> QED
    BY <2>1, <2>2, <2>3, <2>4, <2>5 DEF Contexts
<1>2. \A context \in Contexts : \A entry \in StatusMap(context) : entry.status < 500
  BY DEF Contexts, StatusMap, AccessIdentityStatusMap, CustomerManagementStatusMap,
         MaterialsStatusMap, ServiceOrdersStatusMap, Entries, Entry
<1>3. ContextOf(operation) \in Contexts
  BY OperationsAreSound
<1> QED
  BY <1>1, <1>2, <1>3, TheHttpExceptions DEF Fitting

\* What a context throws of its own is answered with a status below 500, whatever else
\* happens to the request: the maps are complete for the classes of their contexts.
THEOREM OwnExceptionsAreAnswered == Spec => []OwnExceptionsAreMapped
<1>1. Inv => OwnExceptionsAreMapped
  <2> SUFFICES ASSUME Inv, NEW r \in Requests, request[r].stage = "answered",
                      request[r].thrown \in Thrown(ContextOf(request[r].operation))
               PROVE  request[r].status < 500
    BY DEF OwnExceptionsAreMapped
  <2>1. request[r].operation \in Operations
    BY DEF Inv, TypeOK, Request
  <2>2. /\ request[r].thrown \notin HttpExceptions \cup {"none"}
        /\ Fitting(request[r].operation, request[r].thrown) # {}
        /\ \A entry \in Fitting(request[r].operation, request[r].thrown) : entry.status < 500
    BY <2>1, OwnExceptionsFit
  <2>3. ClosestDecided(request[r])
    BY <2>2 DEF Inv, Sound
  <2> QED
    BY <2>2, <2>3 DEF ClosestDecided
<1> QED
  BY <1>1, Invariance, PTL
=============================================================================

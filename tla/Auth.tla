-------------------------------- MODULE Auth --------------------------------
(***************************************************************************)
(* Authentication (backend/core/internal/auth): the manager that the       *)
(* servers, the API and the path manager ask before they let somebody act. *)
(* Its method is fixed for its life: internal users, that a reload of the  *)
(* configuration replaces, a HTTP server that is asked every time, or      *)
(* tokens (JWT) checked with the keys of an issuer, that are kept for a    *)
(* period (jwksRefreshPeriod) or until the API asks for new ones.          *)
(*                                                                         *)
(* One mutex protects the users and the keys.  It is held while the keys   *)
(* are fetched, and a request has looked at the clock before it waits for  *)
(* the mutex.                                                              *)
(*                                                                         *)
(* A permission is an action and the paths it matches; a token is the      *)
(* version of the key that signed it and its permissions; what a wrong     *)
(* signature, issuer, audience or an expired token does is "broken".       *)
(***************************************************************************)
EXTENDS Naturals, FiniteSets

CONSTANTS
  Managers,    \* [method, exclude, inQuery] considered
  UserLists,   \* values of InternalUsers considered
  Inquiries,   \* what the requests may ask, by method
  Requests,
  Period,      \* jwksRefreshPeriod
  MaxTime,     \* bound: the clock
  MaxKey,      \* bound: versions of the keys of the issuer
  None

VARIABLES
  manager, users,
  keys,        \* jwtKeyFunc: the version of the keys
  refreshed,   \* jwksLastRefresh; None: zero
  holder,      \* of the mutex, while keys are fetched
  now,
  issued,      \* the keys that the issuer publishes
  issuedAt,    \* those it published when each tick began
  floor,       \* those it published at the last RefreshJWTJWKS
  request      \* [phase, inquiry, asked, token, user, failed, inForce, oldest]

vars == <<manager, users, keys, refreshed, holder, now, issued, issuedAt, floor, request>>
clockVars == <<now, issued, issuedAt>>

-----------------------------------------------------------------------------
(* Decisions.                                                              *)

(* matchesPermission; actions such as "api" have no path.                  *)
WithPath == {"publish", "read", "playback"}

\* Faulty variant: a permission is good for every path.
MatchesPermission_AnyPath(perms, inq) == \E p \in perms : p.action = inq.action

MatchesPermission(perms, inq) ==
  \E p \in perms :
    p.action = inq.action /\ (inq.action \in WithPath => inq.path \in p.paths)

(* getToken: the token, or the password, or the query, where it may be.    *)
IsHTTP(inq) == inq.protocol \in {"hls", "webrtc"}
               \/ inq.action \in {"playback", "api", "metrics", "pprof"}

GetToken(inQuery, inq) ==
  IF inq.token # None THEN inq.token
  ELSE IF inq.pass # None THEN inq.pass
  ELSE IF inq.protocol \in {"rtsp", "rtmp"} \/ (inQuery /\ IsHTTP(inq)) THEN inq.query
  ELSE None

(* authenticateWithUser *)
\* Faulty variant: permissions are not asked of the user.
GrantedBy_Anyone(u, inq) ==
  /\ u.ips = {} \/ inq.ip \in u.ips
  /\ u.user = "any" \/ (u.user = inq.user /\ u.pass = inq.pass)

GrantedBy(u, inq) ==
  /\ u.ips = {} \/ inq.ip \in u.ips
  /\ MatchesPermission(u.perms, inq)
  /\ u.user = "any" \/ (u.user = inq.user /\ u.pass = inq.pass)

(* jwt.ParseWithClaims and what follows. *)
TokenIsGood(token, known, inq) ==
  token.key = known /\ ~token.broken /\ MatchesPermission(token.perms, inq)

AsksCredentials(r) ==
  LET q == request[r]
  IN  q.inquiry.user = None /\ q.inquiry.pass = None /\ q.token = None

Answer(r, phase, user, failed) ==
  request' = [request EXCEPT ![r].phase = phase, ![r].asked = 0, ![r].user = user,
                             ![r].failed = failed]

Accept(r, user) == Answer(r, "accepted", user, FALSE)
Refuse(r) == Answer(r, IF AsksCredentials(r) THEN "asked" ELSE "refused", None, FALSE)
Fail(r) == Answer(r, IF AsksCredentials(r) THEN "asked" ELSE "refused", None, TRUE)

-----------------------------------------------------------------------------
(* Requests.                                                               *)

(* Authenticate: the token, what needs none, and the clock before the lock. *)
Authenticate(r) ==
  /\ request[r] = None
  /\ \E inq \in Inquiries[manager.method][r] :
       LET excluded == manager.method # "internal" /\ MatchesPermission(manager.exclude, inq)
       IN  request' = [request EXCEPT ![r] =
             [phase |-> IF excluded THEN "accepted" ELSE manager.method,
              inquiry |-> inq, asked |-> now, user |-> None, failed |-> FALSE,
              token |-> IF manager.method = "internal" THEN None
                        ELSE GetToken(manager.method = "jwt" /\ manager.inQuery, inq),
              inForce |-> {users},
              oldest |-> LET then == issuedAt[IF now < Period THEN 0 ELSE now - Period + 1]
                         IN  IF then > floor THEN then ELSE floor]]
  /\ UNCHANGED <<manager, users, keys, refreshed, holder, clockVars, floor>>

AuthenticateInternal(r) ==
  /\ request[r] # None /\ request[r].phase = "internal" /\ holder = None
  /\ IF \E u \in users : GrantedBy(u, request[r].inquiry)
     THEN Accept(r, request[r].inquiry.user) ELSE Refuse(r)
  /\ UNCHANGED <<manager, users, keys, refreshed, holder, clockVars, floor>>

(* The HTTP server says yes or no, or does not answer in time. *)
AuthenticateHTTP(r) ==
  /\ request[r] # None /\ request[r].phase = "http"
  /\ \/ Accept(r, request[r].inquiry.user)
     \/ Refuse(r)
     \/ Fail(r)
  /\ UNCHANGED <<manager, users, keys, refreshed, holder, clockVars, floor>>

Judge(r, known) ==
  LET q == request[r]
  IN  IF q.token # None /\ TokenIsGood(q.token, known, q.inquiry)
      THEN Accept(r, q.token.subject) ELSE Refuse(r)

(* pullJWTJWKS, when the keys are young enough: time went by before the    *)
(* lock, so that the last refresh may even be later than the request.      *)
\* Faulty variant: one period more.
Young_Longer(r) == refreshed # None /\ request[r].asked < refreshed + 2 * Period

Young(r) == refreshed # None /\ request[r].asked < refreshed + Period

JudgeWithKeys(r) ==
  /\ request[r] # None /\ request[r].phase = "jwt" /\ holder = None
  /\ Young(r)
  /\ Judge(r, keys)
  /\ UNCHANGED <<manager, users, keys, refreshed, holder, clockVars, floor>>

(* ... otherwise they are fetched, with the mutex. *)
Fetch(r) ==
  /\ request[r] # None /\ request[r].phase = "jwt" /\ holder = None
  /\ ~Young(r)
  /\ holder' = r
  /\ UNCHANGED <<manager, users, keys, refreshed, clockVars, floor, request>>

Fetched(r) ==
  /\ holder = r
  /\ holder' = None
  /\ keys' = issued
  /\ refreshed' = request[r].asked
  /\ Judge(r, issued)
  /\ UNCHANGED <<manager, users, clockVars, floor>>

(* The old keys are not used if there are no new ones. *)
\* Faulty variant: the mutex is never unlocked.
FetchFails_Locked(r) ==
  /\ holder = r
  /\ holder' = "nobody"
  /\ Fail(r)
  /\ UNCHANGED <<manager, users, keys, refreshed, clockVars, floor>>

FetchFails(r) ==
  /\ holder = r
  /\ holder' = None
  /\ Fail(r)
  /\ UNCHANGED <<manager, users, keys, refreshed, clockVars, floor>>

(* The owner of the request has been answered and may ask again. *)
Return(r) ==
  /\ request[r] # None /\ request[r].phase \in {"accepted", "refused", "asked"}
  /\ request' = [request EXCEPT ![r] = None]
  /\ UNCHANGED <<manager, users, keys, refreshed, holder, clockVars, floor>>

-----------------------------------------------------------------------------
(* ReloadInternalUsers *)
ReloadInternalUsers(new) ==
  /\ manager.method = "internal" /\ holder = None
  /\ users' = new
  /\ request' = [r \in Requests |->
       IF request[r] # None /\ request[r].phase = "internal"
       THEN [request[r] EXCEPT !.inForce = @ \cup {new}] ELSE request[r]]
  /\ UNCHANGED <<manager, keys, refreshed, holder, clockVars, floor>>

(* RefreshJWTJWKS, by POST /v3/auth/jwks/refresh. *)
RefreshJWTJWKS ==
  /\ manager.method = "jwt" /\ holder = None
  /\ refreshed' = None
  /\ floor' = issued
  /\ UNCHANGED <<manager, users, keys, holder, clockVars, request>>

(* The issuer changes its keys. *)
Rotate ==
  /\ manager.method = "jwt" /\ issued < MaxKey
  /\ issued' = issued + 1
  /\ UNCHANGED <<manager, users, keys, refreshed, holder, now, issuedAt, floor, request>>

(* A fetch ends within readTimeout, less than a tick here. *)
Tick ==
  /\ manager.method = "jwt" /\ now < MaxTime
  /\ now' = now + 1
  /\ issuedAt' = [issuedAt EXCEPT ![now'] = issued]
  /\ UNCHANGED <<manager, users, keys, refreshed, holder, issued, floor, request>>

Init ==
  /\ manager \in Managers
  /\ users \in UserLists
  /\ keys = 0 /\ refreshed = None /\ holder = None
  /\ now = 0 /\ issued = 1 /\ issuedAt = [t \in 0..MaxTime |-> 1] /\ floor = 1
  /\ request = [r \in Requests |-> None]

Next ==
  \/ \E r \in Requests :
       \/ Authenticate(r) \/ AuthenticateInternal(r) \/ AuthenticateHTTP(r)
       \/ JudgeWithKeys(r) \/ Fetch(r) \/ Fetched(r) \/ FetchFails(r) \/ Return(r)
  \/ \E new \in UserLists : ReloadInternalUsers(new)
  \/ RefreshJWTJWKS \/ Rotate \/ Tick

(* The HTTP clients have a timeout, and the mutex lets everybody in.       *)
Fairness ==
  \A r \in Requests :
    /\ WF_vars(AuthenticateHTTP(r)) /\ WF_vars(Fetched(r) \/ FetchFails(r))
    /\ SF_vars(AuthenticateInternal(r)) /\ SF_vars(JudgeWithKeys(r) \/ Fetch(r))

Spec == Init /\ [][Next]_vars /\ Fairness

-----------------------------------------------------------------------------
TypeOK ==
  /\ manager \in Managers /\ users \in UserLists
  /\ keys \in 0..MaxKey /\ issued \in 1..MaxKey /\ floor \in 1..MaxKey
  /\ refreshed \in 0..MaxTime \cup {None}
  /\ holder \in Requests \cup {None}
  /\ \A r \in Requests : request[r] = None
       \/ request[r].phase \in {"internal", "http", "jwt", "accepted", "refused", "asked"}

(* What permissions allow. *)
Allowed(perms, inq) ==
  \E p \in perms :
    p.action = inq.action /\ (inq.path \in p.paths \/ inq.action \notin WithPath)

(* What somebody may do by one list of users: there is one user with the   *)
(* credentials, from that address, and the permission.                     *)
EntitledBy(list, inq) ==
  \E u \in list :
    /\ u.user \in {"any"} \cup {inq.user} /\ (u.user # "any" => u.pass = inq.pass)
    /\ u.ips # {} => inq.ip \in u.ips
    /\ Allowed(u.perms, inq)

(* A verdict is that of a list of users which was in force while the       *)
(* request was considered; a token is accepted only if its key was         *)
(* published less than a period before the request, and not before the     *)
(* last refresh that the request came after; and it is refused only if     *)
(* something failed or it is not good by some keys of that time.           *)
VerdictsAreRight ==
  \A r \in Requests :
    LET q == request[r]
    IN  q # None /\ q.phase \in {"accepted", "refused", "asked"} =>
          CASE manager.method = "internal" ->
                 \E list \in q.inForce : EntitledBy(list, q.inquiry) = (q.phase = "accepted")
            [] manager.method = "http" -> TRUE
            [] manager.method = "jwt" ->
                 LET excluded == Allowed(manager.exclude, q.inquiry)
                     good == /\ q.token # None /\ ~q.token.broken
                             /\ Allowed(q.token.perms, q.inquiry)
                 IN  IF q.phase = "accepted"
                     THEN excluded \/ (good /\ q.token.key \in q.oldest..issued)
                     ELSE ~excluded /\ (q.failed \/ ~good \/ q.oldest..issued # {q.token.key})

(* Every request is answered, however many wait for the keys. *)
RequestsEnd ==
  \A r \in Requests : (request[r] # None) ~> (request[r] = None \/
                        request[r].phase \in {"accepted", "refused", "asked"})
=============================================================================

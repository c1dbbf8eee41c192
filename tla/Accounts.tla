------------------------------ MODULE Accounts ------------------------------
(***************************************************************************)
(* The users of the dashboard and their sessions: the table users          *)
(* (internal/auth/users.go), the sessions in memory                        *)
(* (internal/auth/rbac_session.go), the login and the endpoints of the     *)
(* administrators (internal/api/users.go), behind the role check of        *)
(* internal/api/rbac.go, and the administrator a start of the control      *)
(* plane makes (cmd/control-plane/main.go), with ADMIN_EMAIL and           *)
(* ADMIN_PASSWORD set.                                                     *)
(*                                                                         *)
(* A handler is a request that runs beside others: every statement on the  *)
(* database, and every call of the session manager, is a step.  Passwords  *)
(* are right; a statement that fails changes nothing.                      *)
(***************************************************************************)
EXTENDS Naturals, FiniteSets

CONSTANTS
  User,       \* ids of users; a new row gets an id that was never used
  Email,
  EmailOf,    \* User -> its e-mail address
  AdminEmail, \* ADMIN_EMAIL
  Role,       \* "admin" and others
  Token,      \* bound: sessions at a time; a new one has a fresh token
  Call,       \* bound: requests at a time
  Nobody      \* no row, no session, no request

VARIABLES
  users,      \* User -> the role in its row, or Nobody
  known,      \* ids that were ever used
  sessions,   \* Token -> [user, role, crossed]; crossed: see LoginRead
  calls,      \* Call -> the request it serves
  blindfold   \* history: an admin was removed on a count that was old, or failed

accountsVars == <<users, known, sessions, calls, blindfold>>

\* A login that has read its user.
Login == [kind : {"login"}, user : User, role : Role, crossed : BOOLEAN]
\* PUT /v1/users/{id}/role and DELETE /v1/users/{id}; unsure: the count, or the target,
\* failed or is old.
Removal == [kind : {"delete"}, user : User, role : {Nobody},
            step : {"count", "target", "revoke", "write"}, unsure : BOOLEAN]
Change  == [kind : {"role"}, user : User, role : Role,
            step : {"count", "target", "write", "revoke"}, unsure : BOOLEAN]
Admin   == Removal \union Change
Session == [user : User, role : Role, crossed : BOOLEAN]

ASSUME AccountsAssumption ==
  /\ EmailOf \in [User -> Email] /\ AdminEmail \in Email
  /\ "admin" \in Role /\ Nobody \notin Role
  /\ Nobody \notin Session \union Login \union Admin

AccountsTypeOK ==
  /\ users \in [User -> Role \union {Nobody}] /\ known \subseteq User
  /\ sessions \in [Token -> Session \union {Nobody}]
  /\ calls \in [Call -> Login \union Admin \union {Nobody}]
  /\ blindfold \in BOOLEAN

Rows      == {u \in User : users[u] # Nobody}
CountByRole(r) == Cardinality({u \in Rows : users[u] = r})
FreeToken == CHOOSE t \in Token : sessions[t] = Nobody
FreeCall  == CHOOSE q \in Call : calls[q] = Nobody
Serving(q, kind) == calls[q] # Nobody /\ calls[q].kind = kind
Concerns(q, u) == calls[q] # Nobody /\ calls[q].user = u
Respond(q) == calls' = [calls EXCEPT ![q] = Nobody]
Step(q, s) == calls' = [calls EXCEPT ![q].step = s]

\* The administrator a start makes: by the address, whatever the role of its row.
Bootstrapped(rows) ==
  IF \E u \in User : rows[u] # Nobody /\ EmailOf[u] = AdminEmail THEN {}
  ELSE {u \in User \ known : EmailOf[u] = AdminEmail}

AccountsInit ==
  /\ \E u \in User : /\ EmailOf[u] = AdminEmail /\ known = {u}
                     /\ users = [v \in User |-> IF v = u THEN "admin" ELSE Nobody]
  /\ sessions = [t \in Token |-> Nobody] /\ calls = [q \in Call |-> Nobody]
  /\ blindfold = FALSE

\* Sessions and requests live in memory; then the administrator of ADMIN_EMAIL is made.
Restart ==
  /\ sessions' = [t \in Token |-> Nobody] /\ calls' = [q \in Call |-> Nobody]
  /\ \/ Bootstrapped(users) = {} /\ UNCHANGED <<users, known>>
     \/ \E u \in Bootstrapped(users) :
          users' = [users EXCEPT ![u] = "admin"] /\ known' = known \union {u}
  /\ UNCHANGED blindfold

(***************************************************************************)
(* Sessions.                                                               *)
(***************************************************************************)

\* The row is read, the password compared; crossed: an administrator's request about
\* the same user is, or comes, under way before the session is there.
LoginRead(q, u) ==
  /\ calls[q] = Nobody /\ q = FreeCall /\ u \in Rows
  /\ calls' = [calls EXCEPT ![q] = [kind |-> "login", user |-> u, role |-> users[u],
                                    crossed |-> \E p \in Call : Concerns(p, u) /\ ~Serving(p, "login")]]
  /\ UNCHANGED <<users, known, sessions, blindfold>>

LoginCreate(q, t) ==
  /\ Serving(q, "login") /\ sessions[t] = Nobody /\ t = FreeToken
  /\ sessions' = [sessions EXCEPT ![t] = [user |-> calls[q].user, role |-> calls[q].role,
                                          crossed |-> calls[q].crossed]]
  /\ Respond(q)
  /\ UNCHANGED <<users, known, blindfold>>

\* POST /auth/logout; the eight hours are over and the session is refused, or collected.
Revoke(t) ==
  /\ sessions[t] # Nobody
  /\ sessions' = [sessions EXCEPT ![t] = Nobody]
  /\ UNCHANGED <<users, known, calls, blindfold>>

RevokeByUser(u) ==
  [t \in Token |-> IF sessions[t] # Nobody /\ sessions[t].user = u THEN Nobody ELSE sessions[t]]

(***************************************************************************)
(* The administrators' endpoints: a session with the role admin asks.      *)
(***************************************************************************)

Allowed == \E t \in Token : sessions[t] # Nobody /\ sessions[t].role = "admin"

CreateUser(u, r) ==
  /\ Allowed
  /\ u \notin known /\ \A v \in Rows : EmailOf[v] # EmailOf[u]
  /\ users' = [users EXCEPT ![u] = r] /\ known' = known \union {u}
  /\ UNCHANGED <<sessions, calls, blindfold>>

\* The logins of the user that are under way are crossed from here on.
Arrive(q, call) ==
  /\ Allowed /\ calls[q] = Nobody /\ q = FreeCall
  /\ calls' = [p \in Call |->
       IF p = q THEN call
       ELSE IF Serving(p, "login") /\ Concerns(p, call.user) THEN [calls[p] EXCEPT !.crossed = TRUE]
       ELSE calls[p]]
  /\ UNCHANGED <<users, known, sessions, blindfold>>

\* Only a role other than admin is guarded.
ArriveRole(q, u, r) ==
  Arrive(q, [kind |-> "role", user |-> u, role |-> r, unsure |-> FALSE,
             step |-> IF r = "admin" THEN "write" ELSE "count"])

ArriveDelete(q, u) ==
  Arrive(q, [kind |-> "delete", user |-> u, role |-> Nobody, unsure |-> FALSE, step |-> "count"])

\* What a guarded request does once nothing stops it.
Proceed(q) == IF calls[q].kind = "role" THEN "write" ELSE "revoke"

\* Variant: the guard waits until there is none.
FewByLess(n) == n < 1
Few(n) == n <= 1

Doing(q, s) == (Serving(q, "role") \/ Serving(q, "delete")) /\ calls[q].step = s

CountAdmins(q) ==
  /\ Doing(q, "count")
  /\ Step(q, IF Few(CountByRole("admin")) THEN "target" ELSE Proceed(q))
  /\ UNCHANGED <<users, known, sessions, blindfold>>

\* An error skips the guard; so does one when the target is read.
ReadFails(q) ==
  /\ Doing(q, "count") \/ Doing(q, "target")
  /\ calls' = [calls EXCEPT ![q].step = Proceed(q), ![q].unsure = TRUE]
  /\ UNCHANGED <<users, known, sessions, blindfold>>

\* 409 for the last admin.
ReadTarget(q) ==
  /\ Doing(q, "target")
  /\ IF users[calls[q].user] = "admin" THEN Respond(q) ELSE Step(q, Proceed(q))
  /\ UNCHANGED <<users, known, sessions, blindfold>>

\* A role that was admin goes: what other guarded requests know of the admins is old.
Written(q, next) ==
  LET was == users[calls[q].user] IN
  /\ calls' = [p \in Call |->
       IF p = q THEN next
       ELSE IF was = "admin" /\ (Doing(p, "target") \/ Doing(p, "write") \/ (Doing(p, "revoke") /\ Serving(p, "delete")))
       THEN [calls[p] EXCEPT !.unsure = TRUE]
       ELSE calls[p]]
  /\ blindfold' = (blindfold \/ (was = "admin" /\ calls[q].unsure))

\* 404 without a row, 500 when the statement fails.
WriteFails(q) ==
  /\ Doing(q, "write") /\ Respond(q)
  /\ UNCHANGED <<users, known, sessions, blindfold>>

\* Variant: the sessions of the user are left alone.
UpdateRoleOnly(q) ==
  /\ Serving(q, "role") /\ Doing(q, "write") /\ calls[q].user \in Rows
  /\ users' = [users EXCEPT ![calls[q].user] = calls[q].role]
  /\ Written(q, Nobody)
  /\ UNCHANGED <<known, sessions>>
UpdateRole(q) ==
  /\ Serving(q, "role") /\ Doing(q, "write") /\ calls[q].user \in Rows
  /\ users' = [users EXCEPT ![calls[q].user] = calls[q].role]
  /\ Written(q, [calls[q] EXCEPT !.step = "revoke"])
  /\ UNCHANGED <<known, sessions>>

DeleteUser(q) ==
  /\ Serving(q, "delete") /\ Doing(q, "write") /\ calls[q].user \in Rows
  /\ users' = [users EXCEPT ![calls[q].user] = Nobody]
  /\ Written(q, Nobody)
  /\ UNCHANGED <<known, sessions>>

\* After the update of a role, before the delete of a row.
RevokeSessions(q) ==
  /\ Doing(q, "revoke")
  /\ sessions' = RevokeByUser(calls[q].user)
  /\ IF calls[q].kind = "role" THEN Respond(q) ELSE Step(q, "write")
  /\ UNCHANGED <<users, known, blindfold>>

AccountsNext ==
  \/ Restart
  \/ \E t \in Token : Revoke(t)
  \/ \E u \in User, r \in Role : CreateUser(u, r)
  \/ \E q \in Call :
       \/ \E u \in User : LoginRead(q, u) \/ ArriveDelete(q, u) \/ \E r \in Role : ArriveRole(q, u, r)
       \/ \E t \in Token : LoginCreate(q, t)
       \/ CountAdmins(q) \/ ReadFails(q) \/ ReadTarget(q)
       \/ WriteFails(q) \/ UpdateRole(q) \/ DeleteUser(q) \/ RevokeSessions(q)

AccountsSpec == AccountsInit /\ [][AccountsNext]_accountsVars

(***************************************************************************)
(* Properties.                                                             *)
(***************************************************************************)

\* The count of the admins, the read of the target and the write are three statements
\* (api/users.go:214-224, 253-264): the last admin goes only when another write came
\* between them, or a read failed, which skips the guard.
LastAdminStays == (\A u \in User : users[u] # "admin") => blindfold

\* "Invalidate all sessions for this user so new role takes effect immediately"
\* (api/users.go:228): a session whose role is not the one in its user's row was made by
\* a login that an administrator's request about this user crossed, or such a request has
\* written the row and is about to revoke.
StaleSessionsCrossed ==
  \A t \in Token : sessions[t] # Nobody =>
    LET s == sessions[t] IN
    \/ users[s.user] = s.role
    \/ s.crossed
    \/ \E q \in Call : Serving(q, "role") /\ Doing(q, "revoke") /\ Concerns(q, s.user)
=============================================================================

------------------------------- MODULE Accounts -------------------------------
(***************************************************************************)
(* Users and sessions of the backend: the two Postgres tables, the request *)
(* handlers of auth_handlers.go and user_handlers.go, SessionStore, and    *)
(* SeedUsers at startup.  A handler runs a sequence of SQL statements,     *)
(* each atomic, with no transaction around them; the statements of         *)
(* concurrent requests interleave, any of them may fail (the client hung   *)
(* up, which cancels r.Context(), or the database refused), and the        *)
(* process may die between two of them.                                    *)
(***************************************************************************)
EXTENDS Naturals, Sequences, FiniteSets

CONSTANTS
  User,         \* usernames
  Request,      \* requests the backend may be serving at once
  Token,        \* session tokens
  Seeds,        \* MIRRAURA_ADMIN_USER, then the entries of users.json
  NoUser,       \* no such row
  NoSession,    \* no session with this token
  MaxChanges,   \* bound: user-management requests
  MaxFaults     \* bound: failed statements and crashes

Roles == {"admin", "analyst"}

ASSUME SeedsAssumption ==
  /\ Seeds \in Seq([username : User, role : Roles])
  /\ Len(Seeds) >= 1 /\ Seeds[1].role = "admin"

ASSUME UserAssumption == IsFiniteSet(User) /\ NoUser \notin Roles

ASSUME BoundsAssumption == MaxChanges \in Nat /\ MaxFaults \in Nat

VARIABLES
  users,        \* the users table: each user's role
  sessions,     \* the sessions table
  phase,        \* "down", "booting", "serving"
  seeding,      \* while booting: the rows SeedUsers has still to insert
  req,          \* per request: the statement it is about to run (pc), what it asks
                \* for (op), its cookie (token), and the session in its context or,
                \* in a login, the user row read (sess)
  audit,        \* the audit log's entries about users
  done,         \* history: changes that took place, by whom
  bornStale,    \* history: tokens created with a role the user no longer had
  unswept,      \* history: users whose sessions a change failed to delete
  overlapped,   \* history: two requests have been in progress at once
  changes, faults

tables == << users, sessions >>
history == << done, bornStale, unswept, overlapped >>
vars == << tables, phase, seeding, req, audit, history, changes, faults >>

Sessions == [username : User, role : Roles, expired : BOOLEAN]
ASSUME SessionAssumption == NoSession \notin Sessions

Ops == [kind : {"read", "logout"}]
         \cup [kind : {"delete"}, target : User]
         \cup [kind : {"create", "role"}, target : User, role : Roles]
Steps == {"renew", "dropExpired", "logout", "insert", "getTarget", "countAdmins", "change",
          "invalidate", "audit"}
Users == [username : User, role : Roles]
Idle == [pc |-> "idle"]
Requests == {Idle} \cup [pc : {"login"}, sess : Users]
              \cup [pc : Steps, op : Ops, token : Token, sess : Users]
Records == [action : {"user_created", "user_removed", "user_role_changed"},
            target : User, actor : User]

TypeOK ==
  /\ users \in [User -> Roles \cup {NoUser}]
  /\ sessions \in [Token -> Sessions \cup {NoSession}]
  /\ phase \in {"down", "booting", "serving"}
  /\ seeding \in Seq(Users)
  /\ req \in [Request -> Requests]
  /\ audit \subseteq Records /\ done \subseteq Records
  /\ bornStale \subseteq Token /\ unswept \subseteq User /\ overlapped \in BOOLEAN
  /\ changes \in 0..MaxChanges /\ faults \in 0..MaxFaults

Admins == {u \in User : users[u] = "admin"}

\* The request's next statement; an answered request leaves nothing behind.
At(r, step) == req[r].pc = step
Goto(r, step) == req' = [req EXCEPT ![r] = IF step = "idle" THEN Idle
                                           ELSE [@ EXCEPT !.pc = step]]

Init ==
  /\ users = [u \in User |-> NoUser]
  /\ sessions = [t \in Token |-> NoSession]
  /\ phase = "down" /\ seeding = << >>
  /\ req = [r \in Request |-> Idle]
  /\ audit = {} /\ done = {} /\ bornStale = {} /\ unswept = {} /\ overlapped = FALSE
  /\ changes = 0 /\ faults = 0

-------------------------------------------------------------------------------
(* Startup: SeedUsers *)

\* SELECT count(*) FROM users: only an empty table is seeded.
Boot ==
  /\ phase = "down"
  /\ phase' = "booting"
  /\ seeding' = IF \A u \in User : users[u] = NoUser THEN Seeds ELSE << >>
  /\ UNCHANGED << tables, req, audit, history, changes, faults >>

\* upsertUserIfAbsent for the admin, then for each entry of users.json.
SeedNext ==
  /\ phase = "booting" /\ seeding # << >>
  /\ LET s == Head(seeding)
     IN  users' = [users EXCEPT ![s.username] = IF @ = NoUser THEN s.role ELSE @]
  /\ seeding' = Tail(seeding)
  /\ UNCHANGED << sessions, phase, req, audit, history, changes, faults >>

Serve ==
  /\ phase = "booting" /\ seeding = << >>
  /\ phase' = "serving"
  /\ UNCHANGED << tables, seeding, req, audit, history, changes, faults >>

\* The users whose sessions a request still has to delete.
BeingSwept == {req[r].op.target : r \in {q \in Request : At(q, "invalidate")}}

\* The process dies; the tables stay as they are.
Crash ==
  /\ phase # "down" /\ faults < MaxFaults
  /\ faults' = faults + 1
  /\ phase' = "down" /\ seeding' = << >>
  /\ req' = [r \in Request |-> Idle]
  /\ unswept' = unswept \cup BeingSwept
  /\ UNCHANGED << tables, audit, done, bornStale, overlapped, changes >>

\* History only: another request is in progress when r begins.
Begin(r) == overlapped' = (overlapped \/ \E q \in Request \ {r} : ~At(q, "idle"))

-------------------------------------------------------------------------------
(* Login *)

\* GetUser and a matching password (any other attempt changes nothing here).
LoginRead(r, u) ==
  /\ phase = "serving" /\ At(r, "idle")
  /\ users[u] # NoUser
  /\ req' = [req EXCEPT ![r] =
                [pc |-> "login", sess |-> [username |-> u, role |-> users[u]]]]
  /\ Begin(r)
  /\ UNCHANGED << tables, phase, seeding, audit, done, bornStale, unswept, changes, faults >>

\* SessionStore.Create with the role read before the password was checked.
LoginCreate(r, t) ==
  /\ At(r, "login")
  /\ sessions[t] = NoSession
  /\ \A q \in Request : req[q].pc \in Steps => req[q].token # t
  /\ LET u == req[r].sess.username
     IN  /\ sessions' = [sessions EXCEPT ![t] =
                          [username |-> u, role |-> req[r].sess.role, expired |-> FALSE]]
         /\ bornStale' = IF req[r].sess.role = users[u] THEN bornStale \ {t}
                                                   ELSE bornStale \cup {t}
  /\ Goto(r, "idle")
  /\ UNCHANGED << users, phase, seeding, audit, done, unswept, overlapped, changes, faults >>

-------------------------------------------------------------------------------
(* requireAuth: SessionStore.Get *)

\* SELECT the session: a valid one is about to be renewed, an expired one to
\* be deleted; without one the answer is 401.
Authenticate(r, t, o) ==
  /\ phase = "serving" /\ At(r, "idle")
  /\ sessions[t] # NoSession
  /\ o.kind \in {"create", "delete", "role"} => changes < MaxChanges
  /\ changes' = IF o.kind \in {"create", "delete", "role"} THEN changes + 1 ELSE changes
  /\ LET s == sessions[t]
     IN  req' = [req EXCEPT ![r] =
                   [pc |-> IF s.expired THEN "dropExpired" ELSE "renew", op |-> o,
                    token |-> t, sess |-> [username |-> s.username, role |-> s.role]]]
  /\ Begin(r)
  /\ UNCHANGED << tables, phase, seeding, audit, done, bornStale, unswept, faults >>

\* The first statement of each handler; requireRole stops a non-admin.
Handler(o, role) ==
  CASE o.kind = "logout" -> "logout"
    [] o.kind = "create" /\ role = "admin" -> "insert"
    [] o.kind \in {"delete", "role"} /\ role = "admin" -> "getTarget"
    [] OTHER -> "idle"

\* Get's UPDATE of expires_at, on whatever row the token has by now; its
\* error is ignored.  Then the handler runs.
Renew(r) ==
  /\ At(r, "renew")
  /\ sessions' = IF sessions[req[r].token] = NoSession THEN sessions
                 ELSE [sessions EXCEPT ![req[r].token].expired = FALSE]
  /\ Goto(r, Handler(req[r].op, req[r].sess.role))
  /\ UNCHANGED << users, phase, seeding, audit, history, changes, faults >>

\* DELETE by token: an expired session in Get, or logoutHandler.
DropSession(r) ==
  /\ req[r].pc \in {"dropExpired", "logout"}
  /\ sessions' = [sessions EXCEPT ![req[r].token] = NoSession]
  /\ Goto(r, "idle")
  /\ UNCHANGED << users, phase, seeding, audit, history, changes, faults >>

\* sessionTTL passes without a request.
Expire(t) ==
  /\ sessions[t] # NoSession /\ ~sessions[t].expired
  /\ sessions' = [sessions EXCEPT ![t].expired = TRUE]
  /\ UNCHANGED << users, phase, seeding, req, audit, history, changes, faults >>

\* The hourly CleanupExpired.
CleanupExpired ==
  /\ phase = "serving"
  /\ \E t \in Token : sessions[t] # NoSession /\ sessions[t].expired
  /\ sessions' = [t \in Token |->
                    IF sessions[t] # NoSession /\ sessions[t].expired THEN NoSession
                    ELSE sessions[t]]
  /\ UNCHANGED << users, phase, seeding, req, audit, history, changes, faults >>

-------------------------------------------------------------------------------
(* createUserHandler, deleteUserHandler, updateUserRoleHandler *)

Record(r) ==
  [action |-> CASE req[r].op.kind = "create" -> "user_created"
                [] req[r].op.kind = "delete" -> "user_removed"
                [] OTHER -> "user_role_changed",
   target |-> req[r].op.target, actor |-> req[r].sess.username]

\* The effect of the request's INSERT, DELETE or UPDATE on the users table;
\* an UPDATE or DELETE of no row is no error.
Apply(r) ==
  LET o == req[r].op
      present == users[o.target] # NoUser
      sets == o.kind = "create" \/ (o.kind = "role" /\ present)
  IN  /\ users' = [users EXCEPT ![o.target] = IF sets THEN o.role ELSE NoUser]
      /\ done' = IF o.kind = "create" \/ present THEN done \cup {Record(r)} ELSE done

\* INSERT INTO users; a username that is taken is a 409.
InsertUser(r) ==
  /\ At(r, "insert")
  /\ IF users[req[r].op.target] = NoUser
     THEN Apply(r) /\ Goto(r, "audit")
     ELSE Goto(r, "idle") /\ UNCHANGED << users, done >>
  /\ UNCHANGED << sessions, phase, seeding, audit, bornStale, unswept, overlapped, changes,
                  faults >>

\* Mutant: a target that does not exist is no 404.
GetTarget_Missing(r) ==
  /\ At(r, "getTarget")
  /\ LET role == users[req[r].op.target]
         demotes == req[r].op.kind = "delete" \/ req[r].op.role = "analyst"
     IN  Goto(r, IF role = "admin" /\ demotes THEN "countAdmins" ELSE "change")
  /\ UNCHANGED << tables, phase, seeding, audit, history, changes, faults >>

\* GetUser of the target: 404 without one; an admin about to lose the role
\* (or the account) is counted first.
GetTarget(r) ==
  /\ At(r, "getTarget")
  /\ LET role == users[req[r].op.target]
         demotes == req[r].op.kind = "delete" \/ req[r].op.role = "analyst"
     IN  Goto(r, IF role = NoUser THEN "idle"
                 ELSE IF role = "admin" /\ demotes THEN "countAdmins" ELSE "change")
  /\ UNCHANGED << tables, phase, seeding, audit, history, changes, faults >>

\* Mutant: off by one, "n < 1".
CountAdmins_Lax(r) ==
  /\ At(r, "countAdmins")
  /\ Goto(r, IF Cardinality(Admins) < 1 THEN "idle" ELSE "change")
  /\ UNCHANGED << tables, phase, seeding, audit, history, changes, faults >>

\* countAdmins: n <= 1 is a 409.
CountAdmins(r) ==
  /\ At(r, "countAdmins")
  /\ Goto(r, IF Cardinality(Admins) <= 1 THEN "idle" ELSE "change")
  /\ UNCHANGED << tables, phase, seeding, audit, history, changes, faults >>

\* Mutant: only a deletion invalidates sessions.
ChangeUser_KeepsSessions(r) ==
  /\ At(r, "change")
  /\ Apply(r)
  /\ Goto(r, IF req[r].op.kind = "delete" THEN "invalidate" ELSE "audit")
  /\ UNCHANGED << sessions, phase, seeding, audit, bornStale, unswept, overlapped, changes,
                  faults >>

\* DELETE FROM users, or UPDATE users SET role.
ChangeUser(r) ==
  /\ At(r, "change")
  /\ Apply(r)
  /\ Goto(r, "invalidate")
  /\ UNCHANGED << sessions, phase, seeding, audit, bornStale, unswept, overlapped, changes,
                  faults >>

\* The database does it but the answer is lost (the client hung up): the
\* handler reports an error and stops.
ChangeUnacknowledged(r) ==
  /\ \/ At(r, "change")
     \/ At(r, "insert") /\ users[req[r].op.target] = NoUser
  /\ faults < MaxFaults
  /\ faults' = faults + 1
  /\ Apply(r)
  /\ unswept' = IF At(r, "change") THEN unswept \cup {req[r].op.target} ELSE unswept
  /\ Goto(r, "idle")
  /\ UNCHANGED << sessions, phase, seeding, audit, bornStale, overlapped, changes >>

\* DeleteByUsername.
Invalidate(r) ==
  /\ At(r, "invalidate")
  /\ LET u == req[r].op.target
     IN  /\ sessions' = [t \in Token |->
                           IF sessions[t] # NoSession /\ sessions[t].username = u
                           THEN NoSession ELSE sessions[t]]
         /\ unswept' = unswept \ {u}
  /\ Goto(r, "audit")
  /\ UNCHANGED << users, phase, seeding, audit, done, bornStale, overlapped, changes,
                  faults >>

\* DeleteByUsername fails: logged, and the handler goes on.
InvalidateFails(r) ==
  /\ At(r, "invalidate") /\ faults < MaxFaults
  /\ faults' = faults + 1
  /\ unswept' = unswept \cup {req[r].op.target}
  /\ Goto(r, "audit")
  /\ UNCHANGED << tables, phase, seeding, audit, done, bornStale, overlapped, changes >>

\* auditUserAction.
AuditUserAction(r) ==
  /\ At(r, "audit")
  /\ audit' = audit \cup {Record(r)}
  /\ Goto(r, "idle")
  /\ UNCHANGED << tables, phase, seeding, history, changes, faults >>

\* Any other statement fails, which ends the request; a failed auditUserAction
\* is only logged.
StatementFails(r) ==
  /\ req[r].pc \notin {"idle", "renew", "invalidate"} /\ faults < MaxFaults
  /\ faults' = faults + 1
  /\ Goto(r, "idle")
  /\ UNCHANGED << tables, phase, seeding, audit, history, changes >>

Handle(r) ==
  \/ \E u \in User : LoginRead(r, u)
  \/ \E t \in Token : LoginCreate(r, t) \/ (\E o \in Ops : Authenticate(r, t, o))
  \/ Renew(r) \/ DropSession(r) \/ InsertUser(r) \/ GetTarget(r) \/ CountAdmins(r)
  \/ ChangeUser(r) \/ ChangeUnacknowledged(r) \/ Invalidate(r) \/ InvalidateFails(r)
  \/ AuditUserAction(r) \/ StatementFails(r)

Next ==
  \/ Boot \/ SeedNext \/ Serve \/ Crash \/ CleanupExpired
  \/ \E t \in Token : Expire(t)
  \/ \E r \in Request : Handle(r)

Spec == Init /\ [][Next]_vars

-------------------------------------------------------------------------------
(* Properties *)

Stale(t) == sessions[t] # NoSession /\ sessions[t].role # users[sessions[t].username]

\* "refuse an action that would leave zero admins" (user_handlers.go:76-77),
\* for as long as requests have come one after the other, whatever failed or
\* crashed in between.  Two that overlap can take the last two admins away.
LastAdminKept == phase = "serving" /\ ~overlapped => Admins # {}

\* "Called only after the action succeeded" (user_handlers.go:161), likewise:
\* what the audit log says about users did happen, at the hands of that actor.
AuditedActionsHappened == ~overlapped => audit \subseteq done

\* SessionStore's "so the change takes effect immediately" (session.go:74-78): a
\* role change or removal reaches every session of the user.  One with an
\* outdated role is about to be deleted, or its deletion failed, or the login
\* that created it had read the user row before the change.
StaleSessionExplained ==
  \A t \in Token : Stale(t) =>
    t \in bornStale \/ sessions[t].username \in BeingSwept \cup unswept
===============================================================================

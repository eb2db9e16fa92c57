---------------------------- MODULE AccountsProofs ----------------------------
(***************************************************************************)
(* What Accounts promises, for any users, tokens, requests and any number   *)
(* of faults.  A stale session is explained by an invariant that needs only *)
(* the types.  The two properties about requests that never overlapped rest *)
(* on AccountInv: such a request is alone (SerialInv), so that what it read *)
(* or counted still holds when it acts (Checked), and the users table is    *)
(* either still empty or has an admin (AdminInv).                           *)
(***************************************************************************)
EXTENDS Accounts, FiniteSetTheorems, TLAPS

\* A request past its authentication.
Busy == [pc : Steps, op : Ops, token : Token, sess : Users]

\* A request's next statement: the rest of it stays as it is.
LEMMA GotoStep ==
  ASSUME NEW r \in Request, NEW step \in Steps, req \in [Request -> Requests], req[r].pc \in Steps,
         Goto(r, step)
  PROVE  /\ req' \in [Request -> Requests]
         /\ req'[r] \in Busy
         /\ req'[r].pc = step /\ req'[r].op = req[r].op /\ req'[r].token = req[r].token
         /\ req'[r].sess = req[r].sess
         /\ \A q \in Request \ {r} : req'[q] = req[q]
<1>1. req[r] \in Busy
  BY DEF Requests, Busy, Idle, Steps
<1>2. step # "idle" /\ req' = [req EXCEPT ![r] = [req[r] EXCEPT !.pc = step]]
  BY DEF Goto, Steps
<1>3. [req[r] EXCEPT !.pc = step] \in Busy
  BY <1>1 DEF Busy
<1>4. QED
  BY <1>1, <1>2, <1>3 DEF Busy, Requests

\* An answered request.
LEMMA GotoIdle ==
  ASSUME NEW r \in Request, req \in [Request -> Requests], Goto(r, "idle")
  PROVE  /\ req' \in [Request -> Requests]
         /\ req'[r] = Idle
         /\ \A q \in Request \ {r} : req'[q] = req[q]
BY DEF Goto, Requests

\* Where a request is tells what it carries.
LEMMA BusyFields ==
  ASSUME NEW r \in Request, req \in [Request -> Requests], req[r].pc \in Steps
  PROVE  /\ req[r] \in Busy
         /\ req[r].op \in Ops /\ req[r].token \in Token /\ req[r].sess \in Users
BY DEF Requests, Busy, Idle, Steps

\* The operations that change a user name one, and those that set a role a role.
LEMMA OpFields ==
  ASSUME NEW o \in Ops
  PROVE  /\ o.kind \in {"read", "logout", "delete", "create", "role"}
         /\ o.kind \in {"delete", "create", "role"} => o.target \in User
         /\ o.kind \in {"create", "role"} => o.role \in Roles
BY DEF Ops

\* requireRole answers, or the handler begins.
LEMMA HandlerType ==
  ASSUME NEW o \in Ops, NEW role
  PROVE  Handler(o, role) \in {"logout", "insert", "getTarget", "idle"}
BY DEF Handler

-------------------------------------------------------------------------------
(* Types *)

\* A request is about to run a statement of its own operation.
StepInv ==
  \A r \in Request :
    /\ At(r, "insert") => req[r].op.kind = "create"
    /\ req[r].pc \in {"getTarget", "countAdmins", "change", "invalidate"} =>
         req[r].op.kind \in {"delete", "role"}
    /\ At(r, "audit") => req[r].op.kind \in {"create", "delete", "role"}

TypeInv == TypeOK /\ StepInv

\* auditUserAction records a user-management request.
LEMMA RecordType ==
  ASSUME NEW r \in Request, req \in [Request -> Requests], req[r].pc \in Steps,
         req[r].op.kind \in {"create", "delete", "role"}
  PROVE  Record(r) \in Records
<1>1. req[r].op.target \in User /\ req[r].sess.username \in User
  BY BusyFields, OpFields DEF Users
<1>2. QED
  BY <1>1 DEF Record, Records

\* The statement changes the row of its target, and is remembered when there was
\* a row to change.
LEMMA ApplyStep ==
  ASSUME TypeOK, NEW r \in Request, req[r].pc \in Steps, Apply(r),
         req[r].op.kind \in {"create", "delete", "role"}
  PROVE  /\ users' \in [User -> Roles \cup {NoUser}]
         /\ req[r].op.target \in User
         /\ \A u \in User \ {req[r].op.target} : users'[u] = users[u]
         /\ users'[req[r].op.target] =
              IF req[r].op.kind = "create" \/ (req[r].op.kind = "role" /\ users[req[r].op.target] # NoUser)
              THEN req[r].op.role ELSE NoUser
         /\ done' \subseteq Records /\ done \subseteq done'
         /\ users[req[r].op.target] # NoUser \/ req[r].op.kind = "create" => Record(r) \in done'
<1>1. req \in [Request -> Requests] /\ users \in [User -> Roles \cup {NoUser}] /\ done \subseteq Records
  BY DEF TypeOK
<1>2. req[r].op \in Ops
  BY <1>1, BusyFields
<1>3. req[r].op.target \in User /\ (req[r].op.kind \in {"create", "role"} => req[r].op.role \in Roles)
  BY <1>2, OpFields
<1>4. Record(r) \in Records
  BY <1>1, RecordType
<1>5. QED
  BY <1>1, <1>3, <1>4 DEF Apply

\* Every step keeps the types.
LEMMA TypeStep == TypeInv /\ [Next]_vars => TypeInv'
<1> SUFFICES ASSUME TypeInv, [Next]_vars PROVE TypeInv'
  OBVIOUS
<1> USE BoundsAssumption DEF TypeInv
<1>t. /\ users \in [User -> Roles \cup {NoUser}]
      /\ sessions \in [Token -> Sessions \cup {NoSession}]
      /\ phase \in {"down", "booting", "serving"}
      /\ seeding \in Seq(Users)
      /\ req \in [Request -> Requests]
      /\ audit \subseteq Records /\ done \subseteq Records
      /\ bornStale \subseteq Token /\ unswept \subseteq User /\ overlapped \in BOOLEAN
      /\ changes \in 0..MaxChanges /\ faults \in 0..MaxFaults
  BY DEF TypeOK
<1>1. CASE Boot
  BY <1>t, <1>1, SeedsAssumption DEF Boot, TypeOK, StepInv, tables, history, At, Users
<1>2. CASE SeedNext
  <2>1. Head(seeding) \in Users /\ Tail(seeding) \in Seq(Users)
    BY <1>t, <1>2 DEF SeedNext
  <2>2. Head(seeding).username \in User /\ Head(seeding).role \in Roles
    BY <2>1 DEF Users
  <2>3. users' \in [User -> Roles \cup {NoUser}]
    BY <1>t, <1>2, <2>2 DEF SeedNext
  <2>4. QED
    BY <1>t, <1>2, <2>1, <2>3 DEF SeedNext, TypeOK, StepInv, history, At
<1>3. CASE Serve
  BY <1>t, <1>3 DEF Serve, TypeOK, StepInv, tables, history, At
<1>4. CASE Crash
  <2>1. BeingSwept \subseteq User
    <3>1. ASSUME NEW r \in Request, At(r, "invalidate") PROVE req[r].op.target \in User
      BY <1>t, <3>1, BusyFields, OpFields DEF At, StepInv, Steps
    <3>2. QED
      BY <3>1 DEF BeingSwept
  <2>2. req' \in [Request -> Requests] /\ \A r \in Request : req'[r].pc = "idle"
    BY <1>4 DEF Crash, Requests, Idle
  <2>3. QED
    BY <1>t, <1>4, <2>1, <2>2 DEF Crash, TypeOK, StepInv, tables, At
<1>5. CASE CleanupExpired
  BY <1>t, <1>5 DEF CleanupExpired, TypeOK, StepInv, history, At
<1>6. ASSUME NEW t \in Token, Expire(t) PROVE TypeInv'
  <2>1. [sessions[t] EXCEPT !.expired = TRUE] \in Sessions
    BY <1>t, <1>6 DEF Expire, Sessions
  <2>2. sessions' \in [Token -> Sessions \cup {NoSession}]
    BY <1>t, <1>6, <2>1 DEF Expire
  <2>3. QED
    BY <1>t, <1>6, <2>2 DEF Expire, TypeOK, StepInv, history, At
<1>7. ASSUME NEW r \in Request, NEW u \in User, LoginRead(r, u) PROVE TypeInv'
  <2>1. /\ req' \in [Request -> Requests] /\ req'[r].pc = "login"
        /\ \A q \in Request \ {r} : req'[q] = req[q]
    BY <1>t, <1>7 DEF LoginRead, Requests, Users
  <2>2. overlapped' \in BOOLEAN
    BY <1>t, <1>7 DEF LoginRead, Begin
  <2>3. StepInv'
    BY <2>1 DEF StepInv, At
  <2>4. QED
    BY <1>t, <1>7, <2>1, <2>2, <2>3 DEF LoginRead, TypeOK, tables
<1>8. ASSUME NEW r \in Request, NEW t \in Token, LoginCreate(r, t) PROVE TypeInv'
  <2>1. req[r].sess \in Users
    BY <1>t, <1>8 DEF LoginCreate, At, Requests, Idle, Steps
  <2>2. sessions' \in [Token -> Sessions \cup {NoSession}] /\ bornStale' \subseteq Token
    BY <1>t, <1>8, <2>1 DEF LoginCreate, Sessions, Users
  <2>3. /\ req' \in [Request -> Requests] /\ req'[r] = Idle
        /\ \A q \in Request \ {r} : req'[q] = req[q]
    BY <1>t, <1>8, GotoIdle DEF LoginCreate
  <2>4. StepInv'
    BY <2>3 DEF StepInv, At, Idle
  <2>5. QED
    BY <1>t, <1>8, <2>2, <2>3, <2>4 DEF LoginCreate, TypeOK
<1>9. ASSUME NEW r \in Request, NEW t \in Token, NEW o \in Ops, Authenticate(r, t, o) PROVE TypeInv'
  <2> DEFINE s == sessions[t]
             b == [pc |-> IF s.expired THEN "dropExpired" ELSE "renew", op |-> o,
                   token |-> t, sess |-> [username |-> s.username, role |-> s.role]]
  <2>1. s \in Sessions
    BY <1>t, <1>9 DEF Authenticate
  <2>2. b \in Busy /\ b.pc \in {"dropExpired", "renew"}
    BY <2>1 DEF Busy, Sessions, Users, Steps
  <2>3. req' = [req EXCEPT ![r] = b]
    BY <1>9 DEF Authenticate
  <2> HIDE DEF b
  <2>4. /\ req' \in [Request -> Requests] /\ req'[r].pc \in {"dropExpired", "renew"}
        /\ \A q \in Request \ {r} : req'[q] = req[q]
    BY <1>t, <2>2, <2>3 DEF Requests, Busy
  <2>5. StepInv'
    BY <2>4 DEF StepInv, At
  <2>6. overlapped' \in BOOLEAN /\ changes' \in 0..MaxChanges
    BY <1>t, <1>9 DEF Authenticate, Begin
  <2>7. QED
    BY <1>t, <1>9, <2>4, <2>5, <2>6 DEF Authenticate, TypeOK, tables
<1>10. ASSUME NEW r \in Request, Renew(r) PROVE TypeInv'
  <2>1. req[r].pc \in Steps /\ req[r].token \in Token /\ req[r].op \in Ops
    BY <1>t, <1>10, BusyFields DEF Renew, At, Steps
  <2>2. sessions' \in [Token -> Sessions \cup {NoSession}]
    <3>1. CASE sessions[req[r].token] = NoSession
      BY <1>t, <1>10, <3>1 DEF Renew
    <3>2. CASE sessions[req[r].token] # NoSession
      <4>1. [sessions[req[r].token] EXCEPT !.expired = FALSE] \in Sessions
        BY <1>t, <2>1, <3>2 DEF Sessions
      <4>2. sessions' = [sessions EXCEPT ![req[r].token] = [sessions[req[r].token] EXCEPT !.expired = FALSE]]
        BY <1>10, <3>2 DEF Renew
      <4>3. QED
        BY <1>t, <4>1, <4>2
    <3>3. QED
      BY <3>1, <3>2
  <2> DEFINE step == Handler(req[r].op, req[r].sess.role)
  <2>3. Goto(r, step) /\ step \in {"logout", "insert", "getTarget", "idle"}
    BY <1>10, <2>1, HandlerType DEF Renew
  <2>4. /\ step = "insert" => req[r].op.kind = "create"
        /\ step = "getTarget" => req[r].op.kind \in {"delete", "role"}
    BY DEF Handler
  <2> HIDE DEF step
  <2>5. req' \in [Request -> Requests] /\ StepInv'
    <3>1. CASE step = "idle"
      BY <1>t, <2>3, <3>1, GotoIdle DEF StepInv, At, Idle
    <3>2. CASE step # "idle"
      <4>1. step \in Steps
        BY <2>3, <3>2 DEF Steps
      <4>2. /\ req' \in [Request -> Requests] /\ req'[r].pc = step /\ req'[r].op = req[r].op
            /\ \A q \in Request \ {r} : req'[q] = req[q]
        BY <1>t, <2>1, <2>3, <4>1, GotoStep
      <4>3. QED
        BY <2>3, <2>4, <3>2, <4>2 DEF StepInv, At
    <3>3. QED
      BY <3>1, <3>2
  <2>6. QED
    BY <1>t, <1>10, <2>2, <2>5 DEF Renew, TypeOK, history
<1>11. ASSUME NEW r \in Request, DropSession(r) PROVE TypeInv'
  <2>1. req[r].token \in Token
    BY <1>t, <1>11, BusyFields DEF DropSession, Steps
  <2>2. sessions' \in [Token -> Sessions \cup {NoSession}]
    BY <1>t, <1>11, <2>1 DEF DropSession
  <2>3. req' \in [Request -> Requests] /\ StepInv'
    BY <1>t, <1>11, GotoIdle DEF DropSession, StepInv, At, Idle
  <2>4. QED
    BY <1>t, <1>11, <2>2, <2>3 DEF DropSession, TypeOK, history
<1>12. ASSUME NEW r \in Request, NEW step \in Steps \cup {"idle"}, Goto(r, step), req[r].pc \in Steps,
              step = "insert" => req[r].op.kind = "create",
              step \in {"getTarget", "countAdmins", "change", "invalidate"} => req[r].op.kind \in {"delete", "role"},
              step = "audit" => req[r].op.kind \in {"create", "delete", "role"}
       PROVE  req' \in [Request -> Requests] /\ StepInv'
  <2>1. CASE step = "idle"
    BY <1>t, <1>12, <2>1, GotoIdle DEF StepInv, At, Idle
  <2>2. CASE step \in Steps
    <3>1. /\ req' \in [Request -> Requests] /\ req'[r].pc = step /\ req'[r].op = req[r].op
          /\ \A q \in Request \ {r} : req'[q] = req[q]
      BY <1>t, <1>12, <2>2, GotoStep
    <3>2. QED
      BY <1>12, <3>1 DEF StepInv, At
  <2>3. QED
    BY <2>1, <2>2
<1>13. ASSUME NEW r \in Request, InsertUser(r) PROVE TypeInv'
  <2>1. req[r].pc = "insert" /\ req[r].pc \in Steps /\ req[r].op.kind = "create"
    BY <1>13 DEF InsertUser, At, Steps, StepInv
  <2>2. users' \in [User -> Roles \cup {NoUser}] /\ done' \subseteq Records
    BY <1>t, <1>13, <2>1, ApplyStep DEF InsertUser
  <2>3. req' \in [Request -> Requests] /\ StepInv'
    BY <1>12, <1>13, <2>1 DEF InsertUser, Steps
  <2>4. QED
    BY <1>t, <1>13, <2>2, <2>3 DEF InsertUser, TypeOK
<1>14. ASSUME NEW r \in Request, GetTarget(r) \/ CountAdmins(r) PROVE TypeInv'
  <2>1. /\ req[r].pc \in {"getTarget", "countAdmins"} /\ req[r].pc \in Steps
        /\ req[r].op.kind \in {"delete", "role"}
    BY <1>14 DEF GetTarget, CountAdmins, At, Steps, StepInv
  <2>2. \E step \in {"idle", "countAdmins", "change"} : Goto(r, step)
    BY <1>14 DEF GetTarget, CountAdmins
  <2>3. req' \in [Request -> Requests] /\ StepInv'
    BY <1>12, <2>1, <2>2 DEF Steps
  <2>4. QED
    BY <1>t, <1>14, <2>3 DEF GetTarget, CountAdmins, TypeOK, tables, history
<1>15. ASSUME NEW r \in Request, ChangeUser(r) PROVE TypeInv'
  <2>1. req[r].pc = "change" /\ req[r].pc \in Steps /\ req[r].op.kind \in {"delete", "role"}
    BY <1>15 DEF ChangeUser, At, Steps, StepInv
  <2>2. users' \in [User -> Roles \cup {NoUser}] /\ done' \subseteq Records
    BY <1>t, <1>15, <2>1, ApplyStep DEF ChangeUser
  <2>3. req' \in [Request -> Requests] /\ StepInv'
    BY <1>12, <1>15, <2>1 DEF ChangeUser, Steps
  <2>4. QED
    BY <1>t, <1>15, <2>2, <2>3 DEF ChangeUser, TypeOK
<1>16. ASSUME NEW r \in Request, ChangeUnacknowledged(r) PROVE TypeInv'
  <2>1. /\ req[r].pc \in {"change", "insert"} /\ req[r].pc \in Steps
        /\ req[r].op.kind \in {"create", "delete", "role"}
    BY <1>16 DEF ChangeUnacknowledged, At, Steps, StepInv
  <2>2. /\ users' \in [User -> Roles \cup {NoUser}] /\ done' \subseteq Records
        /\ req[r].op.target \in User
    BY <1>t, <1>16, <2>1, ApplyStep DEF ChangeUnacknowledged
  <2>3. req' \in [Request -> Requests] /\ StepInv'
    BY <1>12, <1>16, <2>1 DEF ChangeUnacknowledged, Steps
  <2>4. QED
    BY <1>t, <1>16, <2>2, <2>3 DEF ChangeUnacknowledged, TypeOK
<1>17. ASSUME NEW r \in Request, Invalidate(r) \/ InvalidateFails(r) PROVE TypeInv'
  <2>1. req[r].pc = "invalidate" /\ req[r].pc \in Steps /\ req[r].op.kind \in {"delete", "role"}
    BY <1>17 DEF Invalidate, InvalidateFails, At, Steps, StepInv
  <2>2. req[r].op.target \in User
    BY <1>t, <2>1, BusyFields, OpFields
  <2>3. req' \in [Request -> Requests] /\ StepInv'
    BY <1>12, <1>17, <2>1 DEF Invalidate, InvalidateFails, Steps
  <2>4. sessions' \in [Token -> Sessions \cup {NoSession}] /\ unswept' \subseteq User /\ users' = users
    BY <1>t, <1>17, <2>2 DEF Invalidate, InvalidateFails, tables
  <2>5. QED
    BY <1>t, <1>17, <2>3, <2>4 DEF Invalidate, InvalidateFails, TypeOK
<1>18. ASSUME NEW r \in Request, AuditUserAction(r) PROVE TypeInv'
  <2>1. req[r].pc = "audit" /\ req[r].pc \in Steps /\ req[r].op.kind \in {"create", "delete", "role"}
    BY <1>18 DEF AuditUserAction, At, Steps, StepInv
  <2>2. Record(r) \in Records
    BY <1>t, <2>1, RecordType
  <2>3. req' \in [Request -> Requests] /\ StepInv'
    BY <1>12, <1>18, <2>1 DEF AuditUserAction, Steps
  <2>4. QED
    BY <1>t, <1>18, <2>2, <2>3 DEF AuditUserAction, TypeOK, tables, history
<1>19. ASSUME NEW r \in Request, StatementFails(r) PROVE TypeInv'
  <2>1. req' \in [Request -> Requests] /\ StepInv'
    BY <1>t, <1>19, GotoIdle DEF StatementFails, StepInv, At, Idle
  <2>2. QED
    BY <1>t, <1>19, <2>1 DEF StatementFails, TypeOK, tables, history
<1>20. CASE UNCHANGED vars
  BY <1>t, <1>20 DEF vars, tables, history, TypeOK, StepInv, At
<1>21. QED
  BY <1>1, <1>2, <1>3, <1>4, <1>5, <1>6, <1>7, <1>8, <1>9, <1>10, <1>11, <1>13, <1>14, <1>15, <1>16,
     <1>17, <1>18, <1>19, <1>20 DEF Next, Handle

-------------------------------------------------------------------------------
(* Stale sessions.  The property is inductive with the types.              *)

\* Every step leaves a session with an outdated role explained.
LEMMA StaleStep == TypeInv /\ StaleSessionExplained /\ [Next]_vars => StaleSessionExplained'
<1> SUFFICES ASSUME TypeInv, StaleSessionExplained, [Next]_vars,
                    NEW t \in Token, Stale(t)'
             PROVE  t \in bornStale' \/ sessions'[t].username \in BeingSwept' \cup unswept'
  BY DEF StaleSessionExplained
<1> DEFINE Explained(s) == t \in bornStale \/ s.username \in BeingSwept \cup unswept
<1>t. /\ users \in [User -> Roles \cup {NoUser}]
      /\ sessions \in [Token -> Sessions \cup {NoSession}]
      /\ seeding \in Seq(Users) /\ req \in [Request -> Requests] /\ StepInv
  BY DEF TypeInv, TypeOK
<1>s. /\ sessions'[t] # NoSession
      /\ sessions'[t].role # users'[sessions'[t].username]
  BY DEF Stale
<1>e. Stale(t) => Explained(sessions[t])
  BY DEF StaleSessionExplained
\* Nothing but the expiry of a session changes, and no request leaves the sweep.
<1>1. ASSUME \/ sessions'[t] = sessions[t]
             \/ /\ sessions[t] # NoSession
                /\ sessions'[t].username = sessions[t].username /\ sessions'[t].role = sessions[t].role,
             \A u \in User : users'[u] = users[u] \/ users[u] = NoUser,
             bornStale' = bornStale, BeingSwept \cup unswept \subseteq BeingSwept' \cup unswept'
      PROVE  t \in bornStale' \/ sessions'[t].username \in BeingSwept' \cup unswept'
  <2>1. sessions[t] # NoSession /\ sessions[t] \in Sessions
    BY <1>t, <1>s, <1>1
  <2>2. sessions[t].username \in User /\ sessions[t].role \in Roles
    BY <2>1 DEF Sessions
  <2>3. sessions[t].role # users[sessions[t].username]
    BY <1>s, <1>1, <2>2, UserAssumption
  <2>4. QED
    BY <1>e, <1>1, <2>1, <2>3 DEF Stale
<1>2. CASE Boot \/ Serve \/ UNCHANGED vars
  <2>1. UNCHANGED << users, sessions, bornStale, unswept, req >>
    BY <1>2 DEF Boot, Serve, vars, tables, history
  <2>2. QED
    BY <1>1, <2>1 DEF BeingSwept, At
<1>3. CASE SeedNext
  <2>1. Head(seeding) \in Users
    BY <1>t, <1>3 DEF SeedNext
  <2>2. UNCHANGED << sessions, bornStale, unswept, req >> /\ \A u \in User : users'[u] = users[u] \/ users[u] = NoUser
    BY <1>t, <1>3, <2>1 DEF SeedNext, history, Users
  <2>3. QED
    BY <1>1, <2>2 DEF BeingSwept, At
<1>4. CASE Crash
  BY <1>1, <1>4 DEF Crash, tables
<1>5. CASE CleanupExpired
  <2>1. sessions'[t] = sessions[t] /\ UNCHANGED << users, bornStale, unswept, req >>
    BY <1>s, <1>5 DEF CleanupExpired, history
  <2>2. QED
    BY <1>1, <2>1 DEF BeingSwept, At
<1>6. ASSUME NEW u \in Token, Expire(u) PROVE t \in bornStale' \/ sessions'[t].username \in BeingSwept' \cup unswept'
  <2>1. \/ sessions'[t] = sessions[t]
        \/ /\ sessions[t] # NoSession
           /\ sessions'[t].username = sessions[t].username /\ sessions'[t].role = sessions[t].role
    BY <1>t, <1>6 DEF Expire, Sessions
  <2>2. UNCHANGED << users, bornStale, unswept, req >>
    BY <1>6 DEF Expire, history
  <2>3. QED
    BY <1>1, <2>1, <2>2 DEF BeingSwept, At
\* A request that was not sweeping goes to a step other than the sweep.
<1>7. ASSUME NEW r \in Request, \A q \in Request \ {r} : req'[q] = req[q], req[r].pc # "invalidate"
      PROVE  BeingSwept \subseteq BeingSwept'
  BY <1>7 DEF BeingSwept, At
<1>8. ASSUME NEW r \in Request, req' \in [Request -> Requests],
             \E step \in Steps \cup {"idle"} : Goto(r, step), req[r].pc \in Steps \cup {"login"}
      PROVE  \A q \in Request \ {r} : req'[q] = req[q]
  BY <1>t, <1>8 DEF Goto
<1>9. ASSUME NEW r \in Request, NEW u \in User, LoginRead(r, u)
      PROVE  t \in bornStale' \/ sessions'[t].username \in BeingSwept' \cup unswept'
  <2>1. UNCHANGED << users, sessions, bornStale, unswept >>
    BY <1>9 DEF LoginRead, tables
  <2>2. req[r].pc # "invalidate" /\ \A q \in Request \ {r} : req'[q] = req[q]
    BY <1>t, <1>9 DEF LoginRead, At
  <2>3. QED
    BY <1>1, <1>7, <2>1, <2>2
<1>10. ASSUME NEW r \in Request, NEW u \in Token, LoginCreate(r, u)
       PROVE  t \in bornStale' \/ sessions'[t].username \in BeingSwept' \cup unswept'
  <2>1. CASE u = t
    <3>1. /\ sessions'[t] = [username |-> req[r].sess.username, role |-> req[r].sess.role, expired |-> FALSE]
          /\ users' = users
          /\ req[r].sess.role # users[req[r].sess.username] => t \in bornStale'
      BY <1>t, <1>10, <2>1 DEF LoginCreate
    <3>2. QED
      BY <1>s, <3>1
  <2>2. CASE u # t
    <3>1. sessions'[t] = sessions[t] /\ (t \in bornStale' <=> t \in bornStale) /\ UNCHANGED << users, unswept >>
      BY <1>t, <1>10, <2>2 DEF LoginCreate
    <3>2. req[r].pc # "invalidate" /\ \A q \in Request \ {r} : req'[q] = req[q]
      BY <1>t, <1>10 DEF LoginCreate, At, Goto
    <3>3. BeingSwept \subseteq BeingSwept'
      BY <1>7, <3>2
    <3>4. QED
      BY <1>s, <1>e, <3>1, <3>3 DEF Stale
  <2>3. QED
    BY <2>1, <2>2
<1>11. ASSUME NEW r \in Request, NEW u \in Token, NEW o \in Ops, Authenticate(r, u, o)
       PROVE  t \in bornStale' \/ sessions'[t].username \in BeingSwept' \cup unswept'
  <2>1. UNCHANGED << users, sessions, bornStale, unswept >>
    BY <1>11 DEF Authenticate, tables
  <2>2. req[r].pc # "invalidate" /\ \A q \in Request \ {r} : req'[q] = req[q]
    BY <1>t, <1>11 DEF Authenticate, At
  <2>3. QED
    BY <1>1, <1>7, <2>1, <2>2
<1>12. ASSUME NEW r \in Request, Renew(r)
       PROVE  t \in bornStale' \/ sessions'[t].username \in BeingSwept' \cup unswept'
  <2>1. \/ sessions'[t] = sessions[t]
        \/ /\ sessions[t] # NoSession
           /\ sessions'[t].username = sessions[t].username /\ sessions'[t].role = sessions[t].role
    BY <1>t, <1>12 DEF Renew, Sessions
  <2>2. UNCHANGED << users, bornStale, unswept >>
    BY <1>12 DEF Renew, history
  <2>3. req[r].pc # "invalidate" /\ \A q \in Request \ {r} : req'[q] = req[q]
    BY <1>t, <1>12 DEF Renew, At, Goto
  <2>4. QED
    BY <1>1, <1>7, <2>1, <2>2, <2>3
<1>13. ASSUME NEW r \in Request, DropSession(r)
       PROVE  t \in bornStale' \/ sessions'[t].username \in BeingSwept' \cup unswept'
  <2>1. sessions'[t] = sessions[t] /\ UNCHANGED << users, bornStale, unswept >>
    BY <1>t, <1>s, <1>13 DEF DropSession, history
  <2>2. req[r].pc # "invalidate" /\ \A q \in Request \ {r} : req'[q] = req[q]
    BY <1>t, <1>13 DEF DropSession, At, Goto
  <2>3. QED
    BY <1>1, <1>7, <2>1, <2>2
<1>14. ASSUME NEW r \in Request, InsertUser(r) \/ GetTarget(r) \/ CountAdmins(r) \/ AuditUserAction(r)
                                 \/ StatementFails(r)
       PROVE  t \in bornStale' \/ sessions'[t].username \in BeingSwept' \cup unswept'
  <2>1. UNCHANGED << sessions, bornStale, unswept >>
    BY <1>14 DEF InsertUser, GetTarget, CountAdmins, AuditUserAction, StatementFails, tables, history
  <2>2. req[r].pc # "invalidate" /\ \A q \in Request \ {r} : req'[q] = req[q]
    BY <1>t, <1>14 DEF InsertUser, GetTarget, CountAdmins, AuditUserAction, StatementFails, At, Goto
  <2>3. \A u \in User : users'[u] = users[u] \/ users[u] = NoUser
    BY <1>t, <1>14 DEF InsertUser, GetTarget, CountAdmins, AuditUserAction, StatementFails, tables, Apply
  <2>4. QED
    BY <1>1, <1>7, <2>1, <2>2, <2>3
<1>15. ASSUME NEW r \in Request, ChangeUser(r)
       PROVE  t \in bornStale' \/ sessions'[t].username \in BeingSwept' \cup unswept'
  <2>1. UNCHANGED << sessions, bornStale, unswept >> /\ req[r].pc = "change"
    BY <1>15 DEF ChangeUser, At
  <2>2. /\ req'[r].pc = "invalidate" /\ req'[r].op = req[r].op
        /\ \A q \in Request \ {r} : req'[q] = req[q]
    BY <1>t, <1>15, <2>1, GotoStep DEF ChangeUser, Steps
  <2>3. BeingSwept \cup {req[r].op.target} \subseteq BeingSwept'
    BY <2>1, <2>2 DEF BeingSwept, At
  <2>4. \A u \in User \ {req[r].op.target} : users'[u] = users[u]
    BY <1>t, <1>15 DEF ChangeUser, Apply
  <2>5. CASE sessions[t].username = req[r].op.target
    BY <2>1, <2>3, <2>5
  <2>6. CASE sessions[t].username # req[r].op.target
    <3>1. sessions[t].username \in User
      BY <1>t, <1>s, <2>1 DEF Sessions
    <3>2. QED
      BY <1>s, <1>e, <2>1, <2>3, <2>4, <2>6, <3>1 DEF Stale
  <2>7. QED
    BY <2>5, <2>6
<1>16. ASSUME NEW r \in Request, ChangeUnacknowledged(r)
       PROVE  t \in bornStale' \/ sessions'[t].username \in BeingSwept' \cup unswept'
  <2>1. /\ UNCHANGED << sessions, bornStale >> /\ req[r].pc \in {"change", "insert"}
        /\ unswept \subseteq unswept'
        /\ req[r].pc = "change" => req[r].op.target \in unswept'
        /\ req[r].pc = "insert" => users[req[r].op.target] = NoUser
    BY <1>16 DEF ChangeUnacknowledged, At
  <2>2. \A q \in Request \ {r} : req'[q] = req[q]
    BY <1>t, <1>16 DEF ChangeUnacknowledged, Goto
  <2>3. BeingSwept \subseteq BeingSwept'
    BY <1>7, <2>1, <2>2
  <2>4. \A u \in User \ {req[r].op.target} : users'[u] = users[u]
    BY <1>t, <1>16 DEF ChangeUnacknowledged, Apply
  <2>5. CASE req[r].pc = "change" /\ sessions[t].username = req[r].op.target
    BY <2>1, <2>5
  <2>6. CASE req[r].pc = "insert"
    BY <1>1, <2>1, <2>3, <2>4, <2>6
  <2>7. CASE sessions[t].username # req[r].op.target
    <3>1. sessions[t].username \in User
      BY <1>t, <1>s, <2>1 DEF Sessions
    <3>2. QED
      BY <1>s, <1>e, <2>1, <2>3, <2>4, <2>7, <3>1 DEF Stale
  <2>8. QED
    BY <2>1, <2>5, <2>6, <2>7
<1>17. ASSUME NEW r \in Request, Invalidate(r) \/ InvalidateFails(r)
       PROVE  t \in bornStale' \/ sessions'[t].username \in BeingSwept' \cup unswept'
  <2> DEFINE u == req[r].op.target
  <2>1. req[r].pc = "invalidate" /\ UNCHANGED << users, bornStale >>
    BY <1>17 DEF Invalidate, InvalidateFails, At, tables
  <2>2. /\ req'[r].pc = "audit" /\ \A q \in Request \ {r} : req'[q] = req[q]
    BY <1>t, <1>17, <2>1, GotoStep DEF Invalidate, InvalidateFails, Steps
  <2>3. BeingSwept \subseteq BeingSwept' \cup {u}
    BY <2>1, <2>2 DEF BeingSwept, At
  <2>4. CASE Invalidate(r)
    <3>1. sessions'[t] = sessions[t] /\ sessions[t].username # u /\ unswept' = unswept \ {u}
      BY <1>t, <1>s, <2>4 DEF Invalidate
    <3>2. QED
      BY <1>s, <1>e, <2>1, <2>3, <3>1 DEF Stale
  <2>5. CASE InvalidateFails(r)
    <3>1. sessions' = sessions /\ unswept' = unswept \cup {u}
      BY <2>5 DEF InvalidateFails, tables
    <3>2. QED
      BY <1>1, <2>1, <2>3, <3>1
  <2>6. QED
    BY <1>17, <2>4, <2>5
<1>18. QED
  BY <1>2, <1>3, <1>4, <1>5, <1>6, <1>9, <1>10, <1>11, <1>12, <1>13, <1>14, <1>15, <1>16, <1>17
     DEF Next, Handle

-------------------------------------------------------------------------------
(* Requests that come one after the other: the last admin, and the audit log. *)

\* Without an overlap one request at most is in progress, and only while the
\* backend serves.
SerialInv ==
  /\ ~overlapped => \A r, q \in Request : ~At(r, "idle") /\ ~At(q, "idle") => r = q
  /\ phase # "serving" => \A r \in Request : At(r, "idle")

\* There is an admin, or the table is empty and is about to be seeded.
AdminInv ==
  \/ Admins # {}
  \/ /\ phase # "serving" /\ \A u \in User : users[u] = NoUser
     /\ phase = "booting" => seeding = Seeds

\* What a request has found out still holds when it acts on it.
Checked(r) ==
  /\ req[r].pc \in {"countAdmins", "change"} => users[req[r].op.target] # NoUser
  /\ At(r, "change") /\ (req[r].op.kind = "delete" \/ req[r].op.role = "analyst") =>
       \E u \in Admins : u # req[r].op.target
  /\ req[r].pc \in {"invalidate", "audit"} => Record(r) \in done

LoneInv == AdminInv /\ (\A r \in Request : Checked(r)) /\ audit \subseteq done

AccountInv == TypeInv /\ SerialInv /\ (~overlapped => LoneInv)

\* A step of a request: another one stands where it stood.
LEMMA OthersStay ==
  ASSUME TypeInv, NEW r \in Request, Handle(r)
  PROVE  \A q \in Request \ {r} : req'[q] = req[q]
<1>1. req \in [Request -> Requests]
  BY DEF TypeInv, TypeOK
<1>2. ASSUME NEW step, Goto(r, step) PROVE \A q \in Request \ {r} : req'[q] = req[q]
  BY <1>1, <1>2 DEF Goto
<1>3. ASSUME NEW u \in User, LoginRead(r, u) PROVE \A q \in Request \ {r} : req'[q] = req[q]
  BY <1>1, <1>3 DEF LoginRead
<1>4. ASSUME NEW t \in Token, NEW o \in Ops, Authenticate(r, t, o)
      PROVE  \A q \in Request \ {r} : req'[q] = req[q]
  BY <1>1, <1>4 DEF Authenticate
<1>5. ASSUME NEW t \in Token, LoginCreate(r, t) PROVE \E step : Goto(r, step)
  BY <1>5 DEF LoginCreate
<1>6. ASSUME Renew(r) \/ DropSession(r) \/ InsertUser(r) \/ GetTarget(r) \/ CountAdmins(r)
             \/ ChangeUser(r) \/ ChangeUnacknowledged(r) \/ Invalidate(r) \/ InvalidateFails(r)
             \/ AuditUserAction(r) \/ StatementFails(r)
      PROVE  \E step : Goto(r, step)
  BY <1>6 DEF Renew, DropSession, InsertUser, GetTarget, CountAdmins, ChangeUser,
              ChangeUnacknowledged, Invalidate, InvalidateFails, AuditUserAction, StatementFails
<1>7. QED
  BY <1>2, <1>3, <1>4, <1>5, <1>6 DEF Handle

\* A request steps while it is in progress, or begins.
LEMMA InProgress ==
  ASSUME NEW r \in Request, Handle(r)
  PROVE  /\ phase' = phase /\ seeding' = seeding
         /\ \/ ~At(r, "idle") /\ overlapped' = overlapped
            \/ phase = "serving" /\ Begin(r)
<1>1. ASSUME NEW u \in User, LoginRead(r, u) PROVE phase' = phase /\ seeding' = seeding /\ phase = "serving" /\ Begin(r)
  BY <1>1 DEF LoginRead
<1>2. ASSUME NEW t \in Token, NEW o \in Ops, Authenticate(r, t, o)
      PROVE  phase' = phase /\ seeding' = seeding /\ phase = "serving" /\ Begin(r)
  BY <1>2 DEF Authenticate
<1>3. ASSUME NEW t \in Token, LoginCreate(r, t)
      PROVE  phase' = phase /\ seeding' = seeding /\ ~At(r, "idle") /\ overlapped' = overlapped
  BY <1>3 DEF LoginCreate, At
<1>4. ASSUME Renew(r) \/ DropSession(r) \/ InsertUser(r) \/ GetTarget(r) \/ CountAdmins(r)
             \/ ChangeUser(r) \/ ChangeUnacknowledged(r) \/ Invalidate(r) \/ InvalidateFails(r)
             \/ AuditUserAction(r) \/ StatementFails(r)
      PROVE  phase' = phase /\ seeding' = seeding /\ ~At(r, "idle") /\ overlapped' = overlapped
  BY <1>4 DEF Renew, DropSession, InsertUser, GetTarget, CountAdmins, ChangeUser,
              ChangeUnacknowledged, Invalidate, InvalidateFails, AuditUserAction, StatementFails,
              At, history
<1>5. QED
  BY <1>1, <1>2, <1>3, <1>4 DEF Handle

\* Requests overlap only once another has begun, and end with the process.
LEMMA SerialStep == TypeInv /\ SerialInv /\ [Next]_vars => SerialInv'
<1> SUFFICES ASSUME TypeInv, SerialInv, [Next]_vars PROVE SerialInv'
  OBVIOUS
<1>t. req \in [Request -> Requests] /\ overlapped \in BOOLEAN
  BY DEF TypeInv, TypeOK
<1>1. CASE Boot \/ SeedNext \/ CleanupExpired \/ (\E t \in Token : Expire(t)) \/ UNCHANGED vars
  <2>1. UNCHANGED << req, overlapped >> /\ (phase' # "serving" => phase # "serving")
    BY <1>1 DEF Boot, SeedNext, CleanupExpired, Expire, vars, history
  <2>2. QED
    BY <2>1 DEF SerialInv, At
<1>2. CASE Serve
  BY <1>2 DEF Serve, SerialInv, At, history
<1>3. CASE Crash
  BY <1>3 DEF Crash, SerialInv, At, Idle
<1>4. ASSUME NEW r \in Request, Handle(r) PROVE SerialInv'
  <2>1. \A q \in Request \ {r} : req'[q] = req[q]
    BY <1>4, OthersStay
  <2>2. /\ phase' = phase
        /\ \/ ~At(r, "idle") /\ overlapped' = overlapped
           \/ phase = "serving" /\ Begin(r)
    BY <1>4, InProgress
  <2>3. phase = "serving"
    BY <2>2 DEF SerialInv
  <2>4. ASSUME ~overlapped' PROVE \A q \in Request \ {r} : At(q, "idle")'
    BY <2>1, <2>2, <2>4 DEF SerialInv, Begin, At
  <2>5. QED
    BY <2>2, <2>3, <2>4 DEF SerialInv
<1>5. QED
  BY <1>1, <1>2, <1>3, <1>4 DEF Next

\* More than one admin: one besides the target.
LEMMA AnotherAdmin ==
  ASSUME TypeOK, NEW u, ~(Cardinality(Admins) <= 1)
  PROVE  \E v \in Admins : v # u
<1>1. SUFFICES ASSUME Admins \subseteq {u} PROVE FALSE
  OBVIOUS
<1>2. IsFiniteSet({u}) /\ Cardinality({u}) = 1
  BY FS_Singleton
<1>3. Cardinality(Admins) \in Nat /\ Cardinality(Admins) <= 1
  BY <1>1, <1>2, FS_Subset, FS_CardinalityType
<1>4. QED
  BY <1>3

\* A lone request leaves an admin, and records what it has done.
LEMMA LoneStep == AccountInv /\ [Next]_vars => (~overlapped' => LoneInv')
<1> SUFFICES ASSUME AccountInv, [Next]_vars, ~overlapped' PROVE LoneInv'
  OBVIOUS
<1> USE DEF AccountInv, TypeInv
<1>t. /\ users \in [User -> Roles \cup {NoUser}]
      /\ seeding \in Seq(Users)
      /\ req \in [Request -> Requests]
      /\ overlapped \in BOOLEAN
  BY DEF TypeOK
<1>1. CASE Boot \/ Serve \/ CleanupExpired \/ (\E t \in Token : Expire(t)) \/ UNCHANGED vars
  <2>1. UNCHANGED << users, req, audit, done, overlapped >>
    BY <1>1 DEF Boot, Serve, CleanupExpired, Expire, vars, history, tables
  <2>2. AdminInv /\ (\A r \in Request : Checked(r)) /\ audit \subseteq done
    BY <2>1 DEF LoneInv
  <2>3. Admins' = Admins
    BY <2>1 DEF Admins
  <2>4. (\A r \in Request : Checked(r)') /\ audit' \subseteq done'
    BY <2>1, <2>2, <2>3 DEF Checked, At, Record
  <2>5. AdminInv'
    <3>1. CASE Boot
      BY <2>1, <2>2, <2>3, <3>1 DEF AdminInv, Boot
    <3>2. CASE Serve
      <4>1. Admins # {}
        BY <2>2, <3>2, SeedsAssumption DEF AdminInv, Serve
      <4>2. QED
        BY <2>3, <4>1 DEF AdminInv
    <3>3. CASE CleanupExpired \/ (\E t \in Token : Expire(t)) \/ UNCHANGED vars
      BY <2>1, <2>2, <2>3, <3>3 DEF AdminInv, CleanupExpired, Expire, vars
    <3>4. QED
      BY <1>1, <3>1, <3>2, <3>3
  <2>6. QED
    BY <2>4, <2>5 DEF LoneInv
<1>2. CASE SeedNext
  <2>1. UNCHANGED << req, audit, done, phase >> /\ ~overlapped /\ phase = "booting" /\ seeding # << >>
    BY <1>2 DEF SeedNext, history
  <2>2. Head(seeding) \in Users
    BY <1>t, <1>2 DEF SeedNext
  <2>3. Admins' # {}
    <3>1. CASE Admins # {}
      <4>1. \A u \in User : users[u] = "admin" => users'[u] = "admin"
        BY <1>t, <1>2, UserAssumption DEF SeedNext, Roles
      <4>2. QED
        BY <3>1, <4>1 DEF Admins
    <3>2. CASE Admins = {}
      <4>1. seeding = Seeds /\ \A u \in User : users[u] = NoUser
        BY <2>1, <3>2 DEF LoneInv, AdminInv
      <4>2. Head(seeding).role = "admin" /\ Head(seeding).username \in User
        BY <4>1, <2>2, SeedsAssumption DEF Users
      <4>3. users'[Head(seeding).username] = "admin"
        BY <1>t, <1>2, <4>1, <4>2 DEF SeedNext
      <4>4. QED
        BY <4>2, <4>3 DEF Admins
    <3>3. QED
      BY <3>1, <3>2
  <2>4. \A r \in Request : Checked(r)'
    BY <2>1 DEF SerialInv, Checked, At
  <2>5. QED
    BY <2>1, <2>3, <2>4 DEF LoneInv, AdminInv
<1>3. CASE Crash
  <2>1. UNCHANGED << users, audit, done, overlapped >> /\ phase' = "down"
    BY <1>3 DEF Crash, tables
  <2>2. \A r \in Request : Checked(r)'
    BY <1>3 DEF Crash, Checked, At, Idle
  <2>3. QED
    BY <2>1, <2>2 DEF LoneInv, AdminInv, Admins
<1>4. ASSUME NEW r \in Request, Handle(r) PROVE LoneInv'
  <2>1. /\ phase' = phase /\ phase = "serving" /\ ~overlapped
        /\ At(r, "idle") => Begin(r)
    BY <1>4, <1>t, InProgress DEF SerialInv, Begin
  <2>2. Admins # {} /\ Checked(r) /\ audit \subseteq done
    BY <2>1 DEF LoneInv, AdminInv
  <2>3. \A q \in Request \ {r} : At(q, "idle")'
    <3>1. \A q \in Request \ {r} : req'[q] = req[q]
      BY <1>4, OthersStay
    <3>2. QED
      BY <2>1, <3>1 DEF SerialInv, Begin, At
  <2>4. \A q \in Request \ {r} : Checked(q)'
    BY <2>3 DEF Checked, At
  \* It suffices to know what r does.
  <2>5. SUFFICES Admins' # {} /\ Checked(r)' /\ audit' \subseteq done'
    BY <2>4 DEF LoneInv, AdminInv
  <2>6. ASSUME UNCHANGED << users, audit, done >>,
               req'[r].pc \notin {"countAdmins", "change", "invalidate", "audit"}
        PROVE  Admins' # {} /\ Checked(r)' /\ audit' \subseteq done'
    BY <2>2, <2>6 DEF Admins, Checked, At
  <2>7. ASSUME NEW u \in User, LoginRead(r, u) PROVE Admins' # {} /\ Checked(r)' /\ audit' \subseteq done'
    BY <1>t, <2>6, <2>7 DEF LoginRead, tables
  <2>8. ASSUME NEW t \in Token, LoginCreate(r, t) PROVE Admins' # {} /\ Checked(r)' /\ audit' \subseteq done'
    BY <1>t, <2>6, <2>8, GotoIdle DEF LoginCreate, Idle
  <2>9. ASSUME NEW t \in Token, NEW o \in Ops, Authenticate(r, t, o)
        PROVE  Admins' # {} /\ Checked(r)' /\ audit' \subseteq done'
    <3>1. req'[r].pc \in {"dropExpired", "renew"}
      BY <1>t, <2>9 DEF Authenticate
    <3>2. QED
      BY <2>6, <2>9, <3>1 DEF Authenticate, tables
  <2>10. CASE Renew(r)
    <3>1. req[r].pc \in Steps /\ req[r].op \in Ops
      BY <1>t, <2>10, BusyFields DEF Renew, At, Steps
    <3>2. \E step \in {"logout", "insert", "getTarget", "idle"} : Goto(r, step)
      BY <2>10, <3>1, HandlerType DEF Renew
    <3>3. req'[r].pc \in {"logout", "insert", "getTarget", "idle"}
      BY <1>t, <3>1, <3>2, GotoStep, GotoIdle DEF Steps, Idle
    <3>4. QED
      BY <2>6, <2>10, <3>3 DEF Renew, history
  <2>11. CASE DropSession(r) \/ StatementFails(r)
    BY <1>t, <2>6, <2>11, GotoIdle DEF DropSession, StatementFails, Idle, tables, history
  <2>12. CASE InsertUser(r)
    <3>1. req[r].pc \in Steps /\ req[r].op.kind = "create"
      BY <2>12 DEF InsertUser, At, Steps, StepInv
    <3>2. CASE users[req[r].op.target] # NoUser
      BY <1>t, <2>6, <2>12, <3>2, GotoIdle DEF InsertUser, Idle
    <3>3. CASE users[req[r].op.target] = NoUser
      <4>1. Apply(r) /\ Goto(r, "audit") /\ audit' = audit
        BY <2>12, <3>3 DEF InsertUser
      <4>2. /\ req'[r].pc = "audit" /\ req'[r].op = req[r].op /\ req'[r].sess = req[r].sess
        BY <1>t, <3>1, <4>1, GotoStep DEF Steps
      <4>3. Record(r)' = Record(r)
        BY <4>2 DEF Record
      <4>4. /\ \A u \in User \ {req[r].op.target} : users'[u] = users[u]
            /\ done \subseteq done' /\ Record(r) \in done'
        BY <3>1, <4>1, ApplyStep
      <4>5. Admins' # {}
        BY <2>2, <3>3, <4>4, UserAssumption DEF Admins, Roles
      <4>6. Checked(r)'
        BY <4>2, <4>3, <4>4 DEF Checked, At
      <4>7. QED
        BY <2>2, <4>1, <4>4, <4>5, <4>6
    <3>4. QED
      BY <3>2, <3>3
  <2>13. CASE GetTarget(r) \/ CountAdmins(r)
    <3>1. req[r].pc \in {"getTarget", "countAdmins"} /\ req[r].pc \in Steps /\ req[r].op.kind \in {"delete", "role"}
      BY <2>13 DEF GetTarget, CountAdmins, At, Steps, StepInv
    <3>2. UNCHANGED << users, audit, done >>
      BY <2>13 DEF GetTarget, CountAdmins, tables, history
    <3>3. req[r].op.target \in User /\ (req[r].op.kind = "role" => req[r].op.role \in Roles)
      BY <1>t, <3>1, BusyFields, OpFields
    <3> DEFINE demotes == req[r].op.kind = "delete" \/ req[r].op.role = "analyst"
    \* Where it goes, it may go.
    <3>4. \/ Goto(r, "idle")
          \/ Goto(r, "countAdmins") /\ users[req[r].op.target] # NoUser
          \/ /\ Goto(r, "change") /\ users[req[r].op.target] # NoUser
             /\ demotes => \E u \in Admins : u # req[r].op.target
      <4>1. CASE GetTarget(r)
        <5>1. CASE users[req[r].op.target] = NoUser
          BY <4>1, <5>1 DEF GetTarget
        <5>2. CASE users[req[r].op.target] = "admin" /\ demotes
          BY <4>1, <5>2, UserAssumption DEF GetTarget, Roles
        <5>3. CASE users[req[r].op.target] # NoUser /\ ~(users[req[r].op.target] = "admin" /\ demotes)
          <6>1. Goto(r, "change")
            BY <4>1, <5>3 DEF GetTarget
          <6>2. demotes => \E u \in Admins : u # req[r].op.target
            BY <2>2, <5>3 DEF Admins
          <6>3. QED
            BY <5>3, <6>1, <6>2
        <5>4. QED
          BY <5>1, <5>2, <5>3
      <4>2. CASE CountAdmins(r)
        <5>1. users[req[r].op.target] # NoUser
          BY <2>2, <4>2 DEF Checked, CountAdmins, At
        <5>2. CASE Cardinality(Admins) <= 1
          BY <4>2, <5>2 DEF CountAdmins
        <5>3. CASE ~(Cardinality(Admins) <= 1)
          <6>1. Goto(r, "change")
            BY <4>2, <5>3 DEF CountAdmins
          <6>2. QED
            BY <5>1, <5>3, <6>1, AnotherAdmin
        <5>4. QED
          BY <5>2, <5>3
      <4>3. QED
        BY <2>13, <4>1, <4>2
    <3>5. Admins' = Admins
      BY <3>2 DEF Admins
    <3>6. Checked(r)'
      <4>1. CASE Goto(r, "idle")
        BY <1>t, <4>1, GotoIdle DEF Checked, At, Idle
      <4>2. CASE Goto(r, "countAdmins") /\ users[req[r].op.target] # NoUser
        <5>1. req'[r].pc = "countAdmins" /\ req'[r].op = req[r].op
          BY <1>t, <3>1, <4>2, GotoStep DEF Steps
        <5>2. QED
          BY <3>2, <4>2, <5>1 DEF Checked, At
      <4>3. CASE /\ Goto(r, "change") /\ users[req[r].op.target] # NoUser
                 /\ demotes => \E u \in Admins : u # req[r].op.target
        <5>1. req'[r].pc = "change" /\ req'[r].op = req[r].op
          BY <1>t, <3>1, <4>3, GotoStep DEF Steps
        <5>2. QED
          BY <3>2, <3>5, <4>3, <5>1 DEF Checked, At
      <4>4. QED
        BY <3>4, <4>1, <4>2, <4>3
    <3>7. QED
      BY <2>2, <3>2, <3>5, <3>6
  <2>14. CASE ChangeUser(r) \/ (ChangeUnacknowledged(r) /\ At(r, "change"))
    <3>1. req[r].pc = "change" /\ req[r].pc \in Steps /\ req[r].op.kind \in {"delete", "role"}
      BY <2>14 DEF ChangeUser, At, Steps, StepInv
    <3>2. Apply(r) /\ audit' = audit /\ (Goto(r, "invalidate") \/ Goto(r, "idle"))
      BY <2>14 DEF ChangeUser, ChangeUnacknowledged
    <3>3. /\ users[req[r].op.target] # NoUser
          /\ (req[r].op.kind = "delete" \/ req[r].op.role = "analyst") => \E u \in Admins : u # req[r].op.target
      BY <2>2, <3>1 DEF Checked, At
    <3>4. /\ req[r].op.target \in User
          /\ \A u \in User \ {req[r].op.target} : users'[u] = users[u]
          /\ req[r].op.kind = "role" => users'[req[r].op.target] = req[r].op.role
          /\ done \subseteq done' /\ Record(r) \in done'
      BY <3>1, <3>2, <3>3, ApplyStep
    <3>5. Admins' # {}
      <4>1. CASE req[r].op.kind = "delete" \/ req[r].op.role = "analyst"
        BY <3>3, <3>4, <4>1 DEF Admins
      <4>2. CASE req[r].op.kind = "role" /\ req[r].op.role # "analyst"
        <5>1. req[r].op.role = "admin"
          BY <1>t, <3>1, <4>2, BusyFields, OpFields DEF Roles
        <5>2. QED
          BY <3>4, <4>2, <5>1 DEF Admins
      <4>3. QED
        BY <3>1, <4>1, <4>2
    <3>6. Checked(r)'
      <4>1. CASE Goto(r, "idle")
        BY <1>t, <4>1, GotoIdle DEF Checked, At, Idle
      <4>2. CASE Goto(r, "invalidate")
        <5>1. req'[r].pc = "invalidate" /\ req'[r].op = req[r].op /\ req'[r].sess = req[r].sess
          BY <1>t, <3>1, <4>2, GotoStep DEF Steps
        <5>2. Record(r)' = Record(r)
          BY <5>1 DEF Record
        <5>3. QED
          BY <3>4, <5>1, <5>2 DEF Checked, At
      <4>3. QED
        BY <3>2, <4>1, <4>2
    <3>7. QED
      BY <2>2, <3>2, <3>4, <3>5, <3>6
  <2>15. CASE ChangeUnacknowledged(r) /\ ~At(r, "change")
    <3>1. /\ req[r].pc = "insert" /\ req[r].pc \in Steps /\ req[r].op.kind = "create"
          /\ users[req[r].op.target] = NoUser
      BY <2>15 DEF ChangeUnacknowledged, At, Steps, StepInv
    <3>2. Apply(r) /\ audit' = audit /\ Goto(r, "idle")
      BY <2>15 DEF ChangeUnacknowledged
    <3>3. (\A u \in User \ {req[r].op.target} : users'[u] = users[u]) /\ done \subseteq done'
      BY <3>1, <3>2, ApplyStep
    <3>4. Admins' # {}
      BY <2>2, <3>1, <3>3, UserAssumption DEF Admins, Roles
    <3>5. Checked(r)'
      BY <1>t, <3>2, GotoIdle DEF Checked, At, Idle
    <3>6. QED
      BY <2>2, <3>2, <3>3, <3>4, <3>5
  <2>16. CASE Invalidate(r) \/ InvalidateFails(r)
    <3>1. req[r].pc = "invalidate" /\ req[r].pc \in Steps
      BY <2>16 DEF Invalidate, InvalidateFails, At, Steps
    <3>2. UNCHANGED << users, audit, done >> /\ Goto(r, "audit")
      BY <2>16 DEF Invalidate, InvalidateFails, tables
    <3>3. req'[r].pc = "audit" /\ req'[r].op = req[r].op /\ req'[r].sess = req[r].sess
      BY <1>t, <3>1, <3>2, GotoStep DEF Steps
    <3>4. Record(r)' = Record(r) /\ Record(r) \in done
      BY <2>2, <3>1, <3>3 DEF Record, Checked
    <3>5. QED
      BY <2>2, <3>2, <3>3, <3>4 DEF Checked, At, Admins
  <2>17. CASE AuditUserAction(r)
    <3>1. /\ Record(r) \in done /\ audit' = audit \cup {Record(r)} /\ UNCHANGED << users, done >>
          /\ Goto(r, "idle")
      BY <2>2, <2>17 DEF AuditUserAction, Checked, At, tables, history
    <3>2. Checked(r)'
      BY <1>t, <3>1, GotoIdle DEF Checked, At, Idle
    <3>3. QED
      BY <2>2, <3>1, <3>2 DEF Admins
  <2>18. QED
    BY <1>4, <2>7, <2>8, <2>9, <2>10, <2>11, <2>12, <2>13, <2>14, <2>15, <2>16, <2>17 DEF Handle
<1>5. QED
  BY <1>1, <1>2, <1>3, <1>4 DEF Next

-------------------------------------------------------------------------------
(* The theorems *)

\* The empty tables of a new database.
LEMMA InitHolds == Init => AccountInv /\ StaleSessionExplained
<1> SUFFICES ASSUME Init PROVE AccountInv /\ StaleSessionExplained
  OBVIOUS
<1> USE DEF Init
<1>1. TypeInv
  <2>1. req \in [Request -> Requests] /\ \A r \in Request : req[r].pc = "idle"
    BY DEF Requests, Idle
  <2>2. StepInv
    BY <2>1 DEF StepInv, At
  <2>3. TypeOK
    <3>1. users \in [User -> Roles \cup {NoUser}] /\ sessions \in [Token -> Sessions \cup {NoSession}]
      OBVIOUS
    <3>2. changes \in 0..MaxChanges /\ faults \in 0..MaxFaults
      BY BoundsAssumption
    <3>3. phase \in {"down", "booting", "serving"} /\ seeding \in Seq(Users)
      OBVIOUS
    <3>4. QED
      BY <2>1, <3>1, <3>2, <3>3 DEF TypeOK
  <2>4. QED
    BY <2>2, <2>3 DEF TypeInv
<1>2. SerialInv
  BY DEF SerialInv, At, Idle
<1>3. LoneInv
  BY DEF LoneInv, AdminInv, Checked, At, Idle
<1>4. StaleSessionExplained
  BY DEF StaleSessionExplained, Stale
<1>5. QED
  BY <1>1, <1>2, <1>3, <1>4 DEF AccountInv

\* AccountInv is inductive.
LEMMA AccountStep == AccountInv /\ [Next]_vars => AccountInv'
BY TypeStep, SerialStep, LoneStep DEF AccountInv

\* Rows, sessions and requests keep their types.
THEOREM TypeCorrect == Spec => []TypeOK
<1>1. AccountInv => TypeOK
  BY DEF AccountInv, TypeInv
<1>2. QED
  BY InitHolds, AccountStep, <1>1, PTL DEF Spec

\* A session whose role differs from its user's is about to be deleted, or could
\* not be, or was created from a row read before the change (session.go:74-78).
THEOREM StaleAlwaysExplained == Spec => []StaleSessionExplained
<1>1. AccountInv => TypeInv
  BY DEF AccountInv
<1>2. AccountInv /\ StaleSessionExplained /\ [Next]_vars => AccountInv' /\ StaleSessionExplained'
  BY <1>1, AccountStep, StaleStep
<1>3. QED
  BY InitHolds, <1>2, PTL DEF Spec

\* While requests have not overlapped, the backend serves with an admin in the
\* table: seeding, the 404 and countAdmins (user_handlers.go:76-92) see to it.
THEOREM LastAdminStays == Spec => []LastAdminKept
<1>1. AccountInv => LastAdminKept
  BY DEF AccountInv, LoneInv, AdminInv, LastAdminKept
<1>2. QED
  BY InitHolds, AccountStep, <1>1, PTL DEF Spec

\* While requests have not overlapped, auditUserAction (user_handlers.go:161) has
\* recorded only what happened, whatever failed or crashed on the way.
THEOREM AuditTellsTheTruth == Spec => []AuditedActionsHappened
<1>1. AccountInv => AuditedActionsHappened
  BY DEF AccountInv, LoneInv, AuditedActionsHappened
<1>2. QED
  BY InitHolds, AccountStep, <1>1, PTL DEF Spec
===============================================================================

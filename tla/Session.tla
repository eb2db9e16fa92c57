------------------------------- MODULE Session -------------------------------
(***************************************************************************)
(* Signing in and out on one page (frontend/src/App.tsx, LoginPage.tsx,    *)
(* api.ts): the browser's cookie, the user that the page shows, and the    *)
(* calls under way, each sent under the cookie of its time and answered by *)
(* the session store.  A call that is answered 401 signs the user out, and *)
(* answers arrive in any order, also after a sign-out and a new sign-in.   *)
(*                                                                         *)
(* Calls of kind "load" are the audit log's, which its effect's cleanup    *)
(* drops; "ask" are those of the tables that drop nothing (ReviewView),    *)
(* and of a panel that is gone.  The panel is UploadPanel.                 *)
(***************************************************************************)
EXTENDS Integers, FiniteSets, Sequences, SequencesExt, UploadPanel

CONSTANTS
  MaxLogins,  \* bound: sessions
  MaxCalls,   \* bound: calls under way
  MaxReloads, \* bound: reloads of the page
  MaxFaults   \* bound: calls and answers lost

Nobody == 0
Unknown == -1   \* user === undefined: me() is under way
Login == 1..MaxLogins
Kinds == {"me", "login", "logout", "load", "ask", "upload"}

VARIABLES
  sessions,   \* server: the sessions that live; each login makes one
  logins,     \* how many there have been
  cookie,     \* browser: the session's token
  calls,      \* [kind, as: the session it was sent under, answer]
  user,       \* page: whose login the page shows
  sessionExpired,
  tab,        \* bottomTab
  reloads, faults

server == << sessions, logins >>
page == << user, sessionExpired, tab >>
vars == << server, cookie, calls, page, panel, reloads, faults >>

TypeOK ==
  /\ PanelTypeOK
  /\ sessions \subseteq Login /\ logins \in 0..MaxLogins /\ cookie \in {Nobody} \cup Login
  /\ calls \in Seq([kind : Kinds, as : {Nobody} \cup Login, answer : {"none", "ok", "no"}])
  /\ user \in {Unknown, Nobody} \cup Login /\ sessionExpired \in BOOLEAN
  /\ tab \in {"audit", "other"}

CallAs(k, s) == [kind |-> k, as |-> s, answer |-> "none"]

Call(k) == CallAs(k, cookie)

Send(k) == Len(calls) < MaxCalls /\ calls' = Append(calls, Call(k))

Init ==
  /\ sessions = {} /\ logins = 0 /\ cookie = Nobody
  /\ calls = << Call("me") >>
  /\ user = Unknown /\ sessionExpired = FALSE /\ tab = "audit"
  /\ PanelInit /\ reloads = 0 /\ faults = 0

Fault == faults < MaxFaults /\ faults' = faults + 1

InApp == user \in Login

-------------------------------------------------------------------------------
(* The server *)

\* requireAuth, loginHandler, logoutHandler; a login fails for a wrong password
Serve(i) ==
  /\ i \in DOMAIN calls /\ calls[i].answer = "none"
  /\ LET c == calls[i]
         Answer(a) == calls' = [calls EXCEPT ![i].answer = a]
     IN \/ /\ c.kind = "login" /\ logins < MaxLogins
           /\ logins' = logins + 1 /\ sessions' = sessions \cup {logins'}
           /\ calls' = [calls EXCEPT ![i] = [c EXCEPT !.as = logins', !.answer = "ok"]]
        \/ c.kind = "login" /\ Answer("no") /\ UNCHANGED server
        \/ /\ c.kind # "login" /\ c.as \in sessions /\ Answer("ok")
           /\ sessions' = IF c.kind = "logout" THEN sessions \ {c.as} ELSE sessions
           /\ UNCHANGED logins
        \/ c.kind # "login" /\ c.as \notin sessions /\ Answer("no") /\ UNCHANGED server
  /\ UNCHANGED << cookie, page, panel, reloads, faults >>

\* expiry, or a change of the user by an admin (Accounts)
EndSession ==
  /\ \E s \in sessions : sessions' = sessions \ {s}
  /\ UNCHANGED << logins, cookie, calls, page, panel, reloads, faults >>

-------------------------------------------------------------------------------
(* Answers *)

\* {s without its loads}
Loadless(s) ==
  LET kept == {i \in DOMAIN s : s[i].kind # "load"}
      rank == 1..Cardinality(kept)
  IN {[k \in rank |-> s[at[k]]] :
        at \in {f \in [rank -> kept] : \A j, k \in rank : j < k => f[j] < f[k]}}

Orphan(s) == [i \in DOMAIN s |-> IF s[i].kind = "upload" THEN [s[i] EXCEPT !.kind = "ask"] ELSE s[i]]

\* Mutant: the audit log's effect has no cleanup
Left_KeepsLoads(s) == {Orphan(s)}

\* the calls that still matter when the dashboard is unmounted
Left(s) == {Orphan(t) : t \in Loadless(s)}

\* setUser(null)
Leave(rest, expired) ==
  /\ user' = Nobody /\ sessionExpired' = expired
  /\ IF InApp THEN calls' \in Left(rest) /\ FreshPanel ELSE calls' = rest /\ UNCHANGED panel
  /\ UNCHANGED tab

\* setUser(u): the dashboard is mounted on the tab that was open last
Enter(u, rest) ==
  /\ user' = u
  /\ calls' = Append(rest, CallAs(IF tab = "audit" THEN "load" ELSE "ask", u))
  /\ UNCHANGED << tab, panel >>

MeAnswered(c, rest) ==
  /\ c.kind = "me" /\ UNCHANGED cookie
  /\ IF c.answer = "ok" THEN Enter(c.as, rest) /\ UNCHANGED sessionExpired
                        ELSE Leave(rest, sessionExpired)

\* onLogin
LoginAnswered(c, rest) ==
  /\ c.kind = "login"
  /\ IF c.answer = "ok" THEN cookie' = c.as /\ sessionExpired' = FALSE /\ Enter(c.as, rest)
                        ELSE calls' = rest /\ UNCHANGED << cookie, page, panel >>

\* handleLogout goes on whatever the answer was; a 401 leaves the cookie
LogoutAnswered(c, rest) ==
  /\ c.kind = "logout"
  /\ cookie' = IF c.answer = "ok" THEN Nobody ELSE cookie
  /\ Leave(rest, sessionExpired)

\* Mutant: a 401 is an error like others
DataAnswered_Ignores401(c, rest) ==
  /\ c.kind \in {"load", "ask", "upload"} /\ UNCHANGED << cookie, page >> /\ calls' = rest
  /\ IF c.kind = "upload" THEN EndUpload ELSE UNCHANGED panel

\* handleSessionExpired, of a table or an upload, even of one that is gone
DataAnswered(c, rest) ==
  /\ c.kind \in {"load", "ask", "upload"} /\ UNCHANGED cookie
  /\ IF c.answer = "no" THEN Leave(rest, TRUE)
     ELSE /\ calls' = rest /\ UNCHANGED page
          /\ IF c.kind = "upload" THEN EndUpload ELSE UNCHANGED panel

Answered(i) ==
  /\ i \in DOMAIN calls /\ calls[i].answer # "none"
  /\ LET c == calls[i]
         rest == RemoveAt(calls, i)
     IN MeAnswered(c, rest) \/ LoginAnswered(c, rest) \/ LogoutAnswered(c, rest) \/ DataAnswered(c, rest)
  /\ UNCHANGED << server, reloads, faults >>

\* the call or its answer is lost
Fails(i) ==
  /\ i \in DOMAIN calls /\ Fault
  /\ LET rest == RemoveAt(calls, i)
     IN CASE calls[i].kind \in {"me", "logout"} -> Leave(rest, sessionExpired)
          [] calls[i].kind = "upload" -> EndUpload /\ calls' = rest /\ UNCHANGED page
          [] OTHER -> calls' = rest /\ UNCHANGED << page, panel >>
  /\ UNCHANGED << server, cookie, reloads >>

-------------------------------------------------------------------------------
(* The user *)

Asked(k) == \E i \in DOMAIN calls : calls[i].kind = k

\* the form's button is disabled while a login is under way
SubmitLogin ==
  /\ user = Nobody /\ ~Asked("login") /\ logins < MaxLogins /\ Send("login")
  /\ UNCHANGED << server, cookie, page, panel, reloads, faults >>

\* "Sign out" can be clicked again
Logout ==
  /\ InApp /\ Send("logout")
  /\ UNCHANGED << server, cookie, page, panel, reloads, faults >>

\* setInterval(load, 5000)
Poll ==
  /\ InApp /\ tab = "audit" /\ Send("load")
  /\ UNCHANGED << server, cookie, page, panel, reloads, faults >>

\* a decision, a form, a new refreshKey
Ask ==
  /\ InApp /\ tab = "other" /\ Send("ask")
  /\ UNCHANGED << server, cookie, page, panel, reloads, faults >>

SwitchTab(t) ==
  /\ InApp /\ t # tab /\ tab' = t
  /\ \E rest \in Loadless(calls) :
       /\ Len(rest) < MaxCalls
       /\ calls' = Append(rest, Call(IF t = "audit" THEN "load" ELSE "ask"))
  /\ UNCHANGED << server, cookie, user, sessionExpired, panel, reloads, faults >>

TakeFile(f) ==
  /\ InApp /\ handleFile(f)
  /\ UNCHANGED << server, cookie, calls, page, reloads, faults >>

Digest(f) ==
  /\ Digested(f) \/ DigestFails(f)
  /\ UNCHANGED << server, cookie, calls, page, reloads, faults >>

handleUpload ==
  /\ InApp /\ StartUpload /\ Send("upload")
  /\ UNCHANGED << server, cookie, page, reloads, faults >>

\* the cookie a served but unanswered call brings, if the browser still sees it
CookiesUnderWay ==
  {IF calls[i].kind = "login" THEN calls[i].as ELSE Nobody :
     i \in {j \in DOMAIN calls : calls[j].kind \in {"login", "logout"} /\ calls[j].answer = "ok"}}

Reload ==
  /\ reloads < MaxReloads /\ reloads' = reloads + 1
  /\ cookie' \in {cookie} \cup CookiesUnderWay
  /\ user' = Unknown /\ sessionExpired' = FALSE /\ tab' = "audit" /\ FreshPanel
  /\ calls' = << CallAs("me", cookie') >>
  /\ UNCHANGED << server, faults >>

Next ==
  \/ \E i \in DOMAIN calls : Serve(i) \/ Answered(i) \/ Fails(i)
  \/ EndSession \/ SubmitLogin \/ Logout \/ Poll \/ Ask \/ handleUpload \/ Reload
  \/ \E t \in {"audit", "other"} : SwitchTab(t)
  \/ \E f \in File : TakeFile(f) \/ Digest(f)

\* calls are served and answered, and the audit log's timer goes on
Fairness == WF_vars(Serve(1) \/ Answered(1)) /\ WF_vars(Poll)

Spec == Init /\ [][Next]_vars /\ Fairness

-------------------------------------------------------------------------------
(* Properties *)

\* The page shows the login form instead of the dashboard only because its own
\* session has ended, a sign-out was asked for, or a call of an earlier login,
\* of those that no table cancels, was refused late (App.tsx:86-99,
\* AuditLogTable.tsx:182-227).
LeavesForAReason ==
  [][InApp /\ user' = Nobody =>
       \/ user \notin sessions
       \/ Asked("logout")
       \/ \E i \in DOMAIN calls :
            /\ calls[i].kind \in {"ask", "upload"} /\ calls[i].answer = "no"
            /\ calls[i].as # user]_vars

\* A user whose session ends while the audit log is open is signed out, unless
\* another tab is opened first, although nothing tells the page
\* (AuditLogTable.tsx:193-222).
EndedIsNoticed ==
  \A u \in Login : (user = u /\ u \notin sessions /\ tab = "audit") ~> (user # u \/ tab # "audit")

\* The hash under a file's name is that file's, unless the file was picked while
\* another one's hash was being computed (UploadPanel.tsx:39-50).
HashFitsFile == hash # None /\ ~mixed => hash = file
===============================================================================

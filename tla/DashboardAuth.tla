---------------------------- MODULE DashboardAuth ----------------------------
(***************************************************************************)
(* Sign-in to the dashboard: the administrator's record in Redis, created   *)
(* with a default password by the first login, and the sessions.  The       *)
(* dashboard has no form to change the password: the operator does it in    *)
(* Redis, at any time.                                                      *)
(*                                                                         *)
(* A record is a class of what may be stored; hashes and tokens are left    *)
(* out: the token of login l is l.                                          *)
(***************************************************************************)
EXTENDS Naturals

CONSTANTS
    Logins,                     \* login requests
    SessionTTL                  \* 24 h, in ticks

ASSUME SessionAssumption == SessionTTL \in Nat \ {0}

VARIABLES
    admin,                      \* the record: none, the default password, the one
                                \* the operator chose, that one as a viewer, or text
                                \* that is no record
    login,                      \* where each login is (at) and its password
    session,                    \* the sessions: time left (0: none) and role
    replaced,                   \* history: the operator has replaced the record
    raced                       \* history: logins that had found no record when the
                                \* operator replaced it

authVars == <<admin, login, session, replaced, raced>>

Passwords == {"default", "chosen"}
Records == {"none", "default", "chosen", "viewer", "garbled"}

LoginStages == {"idle", "exists", "create", "verify", "viewer", "admin", "in", "refused",
                "failed", "out"}

AuthTypeOK ==
    /\ admin \in Records
    /\ login \in [Logins -> [at : LoginStages, password : Passwords]]
    /\ session \in [Logins -> [left : 0..SessionTTL, role : {"viewer", "admin"}]]
    /\ replaced \in BOOLEAN
    /\ raced \subseteq Logins

NoSession == [left |-> 0, role |-> "viewer"]

\* Nobody has signed in, but for those with an open session.
AuthInit(open) ==
    /\ admin \in IF open = {} THEN {"none", "default"} ELSE {"default"}
    /\ login = [l \in Logins |-> [at |-> IF l \in open THEN "in" ELSE "idle",
                                  password |-> "default"]]
    /\ session = [l \in Logins |->
           IF l \in open THEN [left |-> SessionTTL, role |-> "admin"] ELSE NoSession]
    /\ replaced = FALSE
    /\ raced = {}

Moves(l, from, to) == login[l].at = from /\ login' = [login EXCEPT ![l].at = to]

-----------------------------------------------------------------------------
(* api/auth/login: ensureDefaultAdminUser, verifyCredentials, createSession *)

Login(l, password) ==
    /\ login[l].at = "idle"
    /\ login' = [login EXCEPT ![l] = [at |-> "exists", password |-> password]]
    /\ UNCHANGED <<admin, session, replaced, raced>>

\* Variant with a mistake: a record that cannot be read is replaced, too.
LookForRecordOfAnAdmin(l) ==
    /\ Moves(l, "exists", IF admin \in {"default", "chosen"} THEN "verify" ELSE "create")
    /\ UNCHANGED <<admin, session, replaced, raced>>

\* EXISTS.
LookForRecord(l) ==
    /\ Moves(l, "exists", IF admin = "none" THEN "create" ELSE "verify")
    /\ UNCHANGED <<admin, session, replaced, raced>>

\* SET, whatever is there by now.
CreateAdmin(l) ==
    /\ Moves(l, "create", "verify")
    /\ admin' = "default"
    /\ UNCHANGED <<session, replaced, raced>>

Matches(record, password) ==
    CASE record \in {"chosen", "viewer"} -> password = "chosen"
      [] record = "default" -> password = "default"
      [] OTHER -> FALSE

\* GET and the comparison; the role is the one stored now.
Verify(l) ==
    /\ Moves(l, "verify", IF ~Matches(admin, login[l].password) THEN "refused"
                          ELSE IF admin = "viewer" THEN "viewer" ELSE "admin")
    /\ UNCHANGED <<admin, session, replaced, raced>>

OpenSession(l) ==
    /\ \E role \in {"viewer", "admin"} :
           /\ Moves(l, role, "in")
           /\ session' = [session EXCEPT ![l] = [left |-> SessionTTL, role |-> role]]
    /\ UNCHANGED <<admin, replaced, raced>>

\* Redis does not answer.
LoginFails(l) ==
    /\ \E at \in {"exists", "create", "verify", "viewer", "admin"} : Moves(l, at, "failed")
    /\ UNCHANGED <<admin, session, replaced, raced>>

\* api/auth/logout: the session and the cookie go.
Logout(l) ==
    /\ Moves(l, "in", "out")
    /\ session' = [session EXCEPT ![l] = NoSession]
    /\ UNCHANGED <<admin, replaced, raced>>

\* getSessionFromRequest and the test of the role that the handlers start with.
Admits(l) == session[l].left > 0 /\ session[l].role = "admin"

LoginStep(l) ==
    \/ LookForRecord(l) \/ CreateAdmin(l) \/ Verify(l) \/ OpenSession(l)
    \/ LoginFails(l) \/ Logout(l)

-----------------------------------------------------------------------------
(* Redis: the operator, and expiry *)

ReplaceRecord ==
    /\ admin' \in {"chosen", "viewer", "garbled"}
    /\ replaced' = TRUE
    /\ raced' = {l \in Logins : login[l].at = "create"}
    /\ UNCHANGED <<login, session>>

SessionsAge ==
    session' = [l \in Logins |->
        IF session[l].left > 1 THEN [session[l] EXCEPT !.left = @ - 1] ELSE NoSession]

-----------------------------------------------------------------------------
(* Properties *)

\* Once the operator has replaced the administrator's record, the default
\* password comes back only through a login that had found no record before.
RecordLostOnlyToFirstLogin == replaced /\ admin = "default" => raced # {}

=============================================================================

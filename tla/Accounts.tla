------------------------------- MODULE Accounts -------------------------------
(***************************************************************************)
(* Accounts and authentication: the handlers of api/auth.py and of         *)
(* POST/DELETE /users, the ownership rule of main.enforce_auth, over the   *)
(* users, user_credentials and auth_sessions tables and the throttle.      *)
(*                                                                         *)
(* The handlers are plain functions, so FastAPI runs each in a thread of   *)
(* its pool: requests interleave at every repository and throttle call,    *)
(* each of which is a transaction, or a hold of the lock, of its own. A    *)
(* request is a record with the place it has reached and what it has read. *)
(*                                                                         *)
(* A password is a value: hashing is not modelled, only whether the one    *)
(* offered is the one stored. Malformed ids and short passwords are turned *)
(* away with nothing changed and are not modelled.                         *)
(***************************************************************************)
EXTENDS FailureThrottle

CONSTANTS
    Users,      \* ids a request may name
    Members,    \* the ids among them that are ever given a profile
    Clients,    \* addresses requests come from
    Passwords,
    Requests,   \* bound: requests in flight at once
    Tokens,     \* bound: sessions live at once, and one more per request
    None

ASSUME AccountsAssumption ==
    /\ Members \subseteq Users
    /\ None \notin Users \cup Passwords \cup Tokens
    /\ Keys = Clients \X (Users \cup {None})
    /\ IsFiniteSet(Requests)

VARIABLES
    required,   \* settings.auth_required
    profile,    \* the ids that have a users row
    cred,       \* user_credentials: the password, or None
    rows,       \* auth_sessions
    req,        \* the requests
    writer      \* history: who wrote the credential last

tables == <<profile, cred, rows>>
vars == <<throttleVars, required, tables, req, writer>>

Kinds == {"none", "login", "signup", "password", "logout_all", "create", "delete"}
Places == {"done", "guard_id", "guard_ip", "read", "user", "fail_id", "fail_ip",
           "reset_id", "reset_ip", "issue", "lookup", "exists", "profile",
           "set", "whoami", "revoke", "gate", "act"}

\* stale (history): the password it rests on has been replaced since.
\* straddled (history): a password change signed out everyone while it ran.
Session == [token : Tokens, user : Users, expired : BOOLEAN,
            stale : BOOLEAN, straddled : BOOLEAN]
Request == [kind : Kinds, at : Places, client : Clients \cup {None},
            user : Users \cup {None}, pass : Passwords \cup {None},
            new : Passwords \cup {None}, token : Tokens \cup {None},
            seen : Passwords \cup {None}, stale : BOOLEAN, straddled : BOOLEAN]

\* Where a request rests on what it has read of the credential.
Proved == {"user", "reset_id", "reset_ip", "set", "revoke", "issue"}

Done == [kind |-> "none", at |-> "done", client |-> None, user |-> None,
         pass |-> None, new |-> None, token |-> None, seen |-> None,
         stale |-> FALSE, straddled |-> FALSE]

AccountsInit ==
    /\ ThrottleInit
    /\ required \in BOOLEAN
    /\ profile \in SUBSET Members
    /\ cred = [u \in Users |-> None]
    /\ rows = {}
    /\ req = [r \in Requests |-> Done]
    /\ writer = [u \in Users |-> "nobody"]

-----------------------------------------------------------------------------
(* Repository calls.                                                       *)

TokensHeld == {s.token : s \in rows} \cup {req[r].token : r \in Requests}

\* AuthSessionRepository.resolve: whose token it is, and the row it deletes.
Owner(token) == LET live == {s \in rows : s.token = token /\ ~s.expired}
                IN  IF live = {} THEN None ELSE (CHOOSE s \in live : TRUE).user
Swept(token) == {s \in rows : ~(s.token = token /\ s.expired)}

OwnedBy(u) == {s \in rows : s.user = u}

\* What rests on the password of u no longer rests on the current one.
Overtake(u) == [r \in Requests |-> IF req[r].user = u /\ req[r].at \in Proved
                                   THEN [req[r] EXCEPT !.stale = TRUE]
                                   ELSE req[r]]
Aged(u) == {IF s.user = u THEN [s EXCEPT !.stale = TRUE] ELSE s : s \in rows}

\* The next place of request r; Finish(r): its answer has been sent.
Goto(r, place) == req' = [req EXCEPT ![r].at = place]
Finish(r) == req' = [req EXCEPT ![r] = Done]

Key(r, who) == <<req[r].client, IF who = "id" THEN req[r].user ELSE None>>

-----------------------------------------------------------------------------
(* Requests arriving. A token is that of a session or one not known.       *)

Known == {s.token : s \in rows} \cup {None}

Arrive(r, request) ==
    /\ req[r] = Done
    /\ req' = [req EXCEPT ![r] = request]
    /\ UNCHANGED <<throttleVars, required, tables, writer>>

Login(r) ==
    \E c \in Clients, u \in Users, p \in Passwords :
        Arrive(r, [Done EXCEPT !.kind = "login", !.at = "guard_id", !.client = c,
                               !.user = u, !.pass = p])

Signup(r) ==
    \E u \in Members, p \in Passwords :
        Arrive(r, [Done EXCEPT !.kind = "signup", !.at = "lookup",
                               !.user = u, !.new = p])

ChangePassword(r) ==
    \E c \in Clients, t \in Known, p \in Passwords, q \in Passwords :
        Arrive(r, [Done EXCEPT !.kind = "password", !.at = "whoami", !.client = c,
                               !.token = t, !.pass = p, !.new = q])

LogoutEverywhere(r) ==
    \E t \in Known :
        Arrive(r, [Done EXCEPT !.kind = "logout_all", !.at = "whoami", !.token = t])

\* POST /users and DELETE /users/{id}, behind the middleware.
ManageUser(r) ==
    \E t \in Known, u \in Members, kind \in {"create", "delete"} :
        Arrive(r, [Done EXCEPT !.kind = kind, !.at = "gate",
                               !.token = t, !.user = u])

\* logout: one call, whether or not the token is still known.
Logout(r) ==
    \E t \in Known :
        /\ req[r] = Done
        /\ rows' = {s \in rows : s.token # t}
        /\ UNCHANGED <<throttleVars, required, profile, cred, req, writer>>

\* auth_status, and any other request that only asks whose token it is.
AuthStatus(r) ==
    \E t \in Known :
        /\ req[r] = Done
        /\ rows' = Swept(t)
        /\ UNCHANGED <<throttleVars, required, profile, cred, req, writer>>

-----------------------------------------------------------------------------
(* The throttle around a password that is being checked.                   *)

\* _guard_throttle: the key of the id, then that of the address; 429 when
\* either is locked out.
Guard(r) ==
    /\ req[r].at \in {"guard_id", "guard_ip"}
    /\ LET who == IF req[r].at = "guard_id" THEN "id" ELSE "ip" IN
       /\ RetryAfter(Key(r, who))
       /\ IF Locked(Key(r, who)) THEN Finish(r)
          ELSE Goto(r, IF who = "id" THEN "guard_ip" ELSE "read")
    /\ UNCHANGED <<required, tables, writer>>

\* record_failure for both keys, and 401.
Fail(r) ==
    /\ \/ req[r].at = "fail_id" /\ RecordFailure(Key(r, "id")) /\ Goto(r, "fail_ip")
       \/ req[r].at = "fail_ip" /\ RecordFailure(Key(r, "ip")) /\ Finish(r)
    /\ UNCHANGED <<required, tables, writer>>

\* login alone resets both keys.
Reset(r) ==
    /\ \/ req[r].at = "reset_id" /\ Forget(Key(r, "id")) /\ Goto(r, "reset_ip")
       \/ req[r].at = "reset_ip" /\ Forget(Key(r, "ip")) /\ Goto(r, "issue")
    /\ UNCHANGED <<required, tables, writer>>

-----------------------------------------------------------------------------
(* login and change_password: the stored credential, then the verdict.     *)

Verified(r) == cred[req[r].user] # None /\ cred[req[r].user] = req[r].pass

\* credentials.get; login goes on to read the profile before it decides.
ReadCredential(r) ==
    /\ req[r].at = "read"
    /\ \/ /\ req[r].kind = "login"
          /\ req' = [req EXCEPT ![r] = [@ EXCEPT !.at = "user",
                                                 !.seen = cred[req[r].user]]]
       \/ /\ req[r].kind = "password" /\ Verified(r)
          /\ Goto(r, "set")
       \/ /\ req[r].kind = "password" /\ ~Verified(r)
          /\ Goto(r, "fail_id")
    /\ UNCHANGED <<throttleVars, required, tables, writer>>

Verify(r) ==
    /\ req[r].at = "user"
    /\ LET right == /\ req[r].seen # None
                    /\ req[r].user \in profile
                    /\ req[r].seen = req[r].pass
           told == [req[r] EXCEPT !.pass = None, !.seen = None]
       IN  req' = [req EXCEPT ![r] =
                      IF right THEN [told EXCEPT !.at = "reset_id"]
                      ELSE [told EXCEPT !.at = "fail_id", !.stale = FALSE,
                                        !.straddled = FALSE]]
    /\ UNCHANGED <<throttleVars, required, tables, writer>>

\* _issue: a row that needs its user, or a foreign key error.
Issue(r) ==
    /\ req[r].at = "issue"
    /\ Tokens \ TokensHeld # {}
    /\ LET row == [token |-> CHOOSE t \in Tokens \ TokensHeld : TRUE,
                   user |-> req[r].user, expired |-> FALSE,
                   stale |-> req[r].stale, straddled |-> req[r].straddled]
       IN  \/ req[r].user \in profile /\ rows' = rows \cup {row}
           \/ req[r].user \notin profile /\ UNCHANGED rows
    /\ Finish(r)
    /\ UNCHANGED <<throttleVars, required, profile, cred, writer>>

-----------------------------------------------------------------------------
(* signup.                                                                 *)

Lookup(r) ==
    /\ req[r].at = "lookup"
    /\ Goto(r, IF req[r].user \in profile THEN "exists" ELSE "profile")
    /\ UNCHANGED <<throttleVars, required, tables, writer>>

\* Mutant: an account may be claimed again.
ClaimAgain(r) ==
    /\ req[r].at = "exists"
    /\ Goto(r, "set")
    /\ UNCHANGED <<throttleVars, required, tables, writer>>

\* credentials.exists: 409 when there is one.
CheckUnclaimed(r) ==
    /\ req[r].at = "exists"
    /\ IF cred[req[r].user] # None THEN Finish(r)
       ELSE Goto(r, "set")
    /\ UNCHANGED <<throttleVars, required, tables, writer>>

\* users.create, which fails on an id that has appeared meanwhile. Claiming
\* updates the display name instead, which nothing here reads.
CreateProfile(r) ==
    /\ req[r].at = "profile"
    /\ IF req[r].user \in profile THEN Finish(r) /\ UNCHANGED profile
       ELSE Goto(r, "set") /\ profile' = profile \cup {req[r].user}
    /\ UNCHANGED <<throttleVars, required, cred, rows, writer>>

\* credentials.set of signup and of change_password, an upsert that needs the
\* users row. The change goes on to sign everyone out.
SetCredential(r) ==
    /\ req[r].at = "set"
    /\ LET u == req[r].user IN
       \/ /\ u \in profile
          /\ cred' = [cred EXCEPT ![u] = req[r].new]
          /\ rows' = Aged(u)
          /\ req' = [Overtake(u) EXCEPT ![r] =
                        [@ EXCEPT !.stale = FALSE, !.straddled = FALSE,
                                  !.pass = None, !.new = None,
                                  !.at = IF req[r].kind = "password" THEN "revoke"
                                         ELSE "issue"]]
          /\ writer' = [writer EXCEPT ![u] = req[r].kind]
       \/ /\ u \notin profile
          /\ Finish(r)
          /\ UNCHANGED <<cred, rows, writer>>
    /\ UNCHANGED <<throttleVars, required, profile>>

-----------------------------------------------------------------------------
(* change_password and logout_everywhere: who is calling, and revocation.  *)

\* current_user_id, then users.get, which cannot fail for a resolved token but
\* by a deletion in between: that ends in the same 401.
WhoAmI(r) ==
    /\ req[r].at = "whoami"
    /\ rows' = Swept(req[r].token)
    /\ LET u == Owner(req[r].token) IN
       IF u = None THEN Finish(r)
       ELSE req' = [req EXCEPT ![r] = [@ EXCEPT !.user = u, !.token = None,
                       !.at = IF req[r].kind = "password" THEN "guard_id" ELSE "revoke"]]
    /\ UNCHANGED <<throttleVars, required, profile, cred, writer>>

\* Mutant: the sessions there are stay.
RevokeNothing(r) ==
    /\ req[r].at = "revoke"
    /\ req' = [req EXCEPT ![r] = IF @.kind = "password" THEN [@ EXCEPT !.at = "issue"]
                                 ELSE Done]
    /\ UNCHANGED <<throttleVars, required, tables, writer>>

\* delete_for_user.
Revoke(r) ==
    /\ req[r].at = "revoke"
    /\ LET u == req[r].user
           flagged == [q \in Requests |-> IF /\ q # r /\ req[q].user = u
                                             /\ req[q].at \in Proved
                                          THEN [req[q] EXCEPT !.straddled = TRUE]
                                          ELSE req[q]]
       IN  /\ rows' = rows \ OwnedBy(u)
           /\ req' = [flagged EXCEPT ![r] = IF @.kind = "password"
                                            THEN [@ EXCEPT !.at = "issue"] ELSE Done]
    /\ UNCHANGED <<throttleVars, required, profile, cred, writer>>

-----------------------------------------------------------------------------
(* Profiles made and removed behind enforce_auth. Admins are named outside *)
(* these handlers; the model has none, so nobody else may manage a profile.*)

\* enforce_auth: 401 without a session, 403 on another's path or on /users.
Gate(r) ==
    /\ req[r].at = "gate"
    /\ IF ~required THEN Goto(r, "act") /\ UNCHANGED rows
       ELSE /\ rows' = Swept(req[r].token)
            /\ IF req[r].kind = "delete" /\ Owner(req[r].token) = req[r].user
               THEN Goto(r, "act") ELSE Finish(r)
    /\ UNCHANGED <<throttleVars, required, profile, cred, writer>>

\* users.exists and then users.create: a duplicate is refused by the first or
\* fails in the second.
CreateUser(r) ==
    /\ req[r].at = "act" /\ req[r].kind = "create"
    /\ profile' = profile \cup {req[r].user}
    /\ Finish(r)
    /\ UNCHANGED <<throttleVars, required, cred, rows, writer>>

\* Mutant: foreign keys that do not cascade.
DeleteProfileAlone(r) ==
    /\ req[r].at = "act" /\ req[r].kind = "delete"
    /\ profile' = profile \ {req[r].user}
    /\ Finish(r)
    /\ UNCHANGED <<throttleVars, required, cred, rows, writer>>

\* users.delete, which the foreign keys cascade.
DeleteUser(r) ==
    /\ req[r].at = "act" /\ req[r].kind = "delete"
    /\ LET u == req[r].user IN
       /\ profile' = profile \ {u}
       /\ cred' = [cred EXCEPT ![u] = None]
       /\ rows' = rows \ OwnedBy(u)
       /\ writer' = [writer EXCEPT ![u] = "nobody"]
       /\ req' = [Overtake(u) EXCEPT ![r] = Done]
    /\ UNCHANGED <<throttleVars, required>>

-----------------------------------------------------------------------------
(* The surroundings.                                                       *)

\* A session reaches its age limit: weeks, against the minutes of the throttle.
Expire ==
    \E s \in rows :
        /\ ~s.expired
        /\ rows' = (rows \ {s}) \cup {[s EXCEPT !.expired = TRUE]}
    /\ UNCHANGED <<throttleVars, required, profile, cred, req, writer>>

Tick ==
    /\ ThrottleTick
    /\ UNCHANGED <<required, tables, req, writer>>

\* The process restarts: its requests and the throttle are gone, and a password
\* change that had not yet signed anyone out never will.
Restart ==
    /\ failures' = [k \in {} |-> <<>>]
    /\ lockedFor' = [k \in {} |-> 0]
    /\ req' = [r \in Requests |-> Done]
    /\ writer' = [u \in Users |->
                     IF \E r \in Requests : req[r].at = "revoke" /\ req[r].user = u
                                            /\ req[r].kind = "password"
                     THEN "cut" ELSE writer[u]]
    /\ UNCHANGED <<required, tables>>

Arrivals(r) ==
    \/ Login(r)
    \/ Signup(r)
    \/ ChangePassword(r)
    \/ LogoutEverywhere(r)
    \/ ManageUser(r)
    \/ Logout(r)
    \/ AuthStatus(r)

Steps(r) ==
    \/ Guard(r)
    \/ Fail(r)
    \/ Reset(r)
    \/ ReadCredential(r)
    \/ Verify(r)
    \/ Issue(r)
    \/ Lookup(r)
    \/ CheckUnclaimed(r)
    \/ CreateProfile(r)
    \/ SetCredential(r)
    \/ WhoAmI(r)
    \/ Revoke(r)
    \/ Gate(r)
    \/ CreateUser(r)
    \/ DeleteUser(r)

AccountsNext ==
    \/ \E r \in Requests : Arrivals(r) \/ Steps(r)
    \/ Expire
    \/ Tick
    \/ Restart

\* Time passes; nothing else is promised to happen.
AccountsFairness == WF_vars(Tick)
AccountsSpec == AccountsInit /\ [][AccountsNext]_vars /\ AccountsFairness

-----------------------------------------------------------------------------
(* Properties.                                                             *)

AccountsTypeOK ==
    /\ ThrottleTypeOK
    /\ required \in BOOLEAN
    /\ profile \subseteq Members
    /\ cred \in [Users -> Passwords \cup {None}]
    /\ \A u \in Users : cred[u] # None => u \in profile
    /\ \A s \in rows : s \in Session /\ s.user \in profile
    /\ \A s, t \in rows : s.token = t.token => s = t
    /\ \A r \in Requests : req[r] \in Request
    /\ writer \in [Users -> {"nobody", "signup", "password", "cut"}]

\* Changing a password signs out every other session (auth.py:258-261). What
\* the handlers guarantee of it: once the change is through, a session earned
\* with an earlier password is one whose request was under way during the whole
\* of it, from before the new password to after the revocation, unless the
\* process stopped in between. auth.py:287-291
ChangeSignsOthersOut ==
    \A s \in rows :
        \/ writer[s.user] # "password"
        \/ \E r \in Requests : /\ req[r].at = "revoke" /\ req[r].kind = "password"
                               /\ req[r].user = s.user
        \/ s.stale => s.straddled

\* A password is replaced by someone who has proved the one that is replaced,
\* or by a request that was already past its check when that one was written:
\* two signups of one profile, two changes of one password. auth.py:175-186,274
ReplacedByItsOwner ==
    \A r \in Requests :
        LET u == req[r].user IN
        (req[r].at = "set" /\ u \in profile /\ cred[u] # None /\ ~req[r].stale)
            => req[r].kind = "password" /\ req[r].pass = cred[u]

\* The throttle answers before the password is verified and is told after it:
\* the failures of a key exceed the allowance by no more than the requests that
\* were past the guard together. auth.py:216-222, throttle.py:60-70
AllowanceBounded ==
    \A k \in Tracked :
        Len(failures[k]) <= (MaxFailures - 1) + Cardinality(Requests)

ThrottleBounded == TableBounded /\ AllowanceBounded

\* A lockout ends, however often the learner tries again meanwhile: a refused
\* attempt is not a failure and does not prolong it. auth.py:79-86
LockoutsEnd == \A k \in Keys : Locked(k) ~> ~Locked(k)
=============================================================================

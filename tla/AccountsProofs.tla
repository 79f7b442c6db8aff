---------------------------- MODULE AccountsProofs ----------------------------
(***************************************************************************)
(* Proofs about accounts, for any number of users, clients, passwords,     *)
(* tokens and requests in flight, and about the limits of the throttle     *)
(* they log in through: its table stays within MaxKeys, whatever is tried, *)
(* and requests in flight together exceed the allowance by no more than    *)
(* their number. The last part is about the types, and what the rows of    *)
(* the tables refer to.                                                    *)
(***************************************************************************)
EXTENDS Accounts, FiniteSetTheorems, TLAPS

Typed ==
    /\ req \in [Requests -> Request]
    /\ rows \subseteq Session
    /\ cred \in [Users -> Passwords \cup {None}]
    /\ writer \in [Users -> Kinds \cup {"nobody", "cut"}]

\* A request names a user, or its caller is not known yet.
Named == \A r \in Requests : req[r].at \notin {"done", "whoami"} => req[r].user \in Users

\* A password belongs to a profile.
Claimed == \A u \in Users : cred[u] # None => u \in profile

\* What is noted of a request is noted while it rests on a password.
Fresh == \A r \in Requests :
            req[r].at \notin Proved => ~req[r].stale /\ ~req[r].straddled

\* A change of the password of u that has not signed anyone out yet.
Changing(r, u) ==
    req[r].at = "revoke" /\ req[r].kind = "password" /\ req[r].user = u
StillChanging(r, u) ==
    req'[r].at = "revoke" /\ req'[r].kind = "password" /\ req'[r].user = u

\* ChangeSignsOthersOut, of the sessions that requests are about to be given.
RequestsSwept ==
    \A q \in Requests :
        (req[q].at \in Proved /\ req[q].stale) =>
            \/ writer[req[q].user] # "password"
            \/ \E r \in Requests \ {q} : Changing(r, req[q].user)
            \/ req[q].straddled

Inv ==
    /\ Typed
    /\ Named
    /\ Claimed
    /\ Fresh
    /\ RequestsSwept
    /\ ChangeSignsOthersOut
    /\ ReplacedByItsOwner

-----------------------------------------------------------------------------
(* What the steps do to the requests.                                      *)

Others(r) == \A q \in Requests \ {r} : req'[q] = req[q]

LEMMA DoneTyped ==
    /\ Done \in Request /\ Done.kind = "none" /\ Done.at = "done" /\ Done.user = None
    /\ Done.stale = FALSE /\ Done.straddled = FALSE
BY DEF Done, Request, Kinds, Places

LEMMA PlacesGiven ==
    /\ {"done", "guard_id", "guard_ip", "read", "user", "fail_id", "fail_ip",
        "reset_id", "reset_ip", "issue", "lookup", "exists", "profile",
        "set", "whoami", "revoke", "gate", "act"} \subseteq Places
    /\ {"none", "login", "signup", "password", "logout_all", "create", "delete"}
          \subseteq Kinds
BY DEF Places, Kinds

LEMMA OwnerTyped ==
    ASSUME rows \subseteq Session, NEW t
    PROVE  Owner(t) \in Users \cup {None}
BY DEF Owner, Session

LEMMA FinishFields ==
    ASSUME req \in [Requests -> Request], NEW r \in Requests, Finish(r)
    PROVE  req' \in [Requests -> Request] /\ Others(r) /\ req'[r] = Done
BY DoneTyped DEF Finish, Others

LEMMA ArriveFields ==
    ASSUME req \in [Requests -> Request], NEW r \in Requests, NEW x \in Request, Arrive(r, x)
    PROVE  req' \in [Requests -> Request] /\ Others(r) /\ req'[r] = x /\ req[r] = Done
BY DEF Arrive, Others

LEMMA GotoFields ==
    ASSUME req \in [Requests -> Request], NEW r \in Requests, NEW place \in Places,
           Goto(r, place)
    PROVE  /\ req' \in [Requests -> Request] /\ Others(r)
           /\ req'[r].at = place
           /\ req'[r].kind = req[r].kind /\ req'[r].user = req[r].user
           /\ req'[r].pass = req[r].pass /\ req'[r].client = req[r].client
           /\ req'[r].stale = req[r].stale /\ req'[r].straddled = req[r].straddled
<1> DEFINE x == [req[r] EXCEPT !.at = place]
<1>1. x \in Request
  BY DEF Request
<1>2. req' = [req EXCEPT ![r] = x]
  BY DEF Goto
<1>3. /\ x.at = place /\ x.kind = req[r].kind /\ x.user = req[r].user
      /\ x.pass = req[r].pass /\ x.client = req[r].client
      /\ x.stale = req[r].stale /\ x.straddled = req[r].straddled
  BY DEF Request
<1> HIDE DEF x
<1> QED BY <1>1, <1>2, <1>3 DEF Others

LEMMA VerifyFields ==
    ASSUME Typed, NEW r \in Requests, Verify(r)
    PROVE  /\ req' \in [Requests -> Request] /\ Others(r)
           /\ req'[r].user = req[r].user /\ req'[r].client = req[r].client
           /\ \/ /\ req'[r].at = "reset_id"
                 /\ req'[r].stale = req[r].stale
                 /\ req'[r].straddled = req[r].straddled
              \/ /\ req'[r].at = "fail_id"
                 /\ ~ req'[r].stale /\ ~ req'[r].straddled
<1> DEFINE told == [req[r] EXCEPT !.pass = None, !.seen = None]
           won == [told EXCEPT !.at = "reset_id"]
           lost == [told EXCEPT !.at = "fail_id", !.stale = FALSE, !.straddled = FALSE]
<1>1. req[r] \in Request
  BY DEF Typed
<1>2. told \in Request /\ told.user = req[r].user /\ told.stale = req[r].stale
      /\ told.straddled = req[r].straddled /\ told.client = req[r].client
  BY <1>1, Zenon DEF Request
<1>3. /\ won \in Request /\ won.at = "reset_id" /\ won.user = told.user
      /\ won.stale = told.stale /\ won.straddled = told.straddled
      /\ won.client = told.client
  <2> HIDE DEF told
  <2> QED BY <1>2, PlacesGiven, Zenon DEF Request
<1>4. /\ lost \in Request /\ lost.at = "fail_id" /\ lost.user = told.user
      /\ lost.stale = FALSE /\ lost.straddled = FALSE /\ lost.client = told.client
  <2>1. FALSE \in BOOLEAN /\ "fail_id" \in Places
    BY PlacesGiven
  <2> HIDE DEF told
  <2> QED BY <1>2, <2>1, Zenon DEF Request
<1>5. req' = [req EXCEPT ![r] = won] \/ req' = [req EXCEPT ![r] = lost]
  BY DEF Verify
<1> HIDE DEF won, lost, told
<1> QED BY <1>2, <1>3, <1>4, <1>5 DEF Others, Typed

LEMMA ReadFields ==
    ASSUME Typed, Named, NEW r \in Requests, ReadCredential(r)
    PROVE  /\ req' \in [Requests -> Request] /\ Others(r)
           /\ req'[r].user = req[r].user /\ req'[r].client = req[r].client
           /\ req'[r].stale = req[r].stale /\ req'[r].straddled = req[r].straddled
           /\ req'[r].at \in {"user", "set", "fail_id"}
           /\ req'[r].at = "set" => /\ req'[r].kind = "password"
                                    /\ req'[r].pass = cred[req'[r].user]
<1> DEFINE x == [req[r] EXCEPT !.at = "user", !.seen = cred[req[r].user]]
<1>1. req[r] \in Request /\ req[r].at = "read" /\ req[r].user \in Users
  BY DEF Typed, Named, ReadCredential
<1>2. CASE req' = [req EXCEPT ![r] = x]
  <2>1. cred[req[r].user] \in Passwords \cup {None}
    BY <1>1 DEF Typed
  <2>2. /\ x \in Request /\ x.at = "user" /\ x.user = req[r].user
        /\ x.stale = req[r].stale /\ x.straddled = req[r].straddled
        /\ x.client = req[r].client
    BY <1>1, <2>1, PlacesGiven, Zenon DEF Request
  <2> HIDE DEF x
  <2> QED BY <1>2, <2>2 DEF Others, Typed
<1>3. CASE req[r].kind = "password" /\ Verified(r) /\ Goto(r, "set")
  BY <1>3, GotoFields, PlacesGiven DEF Typed, Verified
<1>4. CASE Goto(r, "fail_id")
  BY <1>4, GotoFields, PlacesGiven DEF Typed
<1> QED BY <1>2, <1>3, <1>4 DEF ReadCredential

LEMMA WhoAmIFields ==
    ASSUME Typed, NEW r \in Requests, WhoAmI(r), AccountsAssumption
    PROVE  /\ req' \in [Requests -> Request] /\ Others(r)
           /\ \/ req'[r] = Done
              \/ /\ req'[r].user \in Users /\ req'[r].at \in {"guard_id", "revoke"}
                 /\ req'[r].stale = req[r].stale /\ req'[r].straddled = req[r].straddled
                 /\ req'[r].client = req[r].client
                 /\ req'[r].at = "guard_id" => req[r].kind = "password"
<1> DEFINE u == Owner(req[r].token)
           place == IF req[r].kind = "password" THEN "guard_id" ELSE "revoke"
           x == [req[r] EXCEPT !.user = u, !.token = None, !.at = place]
<1>1. /\ req[r] \in Request /\ place \in Places /\ place \in {"guard_id", "revoke"}
      /\ place = "guard_id" => req[r].kind = "password"
  BY PlacesGiven DEF Typed
<1>2. CASE u = None
  BY <1>2, FinishFields DEF WhoAmI, Typed
<1>3. CASE u # None
  <2>1. u \in Users
    BY <1>3, OwnerTyped DEF Typed
  <2>2. /\ x \in Request /\ x.at = place /\ x.user = u
        /\ x.stale = req[r].stale /\ x.straddled = req[r].straddled
        /\ x.client = req[r].client
    <3> HIDE DEF place, u
    <3> QED BY <1>1, <2>1, Zenon DEF Request
  <2>3. req' = [req EXCEPT ![r] = x]
    BY <1>3 DEF WhoAmI
  <2> HIDE DEF x, place, u
  <2> QED BY <1>1, <2>1, <2>2, <2>3 DEF Others, Typed
<1> QED BY <1>2, <1>3

-----------------------------------------------------------------------------
(* Steps that replace no password and sign nobody out.                     *)

Kept == \A s \in rows' : \E t \in rows :
            s.user = t.user /\ s.stale = t.stale /\ s.straddled = t.straddled

Mild(r) ==
    /\ cred' = cred /\ writer' = writer
    /\ profile \subseteq profile'
    /\ rows' \subseteq Session /\ Kept
    /\ req' \in [Requests -> Request] /\ Others(r)
    /\ req[r].at # "revoke"
    /\ req'[r].at \notin {"done", "whoami"} => req'[r].user \in Users
    /\ \/ ~req'[r].stale /\ ~req'[r].straddled
       \/ /\ req[r].at \in Proved /\ req'[r].at \in Proved
          /\ req'[r].user = req[r].user
          /\ req'[r].stale = req[r].stale /\ req'[r].straddled = req[r].straddled
    /\ req'[r].at = "set" =>
          \/ cred[req'[r].user] = None
          \/ req'[r].kind = "password" /\ req'[r].pass = cred[req'[r].user]

LEMMA RowsKept ==
    /\ rows' = rows => Kept
    /\ rows' \subseteq rows => Kept
BY DEF Kept

LEMMA MildArrival ==
    ASSUME Typed, NEW r \in Requests, NEW x \in Request, Arrive(r, x),
           x.at \in {"guard_id", "lookup", "whoami", "gate"},
           x.at # "whoami" => x.user \in Users,
           ~x.stale, ~x.straddled
    PROVE  Mild(r)
<1>1. req' \in [Requests -> Request] /\ Others(r) /\ req'[r] = x /\ req[r] = Done
  BY ArriveFields DEF Typed
<1> QED BY <1>1, RowsKept, DoneTyped DEF Mild, Typed, Arrive, tables

LEMMA Arriving ==
    ASSUME AccountsAssumption, Typed, NEW r \in Requests,
           \/ Login(r) \/ Signup(r) \/ ChangePassword(r)
           \/ LogoutEverywhere(r) \/ ManageUser(r)
    PROVE  Mild(r)
<1>0. Known \subseteq Tokens \cup {None} /\ Members \subseteq Users
  BY DEF Known, Typed, Session, AccountsAssumption
<1>1. CASE Login(r)
  <2>1. PICK c \in Clients, u \in Users, p \in Passwords :
           Arrive(r, [Done EXCEPT !.kind = "login", !.at = "guard_id", !.client = c,
                                  !.user = u, !.pass = p])
    BY <1>1 DEF Login
  <2> DEFINE x == [Done EXCEPT !.kind = "login", !.at = "guard_id", !.client = c,
                               !.user = u, !.pass = p]
  <2>2. /\ x \in Request /\ x.at = "guard_id" /\ x.user = u
        /\ x.stale = FALSE /\ x.straddled = FALSE
    BY DoneTyped, PlacesGiven, Zenon DEF Request
  <2> HIDE DEF x
  <2> QED BY <2>1, <2>2, MildArrival DEF x
<1>2. CASE Signup(r)
  <2>1. PICK u \in Members, p \in Passwords :
           Arrive(r, [Done EXCEPT !.kind = "signup", !.at = "lookup",
                                  !.user = u, !.new = p])
    BY <1>2 DEF Signup
  <2> DEFINE x == [Done EXCEPT !.kind = "signup", !.at = "lookup", !.user = u, !.new = p]
  <2>2. u \in Users
    BY <1>0
  <2>3. /\ x \in Request /\ x.at = "lookup" /\ x.user = u
        /\ x.stale = FALSE /\ x.straddled = FALSE
    BY <2>2, DoneTyped, PlacesGiven, Zenon DEF Request
  <2> HIDE DEF x
  <2> QED BY <2>1, <2>2, <2>3, MildArrival DEF x
<1>3. CASE ChangePassword(r)
  <2>1. PICK c \in Clients, t \in Known, p \in Passwords, q \in Passwords :
           Arrive(r, [Done EXCEPT !.kind = "password", !.at = "whoami", !.client = c,
                                  !.token = t, !.pass = p, !.new = q])
    BY <1>3 DEF ChangePassword
  <2> DEFINE x == [Done EXCEPT !.kind = "password", !.at = "whoami", !.client = c,
                               !.token = t, !.pass = p, !.new = q]
  <2>2. t \in Tokens \cup {None}
    BY <1>0
  <2>3. x \in Request /\ x.at = "whoami" /\ x.stale = FALSE /\ x.straddled = FALSE
    BY <2>2, DoneTyped, PlacesGiven, Zenon DEF Request
  <2> HIDE DEF x
  <2> QED BY <2>1, <2>3, MildArrival DEF x
<1>4. CASE LogoutEverywhere(r)
  <2>1. PICK t \in Known :
           Arrive(r, [Done EXCEPT !.kind = "logout_all", !.at = "whoami", !.token = t])
    BY <1>4 DEF LogoutEverywhere
  <2> DEFINE x == [Done EXCEPT !.kind = "logout_all", !.at = "whoami", !.token = t]
  <2>2. t \in Tokens \cup {None}
    BY <1>0
  <2>3. x \in Request /\ x.at = "whoami" /\ x.stale = FALSE /\ x.straddled = FALSE
    BY <2>2, DoneTyped, PlacesGiven, Zenon DEF Request
  <2> HIDE DEF x
  <2> QED BY <2>1, <2>3, MildArrival DEF x
<1>5. CASE ManageUser(r)
  <2>1. PICK t \in Known, u \in Members, kind \in {"create", "delete"} :
           Arrive(r, [Done EXCEPT !.kind = kind, !.at = "gate",
                                  !.token = t, !.user = u])
    BY <1>5 DEF ManageUser
  <2> DEFINE x == [Done EXCEPT !.kind = kind, !.at = "gate", !.token = t, !.user = u]
  <2>2. t \in Tokens \cup {None} /\ u \in Users /\ kind \in Kinds
    BY <1>0, PlacesGiven
  <2>3. /\ x \in Request /\ x.at = "gate" /\ x.user = u
        /\ x.stale = FALSE /\ x.straddled = FALSE
    BY <2>2, DoneTyped, PlacesGiven, Zenon DEF Request
  <2> HIDE DEF x
  <2> QED BY <2>1, <2>2, <2>3, MildArrival DEF x
<1> QED BY <1>1, <1>2, <1>3, <1>4, <1>5

LEMMA MovesOn ==
    ASSUME AccountsAssumption, Typed, Named, Claimed, Fresh,
           NEW r \in Requests, NEW place \in Places, Goto(r, place),
           req[r].at # "done", req[r].at # "whoami", req[r].at # "revoke",
           place # "set" \/ cred[req[r].user] = None,
           req[r].at \in Proved => place \in Proved,
           cred' = cred, writer' = writer, profile \subseteq profile',
           rows' \subseteq rows
    PROVE  Mild(r)
<1>1. /\ req' \in [Requests -> Request] /\ Others(r)
      /\ req'[r].at = place /\ req'[r].user = req[r].user
      /\ req'[r].stale = req[r].stale /\ req'[r].straddled = req[r].straddled
  BY GotoFields DEF Typed
<1>2. req[r].user \in Users /\ rows' \subseteq Session
  BY DEF Named, Typed
<1>3. CASE req[r].at \in Proved
  BY <1>1, <1>2, <1>3, RowsKept DEF Mild
<1>4. CASE req[r].at \notin Proved
  <2>1. ~req[r].stale /\ ~req[r].straddled
    BY <1>4 DEF Fresh
  <2> QED BY <1>1, <1>2, <2>1, RowsKept DEF Mild
<1> QED BY <1>3, <1>4

LEMMA Ends ==
    ASSUME AccountsAssumption, Typed, NEW r \in Requests, Finish(r), req[r].at # "revoke",
           cred' = cred, writer' = writer, profile \subseteq profile',
           rows' \subseteq rows
    PROVE  Mild(r)
<1>1. req' \in [Requests -> Request] /\ Others(r) /\ req'[r] = Done
  BY FinishFields DEF Typed
<1>2. rows' \subseteq Session
  BY DEF Typed
<1> QED BY <1>1, <1>2, DoneTyped, RowsKept DEF Mild

LEMMA SweptKept == \A t : Swept(t) \subseteq rows
BY DEF Swept

LEMMA Working ==
    ASSUME AccountsAssumption, Typed, Named, Claimed, Fresh, NEW r \in Requests,
           \/ Guard(r) \/ Fail(r) \/ Reset(r) \/ ReadCredential(r) \/ Verify(r)
           \/ Lookup(r) \/ CheckUnclaimed(r) \/ CreateProfile(r) \/ WhoAmI(r)
           \/ Gate(r) \/ CreateUser(r)
    PROVE  Mild(r)
<1>0. /\ rows \subseteq rows /\ profile \subseteq profile
      /\ rows \subseteq Session
      /\ req[r].at \notin {"done", "whoami"} => req[r].user \in Users
  BY DEF Typed, Named
<1>1. CASE Guard(r)
  <2>1. req[r].at \in {"guard_id", "guard_ip"} /\ UNCHANGED <<profile, cred, rows, writer>>
        /\ (Finish(r) \/ Goto(r, "guard_ip") \/ Goto(r, "read"))
    BY <1>1 DEF Guard, tables
  <2> QED BY <1>0, <2>1, Ends, MovesOn, PlacesGiven DEF Proved
<1>2. CASE Fail(r)
  <2>1. req[r].at \in {"fail_id", "fail_ip"} /\ UNCHANGED <<profile, cred, rows, writer>>
        /\ (Finish(r) \/ Goto(r, "fail_ip"))
    BY <1>2 DEF Fail, tables
  <2> QED BY <1>0, <2>1, Ends, MovesOn, PlacesGiven DEF Proved
<1>3. CASE Reset(r)
  <2>1. req[r].at \in {"reset_id", "reset_ip"} /\ UNCHANGED <<profile, cred, rows, writer>>
        /\ (Goto(r, "reset_ip") \/ Goto(r, "issue"))
    BY <1>3 DEF Reset, tables
  <2> QED BY <1>0, <2>1, MovesOn, PlacesGiven DEF Proved
<1>4. CASE ReadCredential(r)
  <2>1. req[r].at = "read" /\ UNCHANGED <<profile, cred, rows, writer>>
    BY <1>4 DEF ReadCredential, tables
  <2>2. ~req[r].stale /\ ~req[r].straddled
    BY <2>1 DEF Fresh, Proved
  <2> QED BY <1>0, <1>4, <2>1, <2>2, ReadFields, RowsKept DEF Mild
<1>5. CASE Verify(r)
  <2>1. req[r].at = "user" /\ UNCHANGED <<profile, cred, rows, writer>>
    BY <1>5 DEF Verify, tables
  <2> QED BY <1>0, <1>5, <2>1, VerifyFields, RowsKept DEF Mild, Proved
<1>6. CASE Lookup(r)
  <2>1. req[r].at = "lookup" /\ UNCHANGED <<profile, cred, rows, writer>>
        /\ (Goto(r, "exists") \/ Goto(r, "profile"))
    BY <1>6 DEF Lookup, tables
  <2> QED BY <1>0, <2>1, MovesOn, PlacesGiven DEF Proved
<1>7. CASE CheckUnclaimed(r)
  <2>1. req[r].at = "exists" /\ UNCHANGED <<profile, cred, rows, writer>>
        /\ (Finish(r) \/ (cred[req[r].user] = None /\ Goto(r, "set")))
    BY <1>7 DEF CheckUnclaimed, tables
  <2> QED BY <1>0, <2>1, Ends, MovesOn, PlacesGiven DEF Proved
<1>8. CASE CreateProfile(r)
  <2>1. req[r].at = "profile" /\ UNCHANGED <<cred, rows, writer>>
    BY <1>8 DEF CreateProfile
  <2>2. CASE Finish(r) /\ UNCHANGED profile
    BY <1>0, <2>1, <2>2, Ends
  <2>3. CASE /\ req[r].user \notin profile /\ Goto(r, "set")
             /\ profile' = profile \cup {req[r].user}
    <3>1. req[r].user \in Users /\ cred[req[r].user] = None
      BY <1>0, <2>1, <2>3 DEF Claimed
    <3> QED BY <1>0, <2>1, <2>3, <3>1, MovesOn, PlacesGiven DEF Proved
  <2> QED BY <1>8, <2>2, <2>3 DEF CreateProfile
<1>9. CASE WhoAmI(r)
  <2>1. req[r].at = "whoami" /\ UNCHANGED <<profile, cred, writer>>
        /\ rows' \subseteq rows
    BY <1>9, SweptKept DEF WhoAmI
  <2>2. ~req[r].stale /\ ~req[r].straddled
    BY <2>1 DEF Fresh, Proved
  <2> QED BY <1>0, <1>9, <2>1, <2>2, WhoAmIFields, RowsKept, DoneTyped DEF Mild
<1>10. CASE Gate(r)
  <2>1. req[r].at = "gate" /\ UNCHANGED <<profile, cred, writer>>
        /\ rows' \subseteq rows /\ (Goto(r, "act") \/ Finish(r))
    BY <1>10, SweptKept DEF Gate
  <2> QED BY <1>0, <2>1, Ends, MovesOn, PlacesGiven DEF Proved
<1>11. CASE CreateUser(r)
  <2>1. req[r].at = "act" /\ UNCHANGED <<cred, rows, writer>> /\ Finish(r)
        /\ profile' = profile \cup {req[r].user}
    BY <1>11 DEF CreateUser
  <2> QED BY <1>0, <2>1, Ends
<1> QED BY <1>1, <1>2, <1>3, <1>4, <1>5, <1>6, <1>7, <1>8, <1>9, <1>10, <1>11

\* Steps of nobody in particular: no request moves.
Quiet ==
    /\ cred' = cred /\ writer' = writer /\ profile' = profile /\ req' = req
    /\ rows' \subseteq Session /\ Kept

LEMMA Surroundings ==
    ASSUME Typed,
           \/ \E r \in Requests : Logout(r) \/ AuthStatus(r)
           \/ Expire \/ Tick \/ UNCHANGED vars
    PROVE  Quiet
<1>1. CASE \E r \in Requests : Logout(r) \/ AuthStatus(r)
  <2>1. rows' \subseteq rows /\ UNCHANGED <<profile, cred, req, writer>>
    BY <1>1, SweptKept DEF Logout, AuthStatus
  <2> QED BY <2>1, RowsKept DEF Quiet, Typed
<1>2. CASE Expire
  <2>1. PICK s \in rows : rows' = (rows \ {s}) \cup {[s EXCEPT !.expired = TRUE]}
    BY <1>2 DEF Expire
  <2> DEFINE x == [s EXCEPT !.expired = TRUE]
  <2>2. TRUE \in BOOLEAN /\ s \in Session
    BY DEF Typed
  <2>3. /\ x \in Session /\ x.user = s.user /\ x.stale = s.stale
        /\ x.straddled = s.straddled
    BY <2>2, Zenon DEF Session
  <2>4. rows' = (rows \ {s}) \cup {x}
    BY <2>1
  <2> HIDE DEF x
  <2>5. rows' \subseteq Session /\ Kept
    BY <2>3, <2>4 DEF Kept, Typed
  <2> QED BY <1>2, <2>5 DEF Expire, Quiet
<1>3. CASE Tick \/ UNCHANGED vars
  BY <1>3, RowsKept DEF Tick, vars, tables, Quiet, Typed
<1> QED BY <1>1, <1>2, <1>3

LEMMA QuietKeepsInv == Inv /\ Quiet => Inv'
<1> SUFFICES ASSUME Inv, Quiet PROVE Inv'
  OBVIOUS
<1>1. Typed' /\ Named' /\ Claimed' /\ Fresh'
  BY DEF Inv, Typed, Named, Claimed, Fresh, Quiet
<1>2. RequestsSwept'
  BY DEF Inv, RequestsSwept, Changing, Quiet
<1>3. ChangeSignsOthersOut'
  <2> SUFFICES ASSUME NEW s \in rows', writer[s.user] = "password", s.stale,
                      ~ s.straddled
               PROVE  \E r \in Requests : Changing(r, s.user)
    BY DEF ChangeSignsOthersOut, Quiet, Changing
  <2>1. PICK t \in rows : s.user = t.user /\ s.stale = t.stale /\ s.straddled = t.straddled
    BY DEF Quiet, Kept
  <2> QED BY <2>1 DEF Inv, ChangeSignsOthersOut, Changing
<1>4. ReplacedByItsOwner'
  BY DEF Inv, ReplacedByItsOwner, Quiet
<1> QED BY <1>1, <1>2, <1>3, <1>4 DEF Inv

LEMMA MildKeepsInv == \A r \in Requests : Inv /\ Mild(r) => Inv'
<1> SUFFICES ASSUME NEW r \in Requests, Inv, Mild(r) PROVE Inv'
  OBVIOUS
<1>0. /\ Typed /\ Named /\ Claimed /\ Fresh /\ RequestsSwept
      /\ ChangeSignsOthersOut /\ ReplacedByItsOwner
  BY DEF Inv
<1>a. \A q \in Requests : q # r => req'[q] = req[q]
  BY DEF Mild, Others
<1>b. \A w \in Requests : \A u : Changing(w, u) => w # r /\ StillChanging(w, u)
  BY <1>a DEF Mild, Changing, StillChanging
<1>1. Typed'
  BY <1>0 DEF Typed, Mild
<1>2. Named'
  BY <1>0, <1>a DEF Named, Mild
<1>3. Claimed'
  BY <1>0 DEF Claimed, Mild
<1>4. Fresh'
  BY <1>0, <1>a DEF Fresh, Mild
<1>5. RequestsSwept'
  <2> SUFFICES ASSUME NEW q \in Requests, req'[q].at \in Proved, req'[q].stale,
                      writer[req'[q].user] = "password", ~ req'[q].straddled
               PROVE  \E w \in Requests \ {q} : StillChanging(w, req'[q].user)
    BY DEF RequestsSwept, Mild, Changing, StillChanging
  <2>1. /\ req[q].at \in Proved /\ req[q].stale = req'[q].stale
        /\ req[q].user = req'[q].user /\ req[q].straddled = req'[q].straddled
    BY <1>a DEF Mild
  <2>2. PICK w \in Requests \ {q} : Changing(w, req[q].user)
    BY <1>0, <2>1 DEF RequestsSwept
  <2> QED BY <2>1, <2>2, <1>b
<1>6. ChangeSignsOthersOut'
  <2> SUFFICES ASSUME NEW s \in rows', writer[s.user] = "password", s.stale,
                      ~ s.straddled
               PROVE  \E w \in Requests : StillChanging(w, s.user)
    BY DEF ChangeSignsOthersOut, Mild, StillChanging
  <2>1. PICK t \in rows : s.user = t.user /\ s.stale = t.stale /\ s.straddled = t.straddled
    BY DEF Mild, Kept
  <2>2. PICK w \in Requests : Changing(w, s.user)
    BY <1>0, <2>1 DEF ChangeSignsOthersOut, Changing
  <2> QED BY <1>b, <2>2
<1>7. ReplacedByItsOwner'
  <2> SUFFICES ASSUME NEW q \in Requests, req'[q].at = "set",
                      cred[req'[q].user] # None, ~ req'[q].stale,
                      req'[q].user \in profile'
               PROVE  req'[q].kind = "password" /\ req'[q].pass = cred[req'[q].user]
    BY DEF ReplacedByItsOwner, Mild
  <2>1. CASE q = r
    BY <2>1 DEF Mild
  <2>2. CASE q # r
    <3>1. req'[q] = req[q]
      BY <1>a, <2>2
    <3>2. req[q].user \in Users
      BY <1>0, <3>1 DEF Named
    <3> QED BY <1>0, <3>1, <3>2 DEF Claimed, ReplacedByItsOwner
  <2> QED BY <2>1, <2>2
<1> QED BY <1>1, <1>2, <1>3, <1>4, <1>5, <1>6, <1>7 DEF Inv

-----------------------------------------------------------------------------
(* The steps that hand out a session, replace a password or sign out.      *)

LEMMA IssueFields ==
    ASSUME Typed, Named, NEW r \in Requests, Issue(r)
    PROVE  /\ req[r].at = "issue" /\ req[r].user \in Users
           /\ req' \in [Requests -> Request] /\ Others(r) /\ req'[r] = Done
           /\ UNCHANGED <<profile, cred, writer>>
           /\ rows' \subseteq Session
           /\ \A s \in rows' : \/ s \in rows
                               \/ /\ s.user = req[r].user /\ s.stale = req[r].stale
                                  /\ s.straddled = req[r].straddled
<1> DEFINE row == [token |-> CHOOSE t \in Tokens \ TokensHeld : TRUE,
                   user |-> req[r].user, expired |-> FALSE,
                   stale |-> req[r].stale, straddled |-> req[r].straddled]
<1>1. req[r].at = "issue" /\ req[r].user \in Users /\ req[r] \in Request
  BY DEF Issue, Named, Typed
<1>2. (CHOOSE t \in Tokens \ TokensHeld : TRUE) \in Tokens
  BY DEF Issue
<1>3. req[r].stale \in BOOLEAN /\ req[r].straddled \in BOOLEAN
  BY <1>1, Zenon DEF Request
<1>4. /\ row \in Session /\ row.user = req[r].user /\ row.stale = req[r].stale
      /\ row.straddled = req[r].straddled
  BY <1>1, <1>2, <1>3, Zenon DEF Session
<1>5. rows' = rows \cup {row} \/ rows' = rows
  BY DEF Issue
<1>6. req' \in [Requests -> Request] /\ Others(r) /\ req'[r] = Done
  BY FinishFields DEF Typed, Issue
<1>7. UNCHANGED <<profile, cred, writer>>
  BY DEF Issue
<1> HIDE DEF row
<1> QED BY <1>1, <1>4, <1>5, <1>6, <1>7 DEF Typed

\* A request that does not replace or revoke leaves every change under way.
LEMMA ChangesGoOn ==
    ASSUME NEW r \in Requests, Others(r), req[r].at # "revoke"
    PROVE  \A w \in Requests : \A u : Changing(w, u) => w # r /\ StillChanging(w, u)
BY DEF Changing, StillChanging, Others

LEMMA IssueKeepsInv == \A r \in Requests : Inv /\ Issue(r) => Inv'
<1> SUFFICES ASSUME NEW r \in Requests, Inv, Issue(r) PROVE Inv'
  OBVIOUS
<1>0. /\ Typed /\ Named /\ Claimed /\ Fresh /\ RequestsSwept
      /\ ChangeSignsOthersOut /\ ReplacedByItsOwner
  BY DEF Inv
<1>a. /\ req[r].at = "issue" /\ req[r].user \in Users
      /\ req' \in [Requests -> Request] /\ Others(r) /\ req'[r] = Done
      /\ UNCHANGED <<profile, cred, writer>>
      /\ rows' \subseteq Session
      /\ \A s \in rows' : \/ s \in rows
                          \/ /\ s.user = req[r].user /\ s.stale = req[r].stale
                             /\ s.straddled = req[r].straddled
  BY <1>0, IssueFields
<1>b. \A w \in Requests : \A u : Changing(w, u) => w # r /\ StillChanging(w, u)
  BY <1>a, ChangesGoOn
<1>c. \A q \in Requests : req'[q] = req[q] \/ req'[q] = Done
  BY <1>a DEF Others
<1>d. Done.at \notin Proved
  BY DoneTyped DEF Proved
<1>1. Typed' /\ Named' /\ Claimed' /\ Fresh'
  BY <1>0, <1>a, <1>c, DoneTyped DEF Typed, Named, Claimed, Fresh
<1>2. RequestsSwept'
  <2> SUFFICES ASSUME NEW q \in Requests, req'[q].at \in Proved, req'[q].stale,
                      writer[req'[q].user] = "password", ~ req'[q].straddled
               PROVE  \E w \in Requests \ {q} : StillChanging(w, req'[q].user)
    BY <1>a DEF RequestsSwept, Changing, StillChanging
  <2>1. req'[q] = req[q]
    BY <1>c, <1>d
  <2>2. PICK w \in Requests \ {q} : Changing(w, req[q].user)
    BY <1>0, <2>1 DEF RequestsSwept
  <2> QED BY <2>1, <2>2, <1>b
<1>3. ChangeSignsOthersOut'
  <2> SUFFICES ASSUME NEW s \in rows', writer[s.user] = "password", s.stale,
                      ~ s.straddled
               PROVE  \E w \in Requests : StillChanging(w, s.user)
    BY <1>a DEF ChangeSignsOthersOut, StillChanging
  <2>1. CASE s \in rows
    <3>1. PICK w \in Requests : Changing(w, s.user)
      BY <1>0, <2>1 DEF ChangeSignsOthersOut, Changing
    <3> QED BY <3>1, <1>b
  <2>2. CASE s.user = req[r].user /\ s.stale = req[r].stale
             /\ s.straddled = req[r].straddled
    <3>1. PICK w \in Requests : Changing(w, s.user)
      BY <1>0, <1>a, <2>2 DEF RequestsSwept, Proved
    <3> QED BY <3>1, <1>b
  <2> QED BY <1>a, <2>1, <2>2
<1>4. ReplacedByItsOwner'
  BY <1>0, <1>a, <1>c, DoneTyped DEF ReplacedByItsOwner
<1> QED BY <1>1, <1>2, <1>3, <1>4 DEF Inv

\* Overtaking marks the requests that rest on the password, and no other.
LEMMA OvertakeFields ==
    ASSUME Typed, NEW u
    PROVE  /\ Overtake(u) \in [Requests -> Request]
           /\ \A q \in Requests :
                 /\ Overtake(u)[q].at = req[q].at /\ Overtake(u)[q].kind = req[q].kind
                 /\ Overtake(u)[q].user = req[q].user
                 /\ Overtake(u)[q].client = req[q].client
                 /\ Overtake(u)[q].straddled = req[q].straddled
                 /\ req[q].user = u /\ req[q].at \in Proved => Overtake(u)[q].stale
                 /\ ~(req[q].user = u /\ req[q].at \in Proved) => Overtake(u)[q] = req[q]
<1>1. ASSUME NEW q \in Requests
      PROVE  LET x == [req[q] EXCEPT !.stale = TRUE] IN
             /\ x \in Request /\ x.at = req[q].at /\ x.kind = req[q].kind
             /\ x.user = req[q].user /\ x.client = req[q].client
             /\ x.straddled = req[q].straddled /\ x.stale
  <2>1. req[q] \in Request /\ TRUE \in BOOLEAN
    BY DEF Typed
  <2> QED BY <2>1, Zenon DEF Request
<1>2. \A q \in Requests : req[q] \in Request
  BY DEF Typed
<1> QED BY <1>1, <1>2 DEF Overtake

LEMMA SetFields ==
    ASSUME Typed, Named, NEW r \in Requests, SetCredential(r),
           req[r].user \in profile
    PROVE  /\ req[r].at = "set" /\ req[r].user \in Users
           /\ req' \in [Requests -> Request]
           /\ \A q \in Requests \ {r} : req'[q] = Overtake(req[r].user)[q]
           /\ req'[r].kind = req[r].kind /\ req'[r].user = req[r].user
           /\ req'[r].at = IF req[r].kind = "password" THEN "revoke" ELSE "issue"
           /\ ~req'[r].stale /\ ~req'[r].straddled
           /\ cred' = [cred EXCEPT ![req[r].user] = req[r].new]
           /\ req[r].new \in Passwords \cup {None}
           /\ rows' = Aged(req[r].user)
           /\ writer' = [writer EXCEPT ![req[r].user] = req[r].kind]
           /\ profile' = profile
<1> DEFINE u == req[r].user
           place == IF req[r].kind = "password" THEN "revoke" ELSE "issue"
           old == Overtake(u)[r]
           x == [old EXCEPT !.stale = FALSE, !.straddled = FALSE, !.pass = None,
                            !.new = None, !.at = place]
<1>1. /\ req[r].at = "set" /\ u \in Users /\ req[r] \in Request
      /\ place \in Places /\ FALSE \in BOOLEAN
  BY PlacesGiven DEF SetCredential, Named, Typed
<1>2. /\ cred' = [cred EXCEPT ![u] = req[r].new]
      /\ rows' = Aged(u)
      /\ req' = [Overtake(u) EXCEPT ![r] = x]
      /\ writer' = [writer EXCEPT ![u] = req[r].kind]
      /\ profile' = profile
  BY DEF SetCredential
<1>3. req[r].new \in Passwords \cup {None}
  BY <1>1, Zenon DEF Request
<1>4. /\ Overtake(u) \in [Requests -> Request] /\ old \in Request
      /\ old.kind = req[r].kind /\ old.user = req[r].user
  BY OvertakeFields
<1>5. /\ x \in Request /\ x.at = place /\ x.kind = old.kind /\ x.user = old.user
      /\ x.stale = FALSE /\ x.straddled = FALSE
  <2> HIDE DEF old, place
  <2> QED BY <1>1, <1>4, Zenon DEF Request
<1>6. req' \in [Requests -> Request] /\ req'[r] = x
      /\ \A q \in Requests \ {r} : req'[q] = Overtake(u)[q]
  <2> HIDE DEF x, u
  <2> QED BY <1>2, <1>4, <1>5
<1> HIDE DEF x, old
<1> QED BY <1>1, <1>2, <1>3, <1>4, <1>5, <1>6

LEMMA AgedFields ==
    ASSUME Typed, NEW u
    PROVE  /\ Aged(u) \subseteq Session
           /\ \A s \in Aged(u) : \E t \in rows :
                 /\ s.user = t.user
                 /\ s.user # u => s.stale = t.stale /\ s.straddled = t.straddled
<1>1. ASSUME NEW s \in rows
      PROVE  LET x == [s EXCEPT !.stale = TRUE] IN x \in Session /\ x.user = s.user
  <2>1. s \in Session /\ TRUE \in BOOLEAN
    BY DEF Typed
  <2> QED BY <2>1, Zenon DEF Session
<1>2. rows \subseteq Session
  BY DEF Typed
<1> QED BY <1>1, <1>2 DEF Aged

LEMMA SetKeepsInv == \A r \in Requests : Inv /\ SetCredential(r) => Inv'
<1> SUFFICES ASSUME NEW r \in Requests, Inv, SetCredential(r) PROVE Inv'
  OBVIOUS
<1>0. /\ Typed /\ Named /\ Claimed /\ Fresh /\ RequestsSwept
      /\ ChangeSignsOthersOut /\ ReplacedByItsOwner
  BY DEF Inv
<1>1. CASE req[r].user \notin profile
  <2>1. /\ req[r].at = "set" /\ Finish(r)
        /\ UNCHANGED <<cred, rows, writer, profile>>
    BY <1>1 DEF SetCredential
  <2>2. /\ req' \in [Requests -> Request] /\ Others(r) /\ req'[r] = Done
        /\ rows' \subseteq Session /\ Kept
    BY <1>0, <2>1, FinishFields, RowsKept DEF Typed
  <2>3. Mild(r)
    BY <2>1, <2>2, DoneTyped DEF Mild
  <2> QED BY <2>3, MildKeepsInv
<1>2. CASE req[r].user \in profile
  <2> DEFINE u == req[r].user
  <2>1. /\ req[r].at = "set" /\ u \in Users
        /\ req' \in [Requests -> Request]
        /\ \A q \in Requests \ {r} : req'[q] = Overtake(u)[q]
        /\ req'[r].kind = req[r].kind /\ req'[r].user = u
        /\ req'[r].at = IF req[r].kind = "password" THEN "revoke" ELSE "issue"
        /\ ~req'[r].stale /\ ~req'[r].straddled
        /\ cred' = [cred EXCEPT ![u] = req[r].new]
        /\ req[r].new \in Passwords \cup {None}
        /\ rows' = Aged(u)
        /\ writer' = [writer EXCEPT ![u] = req[r].kind]
        /\ profile' = profile
    BY <1>0, <1>2, SetFields
  <2>2. \A q \in Requests \ {r} :
           /\ req'[q].at = req[q].at /\ req'[q].kind = req[q].kind
           /\ req'[q].user = req[q].user /\ req'[q].straddled = req[q].straddled
           /\ req[q].user = u /\ req[q].at \in Proved => req'[q].stale
           /\ ~(req[q].user = u /\ req[q].at \in Proved) => req'[q] = req[q]
    BY <1>0, <2>1, OvertakeFields
  <2>3. /\ rows' \subseteq Session
        /\ \A s \in rows' : \E t \in rows :
              /\ s.user = t.user
              /\ s.user # u => s.stale = t.stale /\ s.straddled = t.straddled
    BY <1>0, <2>1, AgedFields
  <2>4. req[r].kind \in Kinds
    <3>1. req[r] \in Request
      BY <1>0 DEF Typed
    <3> QED BY <3>1, Zenon DEF Request
  <2>5. \A v \in Users \ {u} : writer'[v] = writer[v] /\ cred'[v] = cred[v]
    BY <1>0, <2>1 DEF Typed
  <2>6. writer'[u] = "password" => StillChanging(r, u)
    BY <1>0, <2>1 DEF Typed, StillChanging
  <2>7. \A w \in Requests : \A v : Changing(w, v) => w # r /\ StillChanging(w, v)
    BY <2>1, <2>2 DEF Changing, StillChanging
  <2>8. \A s \in rows : s.user \in Users
    BY <1>0 DEF Typed, Session
  <2> HIDE DEF u
  <2>9. Typed'
    BY <1>0, <2>1, <2>3, <2>4 DEF Typed
  <2>10. Named'
    BY <1>0, <2>1, <2>2 DEF Named
  <2>11. Claimed'
    BY <1>0, <1>2, <2>1, <2>5 DEF Claimed, u
  <2>12. Fresh'
    <3>1. req'[r].at \in Proved
      BY <2>1 DEF Proved
    <3> QED BY <1>0, <2>2, <3>1 DEF Fresh
  <2>13. RequestsSwept'
    <3> SUFFICES ASSUME NEW q \in Requests, req'[q].at \in Proved, req'[q].stale,
                        writer'[req'[q].user] = "password", ~ req'[q].straddled
                 PROVE  \E w \in Requests \ {q} : StillChanging(w, req'[q].user)
      BY DEF RequestsSwept, Changing, StillChanging
    <3>1. q # r
      BY <2>1
    <3>2. CASE req'[q].user = u
      BY <2>6, <3>1, <3>2
    <3>3. CASE req'[q].user # u
      <4>1. req'[q] = req[q]
        BY <2>2, <3>1, <3>3
      <4>2. req[q].user \in Users
        BY <1>0, <4>1 DEF Named, Proved
      <4>3. writer[req[q].user] = "password"
        BY <2>5, <3>3, <4>1, <4>2
      <4>4. PICK w \in Requests \ {q} : Changing(w, req[q].user)
        BY <1>0, <4>1, <4>3 DEF RequestsSwept
      <4> QED BY <2>7, <4>1, <4>4
    <3> QED BY <3>2, <3>3
  <2>14. ChangeSignsOthersOut'
    <3> SUFFICES ASSUME NEW s \in rows', writer'[s.user] = "password", s.stale,
                        ~ s.straddled
                 PROVE  \E w \in Requests : StillChanging(w, s.user)
      BY DEF ChangeSignsOthersOut, StillChanging
    <3>1. PICK t \in rows :
             /\ s.user = t.user
             /\ s.user # u => s.stale = t.stale /\ s.straddled = t.straddled
      BY <2>3
    <3>2. CASE s.user = u
      BY <2>6, <3>2
    <3>3. CASE s.user # u
      <4>1. writer[t.user] = "password"
        BY <2>5, <2>8, <3>1, <3>3
      <4>2. PICK w \in Requests : Changing(w, s.user)
        BY <1>0, <3>1, <3>3, <4>1 DEF ChangeSignsOthersOut, Changing
      <4> QED BY <2>7, <4>2
    <3> QED BY <3>2, <3>3
  <2>15. ReplacedByItsOwner'
    <3> SUFFICES ASSUME NEW q \in Requests, req'[q].at = "set",
                        cred'[req'[q].user] # None, ~ req'[q].stale,
                        req'[q].user \in profile'
                 PROVE  req'[q].kind = "password" /\ req'[q].pass = cred'[req'[q].user]
      BY DEF ReplacedByItsOwner
    <3>1. q # r
      BY <2>1
    <3>2. req[q].user # u /\ req'[q] = req[q]
      BY <2>2, <3>1 DEF Proved
    <3>3. req[q].user \in Users /\ cred'[req[q].user] = cred[req[q].user]
      BY <1>0, <2>5, <3>2 DEF Named
    <3> QED BY <1>0, <2>1, <3>2, <3>3 DEF ReplacedByItsOwner
  <2> QED BY <2>9, <2>10, <2>11, <2>12, <2>13, <2>14, <2>15 DEF Inv
<1> QED BY <1>1, <1>2

LEMMA RevokeFields ==
    ASSUME Typed, NEW r \in Requests, Revoke(r)
    PROVE  /\ req[r].at = "revoke" /\ rows' = rows \ OwnedBy(req[r].user)
           /\ UNCHANGED <<profile, cred, writer>>
           /\ req' \in [Requests -> Request]
           /\ \A q \in Requests \ {r} :
                 /\ req'[q].at = req[q].at /\ req'[q].kind = req[q].kind
                 /\ req'[q].user = req[q].user /\ req'[q].pass = req[q].pass
                 /\ req'[q].stale = req[q].stale /\ req'[q].client = req[q].client
                 /\ req[q].user = req[r].user /\ req[q].at \in Proved => req'[q].straddled
                 /\ ~(req[q].user = req[r].user /\ req[q].at \in Proved) => req'[q] = req[q]
           /\ \/ req'[r] = Done
              \/ /\ req'[r].at = "issue" /\ req'[r].user = req[r].user
                 /\ req'[r].stale = req[r].stale /\ req'[r].straddled = req[r].straddled
<1> DEFINE u == req[r].user
           y(q) == [req[q] EXCEPT !.straddled = TRUE]
           flagged == [q \in Requests |-> IF /\ q # r /\ req[q].user = u
                                             /\ req[q].at \in Proved
                                          THEN y(q) ELSE req[q]]
           x == [req[r] EXCEPT !.at = "issue"]
<1>1. \A q \in Requests : req[q] \in Request
  BY DEF Typed
<1>2. ASSUME NEW q \in Requests
      PROVE  /\ y(q) \in Request /\ y(q).at = req[q].at /\ y(q).kind = req[q].kind
             /\ y(q).user = req[q].user /\ y(q).pass = req[q].pass
             /\ y(q).stale = req[q].stale /\ y(q).straddled = TRUE
             /\ y(q).client = req[q].client
  <2>1. req[q] \in Request /\ TRUE \in BOOLEAN
    BY <1>1
  <2> QED BY <2>1, Zenon DEF Request
<1>3. /\ x \in Request /\ x.at = "issue" /\ x.user = req[r].user
      /\ x.stale = req[r].stale /\ x.straddled = req[r].straddled
  BY <1>1, PlacesGiven, Zenon DEF Request
<1>4. /\ req[r].at = "revoke" /\ rows' = rows \ OwnedBy(u)
      /\ UNCHANGED <<profile, cred, writer>>
      /\ req' = [flagged EXCEPT ![r] = IF @.kind = "password"
                                       THEN [@ EXCEPT !.at = "issue"] ELSE Done]
  BY DEF Revoke
<1>5. flagged[r] = req[r]
  OBVIOUS
<1>6. flagged \in [Requests -> Request]
  <2> HIDE DEF y
  <2> QED BY <1>1, <1>2
<1>7. \A q \in Requests \ {r} :
         flagged[q] = IF req[q].user = u /\ req[q].at \in Proved THEN y(q) ELSE req[q]
  <2> HIDE DEF y
  <2> QED OBVIOUS
<1>8. req' = [flagged EXCEPT ![r] = IF req[r].kind = "password" THEN x ELSE Done]
  BY <1>4, <1>5
<1> HIDE DEF flagged, x, y, u
<1>9. /\ req' \in [Requests -> Request]
      /\ \A q \in Requests \ {r} : req'[q] = flagged[q]
      /\ req'[r] = x \/ req'[r] = Done
  BY <1>3, <1>6, <1>8, DoneTyped
<1>10. ASSUME NEW q \in Requests \ {r}
       PROVE  /\ req'[q].at = req[q].at /\ req'[q].kind = req[q].kind
              /\ req'[q].user = req[q].user /\ req'[q].pass = req[q].pass
              /\ req'[q].stale = req[q].stale /\ req'[q].client = req[q].client
              /\ req[q].user = u /\ req[q].at \in Proved => req'[q].straddled
              /\ ~(req[q].user = u /\ req[q].at \in Proved) => req'[q] = req[q]
  <2>1. CASE req[q].user = u /\ req[q].at \in Proved
    <3>1. req'[q] = y(q)
      BY <1>7, <1>9, <2>1
    <3> QED BY <1>2, <2>1, <3>1
  <2>2. CASE ~(req[q].user = u /\ req[q].at \in Proved)
    <3>1. req'[q] = req[q]
      BY <1>7, <1>9, <2>2
    <3> QED BY <2>2, <3>1
  <2> QED BY <2>1, <2>2
<1> QED BY <1>3, <1>4, <1>9, <1>10 DEF u

LEMMA RevokeKeepsInv == \A r \in Requests : Inv /\ Revoke(r) => Inv'
<1> SUFFICES ASSUME NEW r \in Requests, Inv, Revoke(r) PROVE Inv'
  OBVIOUS
<1> DEFINE u == req[r].user
<1>0. /\ Typed /\ Named /\ Claimed /\ Fresh /\ RequestsSwept
      /\ ChangeSignsOthersOut /\ ReplacedByItsOwner
  BY DEF Inv
<1>a. /\ req[r].at = "revoke" /\ rows' = rows \ OwnedBy(u)
      /\ UNCHANGED <<profile, cred, writer>>
      /\ req' \in [Requests -> Request]
      /\ \A q \in Requests \ {r} :
            /\ req'[q].at = req[q].at /\ req'[q].kind = req[q].kind
            /\ req'[q].user = req[q].user /\ req'[q].pass = req[q].pass
            /\ req'[q].stale = req[q].stale
            /\ req[q].user = u /\ req[q].at \in Proved => req'[q].straddled
            /\ ~(req[q].user = u /\ req[q].at \in Proved) => req'[q] = req[q]
      /\ \/ req'[r] = Done
         \/ /\ req'[r].at = "issue" /\ req'[r].user = u
            /\ req'[r].stale = req[r].stale /\ req'[r].straddled = req[r].straddled
  BY <1>0, RevokeFields
<1>b. u \in Users
  BY <1>0, <1>a DEF Named
<1>c. \A w \in Requests \ {r} : \A v : Changing(w, v) => StillChanging(w, v)
  BY <1>a DEF Changing, StillChanging
<1> HIDE DEF u
<1>d. u = req[r].user /\ rows' \subseteq rows /\ \A s \in rows' : s.user # u
  BY <1>a DEF OwnedBy, u
<1>1. Typed' /\ Claimed'
  BY <1>0, <1>a, <1>d DEF Typed, Claimed
<1>2. Named' /\ Fresh'
  BY <1>0, <1>a, <1>b, DoneTyped DEF Named, Fresh, Proved
<1>3. RequestsSwept'
  <2> SUFFICES ASSUME NEW q \in Requests, req'[q].at \in Proved, req'[q].stale,
                      writer[req'[q].user] = "password", ~ req'[q].straddled
               PROVE  \E w \in Requests \ {q} : StillChanging(w, req'[q].user)
    BY <1>a DEF RequestsSwept, Changing, StillChanging
  <2>1. CASE q = r
    <3>1. /\ req'[r].user = u /\ req[r].stale /\ ~req[r].straddled
          /\ req[r].at \in Proved
      BY <1>a, <2>1, DoneTyped DEF Proved
    <3>2. PICK w \in Requests \ {r} : Changing(w, u)
      BY <1>0, <1>d, <2>1, <3>1 DEF RequestsSwept
    <3> QED BY <1>c, <2>1, <3>1, <3>2
  <2>2. CASE q # r
    <3>1. req[q].user # u /\ req'[q] = req[q]
      BY <1>a, <2>2
    <3>2. PICK w \in Requests \ {q} : Changing(w, req[q].user)
      BY <1>0, <3>1 DEF RequestsSwept
    <3>3. w # r
      BY <1>d, <3>1, <3>2 DEF Changing
    <3> QED BY <1>c, <3>1, <3>2, <3>3
  <2> QED BY <2>1, <2>2
<1>4. ChangeSignsOthersOut'
  <2> SUFFICES ASSUME NEW s \in rows', writer[s.user] = "password", s.stale,
                      ~ s.straddled
               PROVE  \E w \in Requests : StillChanging(w, s.user)
    BY <1>a DEF ChangeSignsOthersOut, StillChanging
  <2>1. PICK w \in Requests : Changing(w, s.user)
    BY <1>0, <1>d DEF ChangeSignsOthersOut, Changing
  <2>2. w # r
    BY <1>d, <2>1 DEF Changing
  <2> QED BY <1>c, <2>1, <2>2
<1>5. ReplacedByItsOwner'
  BY <1>0, <1>a, DoneTyped DEF ReplacedByItsOwner
<1> QED BY <1>1, <1>2, <1>3, <1>4, <1>5 DEF Inv

LEMMA DeleteKeepsInv == \A r \in Requests : Inv /\ DeleteUser(r) => Inv'
<1> SUFFICES ASSUME NEW r \in Requests, Inv, DeleteUser(r) PROVE Inv'
  OBVIOUS
<1> DEFINE u == req[r].user
<1>0. /\ Typed /\ Named /\ Claimed /\ Fresh /\ RequestsSwept
      /\ ChangeSignsOthersOut /\ ReplacedByItsOwner
  BY DEF Inv
<1>1. /\ req[r].at = "act" /\ profile' = profile \ {u}
      /\ cred' = [cred EXCEPT ![u] = None]
      /\ rows' = rows \ OwnedBy(u)
      /\ writer' = [writer EXCEPT ![u] = "nobody"]
      /\ req' = [Overtake(u) EXCEPT ![r] = Done]
  BY DEF DeleteUser
<1>2. u \in Users
  BY <1>0, <1>1 DEF Named
<1>3. /\ req' \in [Requests -> Request] /\ req'[r] = Done
      /\ \A q \in Requests \ {r} :
            /\ req'[q].at = req[q].at /\ req'[q].kind = req[q].kind
            /\ req'[q].user = req[q].user /\ req'[q].straddled = req[q].straddled
            /\ ~(req[q].user = u /\ req[q].at \in Proved) => req'[q] = req[q]
  <2>1. /\ Overtake(u) \in [Requests -> Request]
        /\ \A q \in Requests :
              /\ Overtake(u)[q].at = req[q].at /\ Overtake(u)[q].kind = req[q].kind
              /\ Overtake(u)[q].user = req[q].user
              /\ Overtake(u)[q].straddled = req[q].straddled
              /\ ~(req[q].user = u /\ req[q].at \in Proved) => Overtake(u)[q] = req[q]
    BY <1>0, OvertakeFields
  <2> HIDE DEF u
  <2> QED BY <1>1, <2>1, DoneTyped
<1>4. \A w \in Requests : \A v : Changing(w, v) => w # r /\ StillChanging(w, v)
  BY <1>1, <1>3 DEF Changing, StillChanging
<1> HIDE DEF u
<1>5. rows' \subseteq rows /\ \A s \in rows' : s.user # u
  BY <1>1 DEF OwnedBy
<1>6. /\ writer'[u] = "nobody" /\ cred'[u] = None
      /\ \A v \in Users \ {u} : writer'[v] = writer[v] /\ cred'[v] = cred[v]
  BY <1>0, <1>1, <1>2 DEF Typed
<1>7. Typed'
  BY <1>0, <1>1, <1>3, <1>5 DEF Typed
<1>8. Named' /\ Claimed' /\ Fresh'
  <2>1. Named'
    BY <1>0, <1>3, DoneTyped DEF Named
  <2>2. Claimed'
    BY <1>0, <1>1, <1>6 DEF Claimed
  <2>3. Fresh'
    BY <1>0, <1>3, DoneTyped DEF Fresh
  <2> QED BY <2>1, <2>2, <2>3
<1>9. RequestsSwept'
  <2> SUFFICES ASSUME NEW q \in Requests, req'[q].at \in Proved, req'[q].stale,
                      writer'[req'[q].user] = "password", ~ req'[q].straddled
               PROVE  \E w \in Requests \ {q} : StillChanging(w, req'[q].user)
    BY DEF RequestsSwept, Changing, StillChanging
  <2>1. q # r /\ req'[q].user # u
    BY <1>3, <1>6, DoneTyped DEF Proved
  <2>2. req'[q] = req[q]
    BY <1>3, <2>1
  <2>3. req[q].user \in Users
    BY <1>0, <2>2 DEF Named, Proved
  <2>4. writer[req[q].user] = "password"
    BY <1>6, <2>1, <2>2, <2>3
  <2>5. PICK w \in Requests \ {q} : Changing(w, req[q].user)
    BY <1>0, <2>2, <2>4 DEF RequestsSwept
  <2> QED BY <1>4, <2>2, <2>5
<1>10. ChangeSignsOthersOut'
  <2> SUFFICES ASSUME NEW s \in rows', writer'[s.user] = "password", s.stale,
                      ~ s.straddled
               PROVE  \E w \in Requests : StillChanging(w, s.user)
    BY DEF ChangeSignsOthersOut, StillChanging
  <2>1. s \in rows /\ s.user \in Users /\ s.user # u
    BY <1>0, <1>5 DEF Typed, Session
  <2>2. PICK w \in Requests : Changing(w, s.user)
    BY <1>0, <1>6, <2>1 DEF ChangeSignsOthersOut, Changing
  <2> QED BY <1>4, <2>2
<1>11. ReplacedByItsOwner'
  <2> SUFFICES ASSUME NEW q \in Requests, req'[q].at = "set",
                      cred'[req'[q].user] # None, ~ req'[q].stale,
                      req'[q].user \in profile'
               PROVE  req'[q].kind = "password" /\ req'[q].pass = cred'[req'[q].user]
    BY DEF ReplacedByItsOwner
  <2>1. q # r /\ req'[q].user # u
    BY <1>3, <1>6, DoneTyped
  <2>2. req'[q] = req[q]
    BY <1>3, <2>1
  <2>3. req[q].user \in Users /\ cred'[req[q].user] = cred[req[q].user]
    BY <1>0, <1>6, <2>1, <2>2 DEF Named
  <2> QED BY <1>0, <1>1, <2>2, <2>3 DEF ReplacedByItsOwner
<1> QED BY <1>7, <1>8, <1>9, <1>10, <1>11 DEF Inv

LEMMA RestartKeepsInv == Inv /\ Restart => Inv'
<1> SUFFICES ASSUME Inv, Restart PROVE Inv'
  OBVIOUS
<1>0. Typed /\ Claimed /\ ChangeSignsOthersOut
  BY DEF Inv
<1>1. /\ UNCHANGED <<profile, cred, rows>> /\ req' = [r \in Requests |-> Done]
      /\ writer' = [u \in Users |->
                       IF \E r \in Requests : Changing(r, u) THEN "cut" ELSE writer[u]]
  <2>1. \A u : (\E r \in Requests : req[r].at = "revoke" /\ req[r].user = u
                                    /\ req[r].kind = "password")
               <=> (\E r \in Requests : Changing(r, u))
    BY DEF Changing
  <2> QED BY <2>1 DEF Restart, tables
<1>2. Typed'
  BY <1>0, <1>1, DoneTyped DEF Typed
<1>3. Named' /\ Fresh' /\ RequestsSwept' /\ ReplacedByItsOwner'
  BY <1>1, DoneTyped DEF Named, Fresh, RequestsSwept, ReplacedByItsOwner
<1>4. Claimed'
  BY <1>0, <1>1 DEF Claimed
<1>5. ChangeSignsOthersOut'
  <2> SUFFICES ASSUME NEW s \in rows, writer'[s.user] = "password", s.stale
               PROVE  s.straddled
    BY <1>1 DEF ChangeSignsOthersOut
  <2>1. s.user \in Users
    BY <1>0 DEF Typed, Session
  <2>2. writer[s.user] = "password" /\ ~ \E r \in Requests : Changing(r, s.user)
    BY <1>1, <2>1
  <2> QED BY <1>0, <2>2 DEF ChangeSignsOthersOut, Changing
<1> QED BY <1>2, <1>3, <1>4, <1>5 DEF Inv

-----------------------------------------------------------------------------
(* The invariant, and what it gives.                                       *)

LEMMA InvInit == AccountsAssumption /\ AccountsInit => Inv
<1> SUFFICES ASSUME AccountsAssumption, AccountsInit PROVE Inv
  OBVIOUS
<1>1. Typed
  BY DoneTyped DEF AccountsInit, Typed
<1>2. Named /\ Claimed /\ Fresh /\ RequestsSwept /\ ChangeSignsOthersOut
      /\ ReplacedByItsOwner
  BY DoneTyped DEF AccountsInit, Named, Claimed, Fresh, RequestsSwept,
                   ChangeSignsOthersOut, ReplacedByItsOwner
<1> QED BY <1>1, <1>2 DEF Inv

LEMMA InvKept == AccountsAssumption /\ Inv /\ [AccountsNext]_vars => Inv'
<1> SUFFICES ASSUME AccountsAssumption, Inv, [AccountsNext]_vars PROVE Inv'
  OBVIOUS
<1>0. Typed /\ Named /\ Claimed /\ Fresh
  BY DEF Inv
<1>1. ASSUME NEW r \in Requests, Arrivals(r) PROVE Inv'
  BY <1>0, <1>1, Arriving, MildKeepsInv, Surroundings, QuietKeepsInv DEF Arrivals
<1>2. ASSUME NEW r \in Requests, Steps(r) PROVE Inv'
  BY <1>0, <1>2, Working, MildKeepsInv, IssueKeepsInv, SetKeepsInv, RevokeKeepsInv,
     DeleteKeepsInv DEF Steps
<1>3. CASE Expire \/ Tick \/ UNCHANGED vars
  BY <1>0, <1>3, Surroundings, QuietKeepsInv
<1> QED BY <1>1, <1>2, <1>3, RestartKeepsInv DEF AccountsNext

\* The invariant holds of every reachable state: what is typed and named of the
\* requests, and both properties with what makes them inductive. api/auth.py
THEOREM AccountsInvariant == AccountsSpec => []Inv
<1>1. AccountsAssumption
  BY AccountsAssumption
<1> QED BY <1>1, InvInit, InvKept, PTL DEF AccountsSpec

\* A password change signs out everyone else, but for requests under way during
\* the whole of it: for any number of users, requests and clients. auth.py:287-291
THEOREM ChangesSignOthersOut == AccountsSpec => []ChangeSignsOthersOut
<1>1. Inv => ChangeSignsOthersOut
  BY DEF Inv
<1> QED BY <1>1, AccountsInvariant, PTL

\* A password is replaced by whoever proved the one replaced, or by a request
\* already past its check when that one was written. auth.py:175-186,274
THEOREM PasswordsHaveOwners == AccountsSpec => []ReplacedByItsOwner
<1>1. Inv => ReplacedByItsOwner
  BY DEF Inv
<1> QED BY <1>1, AccountsInvariant, PTL

-----------------------------------------------------------------------------
(* The limits of the throttle.                                             *)

Counted(k) == IF k \in Tracked THEN Len(failures[k]) ELSE 0

\* The throttle by itself: a key whose failures reach the allowance is locked
\* out, and its lockout is kept as long as they are.
Table ==
    /\ \A k \in Tracked : failures[k] \in Seq(Nat)
    /\ IsFiniteSet(Tracked)
    /\ TableBounded
    /\ \A k \in Tracked : Len(failures[k]) >= MaxFailures => k \in DOMAIN lockedFor

-----------------------------------------------------------------------------
(* The methods of the throttle.                                            *)

LEMMA RecordedFields ==
    ASSUME NEW attempts \in Seq(Nat)
    PROVE  Recorded(attempts) \in Seq(Nat) /\ Len(Recorded(attempts)) <= Len(attempts) + 1
<1> DEFINE all == Append(attempts, 0)
           over == {i \in DOMAIN all : \A j \in 1 .. i : all[j] > Window}
           n == Cardinality(over)
<1>1. all \in Seq(Nat) /\ Len(all) = Len(attempts) + 1 /\ DOMAIN all = 1 .. Len(all)
      /\ Len(attempts) \in Nat
  OBVIOUS
<1>2. over \in SUBSET (1 .. Len(all))
  BY <1>1
<1>3. IsFiniteSet(1 .. Len(all)) /\ Cardinality(1 .. Len(all)) = Len(all)
  BY <1>1, FS_Interval
<1>4. n \in Nat /\ n <= Len(all)
  <2>1. IsFiniteSet(over) /\ Cardinality(over) <= Len(all)
    BY <1>2, <1>3, FS_Subset
  <2> QED BY <2>1, FS_CardinalityType
<1>5. Recorded(attempts) = SubSeq(all, n + 1, Len(all))
  BY DEF Recorded
<1> HIDE DEF n, all
<1> QED BY <1>1, <1>4, <1>5

\* The steps that note no failure: what they keep, they keep whole.
Eased ==
    /\ Tracked' \subseteq Tracked
    /\ DOMAIN lockedFor' \subseteq Tracked'
    /\ \A k \in Tracked' :
          /\ failures'[k] \in Seq(Nat) /\ Len(failures'[k]) = Len(failures[k])
          /\ k \in DOMAIN lockedFor => k \in DOMAIN lockedFor'

LEMMA EasedKeepsTable ==
    ASSUME ThrottleAssumption, Table, Eased
    PROVE  Table' /\ \A k : Counted(k)' <= Counted(k)
<1>1. IsFiniteSet(Tracked') /\ Cardinality(Tracked') <= Cardinality(Tracked)
  BY FS_Subset DEF Table, Eased
<1>2. /\ Cardinality(Tracked) \in Nat /\ Cardinality(Tracked') \in Nat
      /\ Cardinality(Tracked) <= MaxKeys /\ MaxKeys \in Nat
  BY <1>1, FS_CardinalityType DEF Table, TableBounded, ThrottleAssumption
<1>3. TableBounded'
  <2>1. Cardinality(Tracked') <= MaxKeys
    BY <1>1, <1>2
  <2> QED BY <2>1 DEF TableBounded, Eased
<1>4. Table'
  BY <1>1, <1>3 DEF Table, Eased
<1>5. \A k : Counted(k)' <= Counted(k)
  BY DEF Counted, Eased, Table
<1> QED BY <1>4, <1>5

LEMMA Easing ==
    ASSUME Table,
           \/ UNCHANGED throttleVars
           \/ \E k : RetryAfter(k) \/ Forget(k)
           \/ ThrottleTick
           \/ failures' = [k \in {} |-> <<>>] /\ lockedFor' = [k \in {} |-> 0]
    PROVE  Eased
<1>0. DOMAIN lockedFor \subseteq Tracked /\ \A k \in Tracked : failures[k] \in Seq(Nat)
  BY DEF Table, TableBounded
<1>1. CASE UNCHANGED throttleVars
  BY <1>0, <1>1 DEF Eased, throttleVars, Tracked
<1>2. ASSUME NEW gone, failures' = Without(failures, gone),
             lockedFor' = Without(lockedFor, gone)
      PROVE  Eased
  BY <1>0, <1>2 DEF Eased, Without, Tracked
<1>3. CASE \E k : RetryAfter(k) \/ Forget(k)
  BY <1>2, <1>3 DEF RetryAfter, Forget
<1>4. CASE ThrottleTick
  <2>1. Tracked' = Tracked /\ DOMAIN lockedFor' = DOMAIN lockedFor
    BY <1>4 DEF ThrottleTick, Tracked
  <2>2. ASSUME NEW k \in Tracked
        PROVE  failures'[k] \in Seq(Nat) /\ Len(failures'[k]) = Len(failures[k])
    <3> DEFINE f == failures[k]
               older(x) == IF x > Window THEN Window + 1 ELSE x + 1
    <3>1. f \in Seq(Nat) /\ Window \in Nat
      BY <1>0, ThrottleAssumption DEF ThrottleAssumption
    <3>2. failures'[k] = [i \in DOMAIN f |-> older(f[i])]
      BY <1>4 DEF ThrottleTick, Tracked
    <3>3. \A x \in Nat : older(x) \in Nat
      BY <3>1
    <3>4. DOMAIN f = 1 .. Len(f) /\ Len(f) \in Nat /\ \A i \in DOMAIN f : f[i] \in Nat
      BY <3>1
    <3> DEFINE g == [i \in 1 .. Len(f) |-> older(f[i])]
    <3>5. g \in [1 .. Len(f) -> Nat]
      <4> HIDE DEF older, f
      <4> QED BY <3>3, <3>4
    <3>6. failures'[k] = g
      BY <3>2, <3>4
    <3> HIDE DEF g
    <3>7. g \in Seq(Nat) /\ Len(g) = Len(f)
      <4> HIDE DEF f
      <4> QED BY <3>4, <3>5
    <3> QED BY <3>6, <3>7
  <2> QED BY <1>0, <2>1, <2>2 DEF Eased
<1>5. CASE failures' = [k \in {} |-> <<>>] /\ lockedFor' = [k \in {} |-> 0]
  BY <1>5 DEF Eased, Tracked
<1> QED BY <1>1, <1>3, <1>4, <1>5

LEMMA RecordKeepsTable ==
    ASSUME ThrottleAssumption, Table, NEW k, RecordFailure(k)
    PROVE  /\ Table' /\ Counted(k)' <= Counted(k) + 1
           /\ \A j : j # k => Counted(j)' <= Counted(j)
<1>1. PICK gone \in Evictions :
         LET kept == Without(failures, gone)
             locks == Without(lockedFor, gone)
             attempts == Recorded(IF k \in DOMAIN kept THEN kept[k] ELSE <<>>)
         IN  /\ failures' = With(kept, k, attempts)
             /\ lockedFor' = IF Len(attempts) >= MaxFailures
                             THEN With(locks, k, Lockout) ELSE locks
  BY DEF RecordFailure
<1> DEFINE kept == Without(failures, gone)
           locks == Without(lockedFor, gone)
           before == IF k \in DOMAIN kept THEN kept[k] ELSE <<>>
           attempts == Recorded(before)
<1>0. /\ DOMAIN lockedFor \subseteq Tracked /\ IsFiniteSet(Tracked)
      /\ \A j \in Tracked : failures[j] \in Seq(Nat)
      /\ Cardinality(Tracked) \in Nat /\ Cardinality(Tracked) <= MaxKeys
      /\ MaxKeys \in Nat \ {0}
  BY FS_CardinalityType DEF Table, TableBounded, ThrottleAssumption
<1>2. /\ DOMAIN kept = Tracked \ gone /\ \A j \in DOMAIN kept : kept[j] = failures[j]
      /\ DOMAIN locks = DOMAIN lockedFor \ gone
  BY DEF Without, Tracked
<1>3. before \in Seq(Nat) /\ Len(before) <= Counted(k)
  <2>1. CASE k \in DOMAIN kept
    BY <1>0, <1>2, <2>1 DEF Counted
  <2>2. CASE k \notin DOMAIN kept
    BY <1>0, <2>2 DEF Counted
  <2> QED BY <2>1, <2>2
<1>4. attempts \in Seq(Nat) /\ Len(attempts) <= Counted(k) + 1
  <2> HIDE DEF before
  <2>1. attempts \in Seq(Nat) /\ Len(attempts) <= Len(before) + 1
    BY <1>3, RecordedFields
  <2>2. Len(before) \in Nat /\ Counted(k) \in Nat
    BY <1>0, <1>3 DEF Counted
  <2> HIDE DEF attempts
  <2> QED BY <1>3, <2>1, <2>2
<1>5. /\ failures' = With(kept, k, attempts)
      /\ lockedFor' = IF Len(attempts) >= MaxFailures
                      THEN With(locks, k, Lockout) ELSE locks
  BY <1>1
<1> HIDE DEF kept, locks, attempts, before
<1>6. /\ Tracked' = (Tracked \ gone) \cup {k}
      /\ failures'[k] = attempts
      /\ \A j \in Tracked \ gone : j # k => failures'[j] = failures[j]
  BY <1>1, <1>2, <1>5 DEF With, Tracked
<1>7. /\ DOMAIN lockedFor' \subseteq Tracked'
      /\ \A j \in Tracked' : j \in DOMAIN lockedFor /\ j \notin gone
                                => j \in DOMAIN lockedFor'
      /\ Len(attempts) >= MaxFailures => k \in DOMAIN lockedFor'
  BY <1>0, <1>2, <1>5, <1>6 DEF With
<1>8. /\ IsFiniteSet(Tracked \ gone)
      /\ Cardinality(Tracked \ gone) \in Nat /\ Cardinality(Tracked \ gone) < MaxKeys
  <2>1. CASE Cardinality(Tracked) < MaxKeys
    <3>1. gone = {}
      BY <2>1 DEF Evictions
    <3>2. Tracked \ gone = Tracked
      BY <3>1
    <3> QED BY <1>0, <2>1, <3>2
  <2>2. CASE ~(Cardinality(Tracked) < MaxKeys) /\ Cardinality(Tracked \ Stale) < MaxKeys
    <3>1. gone = Stale
      BY <2>2 DEF Evictions
    <3>2. IsFiniteSet(Tracked \ gone)
      BY <1>0, FS_Subset
    <3> QED BY <2>2, <3>1, <3>2, FS_CardinalityType
  <2>3. CASE ~(Cardinality(Tracked) < MaxKeys) /\ ~(Cardinality(Tracked \ Stale) < MaxKeys)
    <3>1. PICK o \in Oldest(Tracked \ Stale) : gone = Stale \cup {o}
      BY <2>3 DEF Evictions
    <3>2. o \in Tracked \ Stale /\ Tracked \ gone = (Tracked \ Stale) \ {o}
      BY <3>1 DEF Oldest
    <3>3. IsFiniteSet(Tracked \ Stale)
          /\ Cardinality(Tracked \ Stale) <= Cardinality(Tracked)
      BY <1>0, FS_Subset
    <3>4. IsFiniteSet((Tracked \ Stale) \ {o})
          /\ Cardinality((Tracked \ Stale) \ {o}) = Cardinality(Tracked \ Stale) - 1
      BY <3>2, <3>3, FS_RemoveElement
    <3>5. Cardinality(Tracked \ Stale) \in Nat
          /\ Cardinality((Tracked \ Stale) \ {o}) \in Nat
      BY <3>3, <3>4, FS_CardinalityType
    <3> DEFINE n == Cardinality(Tracked \ Stale)
               m == Cardinality((Tracked \ Stale) \ {o})
    <3>6. m < MaxKeys
      <4>1. /\ n \in Nat /\ m \in Nat /\ m = n - 1 /\ n <= Cardinality(Tracked)
            /\ Cardinality(Tracked) \in Nat /\ Cardinality(Tracked) <= MaxKeys
            /\ MaxKeys \in Nat
        BY <1>0, <3>3, <3>4, <3>5
      <4> HIDE DEF m, n
      <4> QED BY <4>1
    <3> QED BY <3>2, <3>4, <3>5, <3>6
  <2> QED BY <2>1, <2>2, <2>3
<1>9. IsFiniteSet(Tracked') /\ Cardinality(Tracked') <= MaxKeys
  <2>1. /\ IsFiniteSet((Tracked \ gone) \cup {k})
        /\ \/ Cardinality((Tracked \ gone) \cup {k}) = Cardinality(Tracked \ gone)
           \/ Cardinality((Tracked \ gone) \cup {k}) = Cardinality(Tracked \ gone) + 1
    BY <1>8, FS_AddElement
  <2> QED BY <1>0, <1>6, <1>8, <2>1
<1>10. \A j \in Tracked' : Len(failures'[j]) >= MaxFailures => j \in DOMAIN lockedFor'
  BY <1>6, <1>7 DEF Table
<1>11. \A j \in Tracked' : failures'[j] \in Seq(Nat)
  BY <1>0, <1>4, <1>6
<1>12. Table'
  BY <1>7, <1>9, <1>10, <1>11 DEF Table, TableBounded
<1>13. Counted(k)' <= Counted(k) + 1
  BY <1>4, <1>6 DEF Counted
<1>14. ASSUME NEW j, j # k PROVE Counted(j)' <= Counted(j)
  BY <1>0, <1>6, <1>14 DEF Counted
<1> QED BY <1>12, <1>13, <1>14

-----------------------------------------------------------------------------
(* The requests past the guard.                                            *)

\* Requests that may still record a failure of k without being asked again.
PastGuard(x, k) ==
    \/ x.at \in {"guard_ip", "read", "user", "fail_id"} /\ k = <<x.client, x.user>>
    \/ x.at \in {"read", "user", "fail_id", "fail_ip"} /\ k = <<x.client, None>>
Pending(k) == {r \in Requests : PastGuard(req[r], k)}

\* Each of those has its failure left, and no more of them fit the allowance.
Room == \A k : Counted(k) + Cardinality(Pending(k))
                  <= (MaxFailures - 1) + Cardinality(Requests)

\* A step in which no request gets past the guard.
Holding == \A q \in Requests : \A k : PastGuard(req'[q], k) => PastGuard(req[q], k)

LEMMA Sizes ==
    ASSUME ThrottleAssumption, AccountsAssumption, Table, NEW k
    PROVE  /\ IsFiniteSet(Pending(k)) /\ Cardinality(Pending(k)) \in Nat
           /\ Cardinality(Pending(k)) <= Cardinality(Requests)
           /\ Cardinality(Requests) \in Nat /\ MaxFailures \in Nat \ {0}
           /\ Counted(k) \in Nat
<1>1. Pending(k) \subseteq Requests /\ IsFiniteSet(Requests)
  BY DEF Pending, AccountsAssumption
<1>2. Counted(k) \in Nat
  BY DEF Counted, Table
<1> QED BY <1>1, <1>2, FS_Subset, FS_CardinalityType DEF ThrottleAssumption

LEMMA HoldingKeepsRoom ==
    ASSUME ThrottleAssumption, AccountsAssumption, Table, Table', Room, Holding,
           \A k : Counted(k)' <= Counted(k)
    PROVE  Room'
<1> SUFFICES ASSUME NEW k
             PROVE  Counted(k)' + Cardinality(Pending(k)')
                       <= (MaxFailures - 1) + Cardinality(Requests)
  BY DEF Room
<1>1. Pending(k)' \subseteq Pending(k)
  BY DEF Holding, Pending
<1>2. /\ Cardinality(Pending(k)) \in Nat /\ IsFiniteSet(Pending(k))
      /\ Cardinality(Requests) \in Nat /\ MaxFailures \in Nat /\ Counted(k) \in Nat
  BY Sizes
<1>3. Cardinality(Pending(k)') <= Cardinality(Pending(k)) /\ IsFiniteSet(Pending(k)')
  BY <1>1, <1>2, FS_Subset
<1>4. Cardinality(Pending(k)') \in Nat
  BY <1>3, FS_CardinalityType
<1>5. Counted(k)' \in Nat
  BY DEF Counted, Table
<1>6. Counted(k)' <= Counted(k)
  OBVIOUS
<1>7. Counted(k) + Cardinality(Pending(k)) <= (MaxFailures - 1) + Cardinality(Requests)
  BY DEF Room
<1> DEFINE a == Counted(k)
           b == Cardinality(Pending(k))
           c == Counted(k)'
           d == Cardinality(Pending(k)')
           e == Cardinality(Requests)
<1>8. /\ a \in Nat /\ b \in Nat /\ c \in Nat /\ d \in Nat /\ e \in Nat
      /\ MaxFailures \in Nat /\ c <= a /\ d <= b /\ a + b <= (MaxFailures - 1) + e
  BY <1>2, <1>3, <1>4, <1>5, <1>6, <1>7
<1> HIDE DEF a, b, c, d, e
<1>9. c + d <= (MaxFailures - 1) + e
  BY <1>8
<1> QED BY <1>9 DEF c, d, e

LEMMA OneMoves ==
    ASSUME NEW r \in Requests, Others(r),
           \A k : PastGuard(req'[r], k) => PastGuard(req[r], k)
    PROVE  Holding
BY DEF Holding, Others

LEMMA DoneIsOut == \A k : ~PastGuard(Done, k)
BY DoneTyped DEF PastGuard

LEMMA Out ==
    ASSUME NEW x, x.at \notin {"guard_ip", "read", "user", "fail_id", "fail_ip"}
    PROVE  \A k : ~PastGuard(x, k)
BY DEF PastGuard

LEMMA OutBySending ==
    ASSUME NEW r \in Requests, Typed, NEW place \in Places, Goto(r, place),
           place \notin {"guard_ip", "read", "user", "fail_id", "fail_ip"}
    PROVE  Holding
<1>1. Others(r) /\ req'[r].at = place
  BY GotoFields DEF Typed
<1> QED BY <1>1, Out, OneMoves

LEMMA OutByEnding ==
    ASSUME NEW r \in Requests, Typed, Finish(r)
    PROVE  Holding
<1>1. Others(r) /\ req'[r] = Done
  BY FinishFields DEF Typed
<1> QED BY <1>1, DoneIsOut, OneMoves

\* A request that arrives has yet to be guarded.
LEMMA ArrivalsHold ==
    ASSUME NEW r \in Requests, Typed, Arrivals(r)
    PROVE  UNCHANGED throttleVars /\ Holding
<1> DEFINE Asked == /\ Others(r) /\ UNCHANGED throttleVars
                    /\ req'[r].at \in {"guard_id", "lookup", "whoami", "gate"}
<1>1. Asked => UNCHANGED throttleVars /\ Holding
  BY Out, OneMoves
<1>2. Done \in Request /\ DOMAIN req = Requests
  BY DoneTyped DEF Typed
<1> HIDE DEF Asked
<1>3. CASE Logout(r) \/ AuthStatus(r)
  BY <1>3 DEF Logout, AuthStatus, Holding
<1>4. CASE Login(r)
  BY <1>1, <1>2, <1>4 DEF Login, Arrive, Asked, Others, Done
<1>5. CASE Signup(r)
  BY <1>1, <1>2, <1>5 DEF Signup, Arrive, Asked, Others, Done
<1>6. CASE ChangePassword(r)
  BY <1>1, <1>2, <1>6 DEF ChangePassword, Arrive, Asked, Others, Done
<1>7. CASE LogoutEverywhere(r)
  BY <1>1, <1>2, <1>7 DEF LogoutEverywhere, Arrive, Asked, Others, Done
<1>8. CASE ManageUser(r)
  BY <1>1, <1>2, <1>8 DEF ManageUser, Arrive, Asked, Others, Done
<1> QED BY <1>3, <1>4, <1>5, <1>6, <1>7, <1>8 DEF Arrivals

LEMMA StepsHold ==
    ASSUME NEW r \in Requests, AccountsAssumption, Typed, Named,
           \/ Reset(r) \/ ReadCredential(r) \/ Verify(r) \/ Issue(r) \/ Lookup(r)
           \/ CheckUnclaimed(r) \/ CreateProfile(r) \/ SetCredential(r) \/ WhoAmI(r)
           \/ Revoke(r) \/ Gate(r) \/ CreateUser(r) \/ DeleteUser(r)
    PROVE  Holding
<1>1. CASE Reset(r)
  BY <1>1, OutBySending, PlacesGiven DEF Reset
<1>2. CASE ReadCredential(r)
  <2>1. /\ Others(r) /\ req'[r].user = req[r].user /\ req'[r].client = req[r].client
        /\ req'[r].at \in {"user", "set", "fail_id"} /\ req[r].at = "read"
    BY <1>2, ReadFields DEF ReadCredential
  <2>2. \A k : PastGuard(req'[r], k) => PastGuard(req[r], k)
    BY <2>1 DEF PastGuard
  <2> QED BY <2>1, <2>2, OneMoves
<1>3. CASE Verify(r)
  <2>1. /\ Others(r) /\ req'[r].user = req[r].user /\ req'[r].client = req[r].client
        /\ req'[r].at \in {"reset_id", "fail_id"} /\ req[r].at = "user"
    BY <1>3, VerifyFields DEF Verify
  <2>2. \A k : PastGuard(req'[r], k) => PastGuard(req[r], k)
    BY <2>1 DEF PastGuard
  <2> QED BY <2>1, <2>2, OneMoves
<1>4. CASE Issue(r) \/ CreateUser(r)
  BY <1>4, OutByEnding DEF Issue, CreateUser
<1>5. CASE Lookup(r) \/ CheckUnclaimed(r) \/ CreateProfile(r) \/ Gate(r)
  <2>1. Finish(r) \/ \E place \in {"exists", "profile", "set", "act"} : Goto(r, place)
    BY <1>5 DEF Lookup, CheckUnclaimed, CreateProfile, Gate
  <2> QED BY <2>1, OutByEnding, OutBySending, PlacesGiven
<1>6. CASE SetCredential(r)
  <2>1. CASE req[r].user \notin profile
    BY <1>6, <2>1, OutByEnding DEF SetCredential
  <2>2. CASE req[r].user \in profile
    <3>1. /\ \A q \in Requests \ {r} : req'[q] = Overtake(req[r].user)[q]
          /\ req'[r].at \in {"revoke", "issue"}
      BY <1>6, <2>2, SetFields
    <3>2. \A q \in Requests \ {r} :
             /\ req'[q].at = req[q].at /\ req'[q].user = req[q].user
             /\ req'[q].client = req[q].client
      BY <3>1, OvertakeFields
    <3> QED BY <3>1, <3>2 DEF Holding, PastGuard
  <2> QED BY <2>1, <2>2
<1>7. CASE WhoAmI(r)
  <2>1. Others(r) /\ (req'[r] = Done \/ req'[r].at \in {"guard_id", "revoke"})
    BY <1>7, WhoAmIFields
  <2> QED BY <2>1, DoneIsOut, Out, OneMoves
<1>8. CASE Revoke(r)
  <2>1. /\ \A q \in Requests \ {r} :
              /\ req'[q].at = req[q].at /\ req'[q].user = req[q].user
              /\ req'[q].client = req[q].client
        /\ req'[r] = Done \/ req'[r].at = "issue"
    BY <1>8, RevokeFields
  <2> QED BY <2>1, DoneIsOut DEF Holding, PastGuard
<1>9. CASE DeleteUser(r)
  <2>1. req' = [Overtake(req[r].user) EXCEPT ![r] = Done]
    BY <1>9 DEF DeleteUser
  <2>2. /\ Overtake(req[r].user) \in [Requests -> Request]
        /\ \A q \in Requests :
              /\ Overtake(req[r].user)[q].at = req[q].at
              /\ Overtake(req[r].user)[q].user = req[q].user
              /\ Overtake(req[r].user)[q].client = req[q].client
    BY OvertakeFields
  <2>3. /\ req'[r] = Done
        /\ \A q \in Requests \ {r} : req'[q] = Overtake(req[r].user)[q]
    BY <2>1, <2>2
  <2>4. \A q \in Requests \ {r} :
           /\ req'[q].at = req[q].at /\ req'[q].user = req[q].user
           /\ req'[q].client = req[q].client
    BY <2>2, <2>3
  <2> QED BY <2>3, <2>4, DoneIsOut DEF Holding, PastGuard
<1> QED BY <1>1, <1>2, <1>3, <1>4, <1>5, <1>6, <1>7, <1>8, <1>9

\* Getting past the guard: the failures of the key leave room for every request.
LEMMA GuardKeepsRoom ==
    ASSUME NEW r \in Requests, ThrottleAssumption, AccountsAssumption, Typed, Table,
           Room, Guard(r)
    PROVE  Table' /\ Room'
<1> DEFINE who == IF req[r].at = "guard_id" THEN "id" ELSE "ip"
           place == IF who = "id" THEN "guard_ip" ELSE "read"
<1>0. PICK key : key = Key(r, who)
  OBVIOUS
<1>1. /\ req[r].at \in {"guard_id", "guard_ip"} /\ RetryAfter(key)
      /\ IF Locked(key) THEN Finish(r) ELSE Goto(r, place)
  BY <1>0 DEF Guard
<1>2. Eased
  BY <1>1, Easing
<1>3. Table' /\ \A k : Counted(k)' <= Counted(k)
  BY <1>2, EasedKeepsTable
<1>4. CASE Finish(r)
  BY <1>3, <1>4, OutByEnding, HoldingKeepsRoom
<1>5. CASE ~Locked(key) /\ Goto(r, place)
  <2>1. /\ Others(r) /\ req'[r].at = place /\ req'[r].user = req[r].user
        /\ req'[r].client = req[r].client
    BY <1>5, GotoFields, PlacesGiven DEF Typed
  <2>2. key = IF req[r].at = "guard_id" THEN <<req[r].client, req[r].user>>
              ELSE <<req[r].client, None>>
    BY <1>0 DEF Key
  <2>3. Counted(key)' <= MaxFailures - 1
    <3>1. MaxFailures \in Nat \ {0}
      BY DEF ThrottleAssumption
    <3>2. CASE key \in DOMAIN lockedFor
      <4>1. key \notin Tracked'
        BY <1>1, <1>5, <3>2 DEF RetryAfter, Without, Tracked
      <4> QED BY <3>1, <4>1 DEF Counted
    <3>3. CASE key \notin DOMAIN lockedFor
      <4>1. Counted(key) <= MaxFailures - 1 /\ Counted(key) \in Nat
        BY <3>1, <3>3 DEF Counted, Table
      <4>2. Counted(key)' \in Nat
        BY <1>3 DEF Counted, Table
      <4> QED BY <1>3, <3>1, <4>1, <4>2
    <3> QED BY <3>2, <3>3
  <2>4. \A q \in Requests : \A k : k # key /\ PastGuard(req'[q], k) => PastGuard(req[q], k)
    <3>1. \A k : k # key /\ PastGuard(req'[r], k) => PastGuard(req[r], k)
      BY <1>1, <2>1, <2>2 DEF PastGuard
    <3> QED BY <2>1, <3>1 DEF Others
  <2>5. ASSUME NEW k
        PROVE  Counted(k)' + Cardinality(Pending(k)')
                  <= (MaxFailures - 1) + Cardinality(Requests)
    <3>1. /\ Cardinality(Pending(k)) \in Nat /\ IsFiniteSet(Pending(k))
          /\ Cardinality(Requests) \in Nat /\ MaxFailures \in Nat \ {0}
          /\ Counted(k) \in Nat /\ IsFiniteSet(Requests)
      BY Sizes DEF AccountsAssumption
    <3>2. Counted(k)' \in Nat /\ Counted(k)' <= Counted(k)
      BY <1>3 DEF Counted, Table
    <3>3. CASE k = key
      <4>1. Pending(k)' \subseteq Requests
        BY DEF Pending
      <4>2. Cardinality(Pending(k)') <= Cardinality(Requests)
            /\ IsFiniteSet(Pending(k)')
        BY <3>1, <4>1, FS_Subset
      <4>3. Cardinality(Pending(k)') \in Nat
        BY <4>2, FS_CardinalityType
      <4>4. Counted(k)' <= MaxFailures - 1
        BY <2>3, <3>3
      <4> QED BY <3>1, <3>2, <4>2, <4>3, <4>4
    <3>4. CASE k # key
      <4>1. Pending(k)' \subseteq Pending(k)
        BY <2>4, <3>4 DEF Pending
      <4>2. Cardinality(Pending(k)') <= Cardinality(Pending(k))
            /\ IsFiniteSet(Pending(k)')
        BY <3>1, <4>1, FS_Subset
      <4>3. Cardinality(Pending(k)') \in Nat
        BY <4>2, FS_CardinalityType
      <4>4. Counted(k) + Cardinality(Pending(k))
               <= (MaxFailures - 1) + Cardinality(Requests)
        BY DEF Room
      <4> QED BY <3>1, <3>2, <4>2, <4>3, <4>4
    <3> QED BY <3>3, <3>4
  <2> QED BY <1>3, <2>5 DEF Room
<1> QED BY <1>1, <1>4, <1>5

\* A failure recorded is one that was pending.
LEMMA FailKeepsRoom ==
    ASSUME NEW r \in Requests, ThrottleAssumption, AccountsAssumption, Typed, Named,
           Table, Room, Fail(r)
    PROVE  Table' /\ Room'
<1>0. PICK key : key = IF req[r].at = "fail_id" THEN <<req[r].client, req[r].user>>
                       ELSE <<req[r].client, None>>
  OBVIOUS
<1>1. /\ req[r].at \in {"fail_id", "fail_ip"} /\ RecordFailure(key) /\ Others(r)
      /\ \/ /\ req[r].at = "fail_id" /\ req'[r].at = "fail_ip"
            /\ req'[r].user = req[r].user /\ req'[r].client = req[r].client
         \/ req[r].at = "fail_ip" /\ req'[r] = Done
  <2>1. CASE req[r].at = "fail_id" /\ RecordFailure(Key(r, "id")) /\ Goto(r, "fail_ip")
    BY <1>0, <2>1, GotoFields, PlacesGiven DEF Key, Typed
  <2>2. CASE req[r].at = "fail_ip" /\ RecordFailure(Key(r, "ip")) /\ Finish(r)
    BY <1>0, <2>2, FinishFields DEF Key, Typed
  <2> QED BY <2>1, <2>2 DEF Fail
<1>2. /\ Table' /\ Counted(key)' <= Counted(key) + 1
      /\ \A k : k # key => Counted(k)' <= Counted(k)
  BY <1>1, RecordKeepsTable
<1>3. req[r].user # None
  BY <1>1 DEF Named, AccountsAssumption
<1>4. PastGuard(req[r], key) /\ ~PastGuard(req'[r], key)
      /\ \A k : PastGuard(req'[r], k) => PastGuard(req[r], k)
  BY <1>0, <1>1, <1>3, DoneTyped DEF PastGuard
<1>5. Holding
  BY <1>1, <1>4, OneMoves
<1>6. ASSUME NEW k
      PROVE  Counted(k)' + Cardinality(Pending(k)')
                <= (MaxFailures - 1) + Cardinality(Requests)
  <2>1. /\ Cardinality(Pending(k)) \in Nat /\ IsFiniteSet(Pending(k))
        /\ Cardinality(Requests) \in Nat /\ MaxFailures \in Nat \ {0}
        /\ Counted(k) \in Nat
    BY Sizes
  <2>2. Counted(k)' \in Nat
    BY <1>2 DEF Counted, Table
  <2>3. Counted(k) + Cardinality(Pending(k)) <= (MaxFailures - 1) + Cardinality(Requests)
    BY DEF Room
  <2>4. CASE k = key
    <3>1. r \in Pending(k) /\ Pending(k)' \subseteq Pending(k) \ {r}
      BY <1>4, <1>5, <2>4 DEF Pending, Holding
    <3>2. IsFiniteSet(Pending(k) \ {r})
          /\ Cardinality(Pending(k) \ {r}) = Cardinality(Pending(k)) - 1
      BY <2>1, <3>1, FS_RemoveElement
    <3>3. Cardinality(Pending(k)') <= Cardinality(Pending(k) \ {r})
          /\ IsFiniteSet(Pending(k)')
      BY <3>1, <3>2, FS_Subset
    <3>4. Cardinality(Pending(k)') \in Nat /\ Cardinality(Pending(k) \ {r}) \in Nat
      BY <3>2, <3>3, FS_CardinalityType
    <3>5. Counted(k)' <= Counted(k) + 1
      BY <1>2, <2>4
    <3> QED BY <2>1, <2>2, <2>3, <3>2, <3>3, <3>4, <3>5
  <2>5. CASE k # key
    <3>1. Pending(k)' \subseteq Pending(k)
      BY <1>5 DEF Pending, Holding
    <3>2. Cardinality(Pending(k)') <= Cardinality(Pending(k))
          /\ IsFiniteSet(Pending(k)')
      BY <2>1, <3>1, FS_Subset
    <3>3. Cardinality(Pending(k)') \in Nat
      BY <3>2, FS_CardinalityType
    <3>4. Counted(k)' <= Counted(k)
      BY <1>2, <2>5
    <3> QED BY <2>1, <2>2, <2>3, <3>2, <3>3, <3>4
  <2> QED BY <2>4, <2>5
<1> QED BY <1>2, <1>6 DEF Room

-----------------------------------------------------------------------------
(* The invariant, and what it gives.                                       *)

LEMMA RoomInit ==
    ASSUME ThrottleAssumption, AccountsAssumption, AccountsInit
    PROVE  Table /\ Room
<1>1. /\ Tracked = {} /\ DOMAIN lockedFor = {} /\ req = [r \in Requests |-> Done]
  BY DEF AccountsInit, ThrottleInit, Tracked
<1>2. Table
  BY <1>1, FS_EmptySet DEF Table, TableBounded, ThrottleAssumption
<1>3. \A k : Pending(k) = {}
  BY <1>1, DoneIsOut DEF Pending
<1>4. Cardinality(Requests) \in Nat /\ MaxFailures \in Nat \ {0}
  BY FS_CardinalityType DEF AccountsAssumption, ThrottleAssumption
<1>5. \A k : Counted(k) = 0 /\ Cardinality(Pending(k)) = 0
  BY <1>1, <1>3, FS_EmptySet DEF Counted
<1>6. 0 + 0 <= (MaxFailures - 1) + Cardinality(Requests)
  BY <1>4
<1> QED BY <1>2, <1>5, <1>6 DEF Room

LEMMA RoomKept ==
    ASSUME ThrottleAssumption, AccountsAssumption, Inv, Table, Room,
           [AccountsNext]_vars
    PROVE  Table' /\ Room'
<1>0. Typed /\ Named
  BY DEF Inv
<1>1. ASSUME Eased, Holding PROVE Table' /\ Room'
  BY <1>1, EasedKeepsTable, HoldingKeepsRoom
<1>2. ASSUME NEW r \in Requests, Arrivals(r) PROVE Table' /\ Room'
  BY <1>0, <1>1, <1>2, ArrivalsHold, Easing
<1>3. ASSUME NEW r \in Requests, Steps(r) PROVE Table' /\ Room'
  <2>1. CASE Guard(r)
    BY <1>0, <2>1, GuardKeepsRoom
  <2>2. CASE Fail(r)
    BY <1>0, <2>2, FailKeepsRoom
  <2>3. CASE Reset(r)
    <3>1. \E k : RetryAfter(k) \/ Forget(k)
      BY <2>3 DEF Reset
    <3> QED BY <1>0, <1>1, <2>3, <3>1, Easing, StepsHold
  <2>4. CASE \/ ReadCredential(r) \/ Verify(r) \/ Issue(r) \/ Lookup(r)
             \/ CheckUnclaimed(r) \/ CreateProfile(r) \/ SetCredential(r) \/ WhoAmI(r)
             \/ Revoke(r) \/ Gate(r) \/ CreateUser(r) \/ DeleteUser(r)
    <3>1. UNCHANGED throttleVars
      BY <2>4 DEF ReadCredential, Verify, Issue, Lookup, CheckUnclaimed, CreateProfile,
                  SetCredential, WhoAmI, Revoke, Gate, CreateUser, DeleteUser
    <3> QED BY <1>0, <1>1, <2>4, <3>1, Easing, StepsHold
  <2> QED BY <1>3, <2>1, <2>2, <2>3, <2>4 DEF Steps
<1>4. CASE Expire \/ Tick \/ UNCHANGED vars
  <2>1. req' = req /\ (UNCHANGED throttleVars \/ ThrottleTick)
    BY <1>4 DEF Expire, Tick, vars
  <2>2. Holding
    BY <2>1 DEF Holding
  <2> QED BY <1>1, <2>1, <2>2, Easing
<1>5. CASE Restart
  <2>1. /\ req' = [r \in Requests |-> Done]
        /\ failures' = [k \in {} |-> <<>>] /\ lockedFor' = [k \in {} |-> 0]
    BY <1>5 DEF Restart
  <2>2. Holding
    BY <2>1, DoneIsOut DEF Holding
  <2> QED BY <1>1, <2>1, <2>2, Easing
<1> QED BY <1>2, <1>3, <1>4, <1>5 DEF AccountsNext

\* The table never outgrows its limit, nor keeps a lockout without its failures,
\* and the failures of a key exceed the allowance by less than the requests in
\* flight: for any allowance, window, table and number of requests.
\* throttle.py:62-99, auth.py:216-225
THEOREM ThrottleStaysBounded == AccountsSpec => []ThrottleBounded
<1>1. ThrottleAssumption /\ AccountsAssumption
  BY ThrottleAssumption, AccountsAssumption
<1>2. Table /\ Room => ThrottleBounded
  <2> SUFFICES ASSUME Table, Room PROVE ThrottleBounded
    OBVIOUS
  <2>1. ASSUME NEW k \in Tracked
        PROVE  Len(failures[k]) <= (MaxFailures - 1) + Cardinality(Requests)
    <3>1. /\ Cardinality(Pending(k)) \in Nat /\ Cardinality(Requests) \in Nat
          /\ MaxFailures \in Nat /\ Counted(k) \in Nat /\ Counted(k) = Len(failures[k])
      BY <1>1, Sizes DEF Counted
    <3>2. Counted(k) + Cardinality(Pending(k)) <= (MaxFailures - 1) + Cardinality(Requests)
      BY DEF Room
    <3> QED BY <3>1, <3>2
  <2> QED BY <2>1 DEF ThrottleBounded, AllowanceBounded, Table
<1>3. AccountsInit => Table /\ Room
  BY <1>1, RoomInit
<1>4. Inv /\ (Table /\ Room) /\ [AccountsNext]_vars => (Table /\ Room)'
  BY <1>1, RoomKept
<1> QED BY <1>2, <1>3, <1>4, AccountsInvariant, PTL DEF AccountsSpec

-----------------------------------------------------------------------------
(* The types, and what the tables refer to.                                *)

\* Where a request is while its password is checked.
Throttled == {"guard_id", "guard_ip", "read", "user", "fail_id", "fail_ip",
              "reset_id", "reset_ip"}

\* What the handlers know of a request by the place it has reached.
Fits(x) ==
    /\ x.at \in Throttled => x.client \in Clients
    /\ x.at = "whoami" /\ x.kind = "password" => x.client \in Clients
    /\ x.at \in {"lookup", "exists", "profile"} => x.kind = "signup"
    /\ x.at \in {"lookup", "exists", "profile", "gate", "act"} => x.user \in Members
    /\ x.at = "set" => x.kind \in {"signup", "password"}
RequestsFit == \A r \in Requests : Fits(req[r])

\* A session is of a profile, and its token is its own.
Referred ==
    /\ \A s \in rows : s.user \in profile
    /\ \A s, t \in rows : s.token = t.token => s = t

Writers == writer \in [Users -> {"nobody", "signup", "password", "cut"}]

Settled == profile \subseteq Members /\ required \in BOOLEAN

\* The types that are inductive together.
Types == ThrottleTypeOK /\ RequestsFit /\ Referred /\ Writers /\ Settled

LEMMA DoneFits == Fits(Done)
BY DEF Fits, Throttled, Done

\* A request that moves keeps the others as they are.
LEMMA OneFits ==
    ASSUME NEW r \in Requests, RequestsFit, Others(r), Fits(req'[r])
    PROVE  RequestsFit'
<1> SUFFICES ASSUME NEW q \in Requests PROVE Fits(req[q])'
  BY DEF RequestsFit
<1>1. CASE q = r
  BY <1>1 DEF Fits, Throttled
<1>2. CASE q # r
  <2>1. req'[q] = req[q]
    BY <1>2 DEF Others
  <2> QED BY <2>1 DEF RequestsFit, Fits, Throttled
<1> QED BY <1>1, <1>2

\* A request that ends fits.
LEMMA EndingFits ==
    ASSUME Typed, NEW r \in Requests, RequestsFit, Finish(r)
    PROVE  RequestsFit'
BY FinishFields, DoneFits, OneFits DEF Typed

\* A request that goes on fits where it goes.
LEMMA MovingFits ==
    ASSUME Typed, NEW r \in Requests, RequestsFit, NEW place \in Places, Goto(r, place),
           place # "whoami",
           place \in Throttled => req[r].client \in Clients,
           place \in {"lookup", "exists", "profile"} => req[r].kind = "signup",
           place \in {"lookup", "exists", "profile", "gate", "act"} => req[r].user \in Members,
           place = "set" => req[r].kind \in {"signup", "password"}
    PROVE  RequestsFit'
<1>1. /\ Others(r) /\ req'[r].at = place /\ req'[r].kind = req[r].kind
      /\ req'[r].user = req[r].user /\ req'[r].client = req[r].client
  BY GotoFields DEF Typed
<1>2. Fits(req'[r])
  BY <1>1 DEF Fits, Throttled
<1> QED BY <1>1, <1>2, OneFits

\* A request fits when it arrives.
LEMMA ArrivingFits ==
    ASSUME Typed, NEW r \in Requests, RequestsFit,
           \/ Login(r) \/ Signup(r) \/ ChangePassword(r)
           \/ LogoutEverywhere(r) \/ ManageUser(r)
    PROVE  RequestsFit'
<1>0. ASSUME NEW x, Fits(x), Arrive(r, x) PROVE RequestsFit'
  <2>1. req' = [req EXCEPT ![r] = x] /\ req \in [Requests -> Request]
    BY <1>0 DEF Arrive, Typed
  <2>2. Others(r) /\ req'[r] = x
    BY <2>1 DEF Others
  <2> QED BY <1>0, <2>2, OneFits
<1>1. CASE Login(r)
  <2>1. PICK c \in Clients, u \in Users, p \in Passwords :
           Arrive(r, [Done EXCEPT !.kind = "login", !.at = "guard_id", !.client = c,
                                  !.user = u, !.pass = p])
    BY <1>1 DEF Login
  <2> DEFINE x == [Done EXCEPT !.kind = "login", !.at = "guard_id", !.client = c,
                               !.user = u, !.pass = p]
  <2>2. x.at = "guard_id" /\ x.client = c
    BY DEF Done
  <2> HIDE DEF x
  <2>3. Fits(x)
    BY <2>2 DEF Fits, Throttled
  <2> QED BY <1>0, <2>1, <2>3 DEF x
<1>2. CASE Signup(r)
  <2>1. PICK u \in Members, p \in Passwords :
           Arrive(r, [Done EXCEPT !.kind = "signup", !.at = "lookup",
                                  !.user = u, !.new = p])
    BY <1>2 DEF Signup
  <2> DEFINE x == [Done EXCEPT !.kind = "signup", !.at = "lookup", !.user = u, !.new = p]
  <2>2. x.at = "lookup" /\ x.user = u /\ x.kind = "signup"
    BY DEF Done
  <2> HIDE DEF x
  <2>3. Fits(x)
    BY <2>2 DEF Fits, Throttled
  <2> QED BY <1>0, <2>1, <2>3 DEF x
<1>3. CASE ChangePassword(r)
  <2>1. PICK c \in Clients, t \in Known, p \in Passwords, q \in Passwords :
           Arrive(r, [Done EXCEPT !.kind = "password", !.at = "whoami", !.client = c,
                                  !.token = t, !.pass = p, !.new = q])
    BY <1>3 DEF ChangePassword
  <2> DEFINE x == [Done EXCEPT !.kind = "password", !.at = "whoami", !.client = c,
                               !.token = t, !.pass = p, !.new = q]
  <2>2. x.at = "whoami" /\ x.client = c
    BY DEF Done
  <2> HIDE DEF x
  <2>3. Fits(x)
    BY <2>2 DEF Fits, Throttled
  <2> QED BY <1>0, <2>1, <2>3 DEF x
<1>4. CASE LogoutEverywhere(r)
  <2>1. PICK t \in Known :
           Arrive(r, [Done EXCEPT !.kind = "logout_all", !.at = "whoami", !.token = t])
    BY <1>4 DEF LogoutEverywhere
  <2> DEFINE x == [Done EXCEPT !.kind = "logout_all", !.at = "whoami", !.token = t]
  <2>2. x.at = "whoami" /\ x.kind = "logout_all"
    BY DEF Done
  <2> HIDE DEF x
  <2>3. Fits(x)
    BY <2>2 DEF Fits, Throttled
  <2> QED BY <1>0, <2>1, <2>3 DEF x
<1>5. CASE ManageUser(r)
  <2>1. PICK t \in Known, u \in Members, kind \in {"create", "delete"} :
           Arrive(r, [Done EXCEPT !.kind = kind, !.at = "gate",
                                  !.token = t, !.user = u])
    BY <1>5 DEF ManageUser
  <2> DEFINE x == [Done EXCEPT !.kind = kind, !.at = "gate", !.token = t, !.user = u]
  <2>2. x.at = "gate" /\ x.user = u
    BY DEF Done
  <2> HIDE DEF x
  <2>3. Fits(x)
    BY <2>2 DEF Fits, Throttled
  <2> QED BY <1>0, <2>1, <2>3 DEF x
<1> QED BY <1>1, <1>2, <1>3, <1>4, <1>5

\* And in every step of its own.
LEMMA StepsFit ==
    ASSUME AccountsAssumption, Inv, RequestsFit, NEW r \in Requests, Steps(r)
    PROVE  RequestsFit'
<1>0. Typed /\ Named /\ Fits(req[r])
  BY DEF Inv, RequestsFit
<1>1. CASE Guard(r)
  <2>1. /\ req[r].at \in {"guard_id", "guard_ip"}
        /\ Finish(r) \/ Goto(r, "guard_ip") \/ Goto(r, "read")
    BY <1>1 DEF Guard
  <2> QED BY <1>0, <2>1, EndingFits, MovingFits, PlacesGiven DEF Fits, Throttled
<1>2. CASE Fail(r)
  <2>1. req[r].at \in {"fail_id", "fail_ip"} /\ (Finish(r) \/ Goto(r, "fail_ip"))
    BY <1>2 DEF Fail
  <2> QED BY <1>0, <2>1, EndingFits, MovingFits, PlacesGiven DEF Fits, Throttled
<1>3. CASE Reset(r)
  <2>1. req[r].at \in {"reset_id", "reset_ip"}
        /\ (Goto(r, "reset_ip") \/ Goto(r, "issue"))
    BY <1>3 DEF Reset
  <2> QED BY <1>0, <2>1, MovingFits, PlacesGiven DEF Fits, Throttled
<1>4. CASE ReadCredential(r)
  <2>1. req[r].at = "read"
    BY <1>4 DEF ReadCredential
  <2>2. /\ Others(r) /\ req'[r].client = req[r].client
        /\ req'[r].at \in {"user", "set", "fail_id"}
        /\ req'[r].at = "set" => req'[r].kind = "password"
    BY <1>0, <1>4, ReadFields
  <2>3. Fits(req'[r])
    BY <1>0, <2>1, <2>2 DEF Fits, Throttled
  <2> QED BY <2>2, <2>3, OneFits
<1>5. CASE Verify(r)
  <2>1. req[r].at = "user"
    BY <1>5 DEF Verify
  <2>2. /\ Others(r) /\ req'[r].client = req[r].client
        /\ req'[r].at \in {"reset_id", "fail_id"}
    BY <1>0, <1>5, VerifyFields
  <2>3. Fits(req'[r])
    BY <1>0, <2>1, <2>2 DEF Fits, Throttled
  <2> QED BY <2>2, <2>3, OneFits
<1>6. CASE Lookup(r)
  <2>1. req[r].at = "lookup" /\ (Goto(r, "exists") \/ Goto(r, "profile"))
    BY <1>6 DEF Lookup
  <2> QED BY <1>0, <2>1, MovingFits, PlacesGiven DEF Fits, Throttled
<1>7. CASE CheckUnclaimed(r) \/ CreateProfile(r)
  <2>1. req[r].at \in {"exists", "profile"} /\ (Finish(r) \/ Goto(r, "set"))
    BY <1>7 DEF CheckUnclaimed, CreateProfile
  <2> QED BY <1>0, <2>1, EndingFits, MovingFits, PlacesGiven DEF Fits, Throttled
<1>8. CASE Gate(r)
  <2>1. req[r].at = "gate" /\ (Finish(r) \/ Goto(r, "act"))
    BY <1>8 DEF Gate
  <2> QED BY <1>0, <2>1, EndingFits, MovingFits, PlacesGiven DEF Fits, Throttled
<1>9. CASE Issue(r) \/ CreateUser(r)
  BY <1>0, <1>9, EndingFits DEF Issue, CreateUser
<1>10. CASE WhoAmI(r)
  <2>1. req[r].at = "whoami"
    BY <1>10 DEF WhoAmI
  <2>2. /\ Others(r)
        /\ \/ req'[r] = Done
           \/ /\ req'[r].at \in {"guard_id", "revoke"}
              /\ req'[r].client = req[r].client
              /\ req'[r].at = "guard_id" => req[r].kind = "password"
    BY <1>0, <1>10, WhoAmIFields
  <2>3. Fits(req'[r])
    BY <1>0, <2>1, <2>2, DoneFits DEF Fits, Throttled
  <2> QED BY <2>2, <2>3, OneFits
<1>11. CASE SetCredential(r)
  <2>1. CASE req[r].user \notin profile
    BY <1>0, <1>11, <2>1, EndingFits DEF SetCredential
  <2>2. CASE req[r].user \in profile
    <3>1. /\ \A q \in Requests \ {r} : req'[q] = Overtake(req[r].user)[q]
          /\ req'[r].at \in {"revoke", "issue"}
      BY <1>0, <1>11, <2>2, SetFields
    <3>2. \A q \in Requests \ {r} :
             /\ req'[q].at = req[q].at /\ req'[q].kind = req[q].kind
             /\ req'[q].user = req[q].user /\ req'[q].client = req[q].client
      BY <1>0, <3>1, OvertakeFields
    <3>3. ASSUME NEW q \in Requests PROVE Fits(req'[q])
      BY <3>1, <3>2 DEF RequestsFit, Fits, Throttled
    <3> QED BY <3>3 DEF RequestsFit, Fits, Throttled
  <2> QED BY <2>1, <2>2
<1>12. CASE Revoke(r)
  <2>1. /\ \A q \in Requests \ {r} :
             /\ req'[q].at = req[q].at /\ req'[q].kind = req[q].kind
             /\ req'[q].user = req[q].user /\ req'[q].client = req[q].client
        /\ req'[r] = Done \/ req'[r].at = "issue"
    BY <1>0, <1>12, RevokeFields
  <2>2. ASSUME NEW q \in Requests PROVE Fits(req'[q])
    BY <2>1, DoneFits DEF RequestsFit, Fits, Throttled
  <2> QED BY <2>2 DEF RequestsFit, Fits, Throttled
<1>13. CASE DeleteUser(r)
  <2>1. req' = [Overtake(req[r].user) EXCEPT ![r] = Done]
    BY <1>13 DEF DeleteUser
  <2>2. Overtake(req[r].user) \in [Requests -> Request]
    BY <1>0, OvertakeFields
  <2>3. /\ req'[r] = Done
        /\ \A q \in Requests \ {r} : req'[q] = Overtake(req[r].user)[q]
    BY <2>1, <2>2
  <2>4. \A q \in Requests \ {r} :
           /\ req'[q].at = req[q].at /\ req'[q].kind = req[q].kind
           /\ req'[q].user = req[q].user /\ req'[q].client = req[q].client
    BY <1>0, <2>3, OvertakeFields
  <2>5. ASSUME NEW q \in Requests PROVE Fits(req'[q])
    BY <2>3, <2>4, DoneFits DEF RequestsFit, Fits, Throttled
  <2> QED BY <2>5 DEF RequestsFit, Fits, Throttled
<1> QED BY <1>1, <1>2, <1>3, <1>4, <1>5, <1>6, <1>7, <1>8, <1>9, <1>10, <1>11,
           <1>12, <1>13 DEF Steps

\* What is known of the requests is kept by every step.
LEMMA RequestsFitKept ==
    ASSUME AccountsAssumption, Inv, RequestsFit, [AccountsNext]_vars
    PROVE  RequestsFit'
<1>0. Typed
  BY DEF Inv
<1>1. ASSUME req' = req PROVE RequestsFit'
  BY <1>1 DEF RequestsFit, Fits, Throttled
<1>2. ASSUME NEW r \in Requests, Arrivals(r) PROVE RequestsFit'
  BY <1>0, <1>1, <1>2, ArrivingFits DEF Arrivals, Logout, AuthStatus
<1>3. ASSUME NEW r \in Requests, Steps(r) PROVE RequestsFit'
  BY <1>3, StepsFit
<1>4. CASE Expire \/ Tick \/ UNCHANGED vars
  BY <1>1, <1>4 DEF Expire, Tick, vars
<1>5. CASE Restart
  <2>1. \A r \in Requests : req'[r] = Done
    BY <1>5 DEF Restart
  <2> QED BY <2>1, DoneFits DEF RequestsFit, Fits, Throttled
<1> QED BY <1>2, <1>3, <1>4, <1>5 DEF AccountsNext

-----------------------------------------------------------------------------
(* Sessions refer to profiles, and tokens are not shared.                  *)

\* Sessions may go and profiles may come.
LEMMA FewerReferred ==
    ASSUME Referred, rows' \subseteq rows, profile \subseteq profile'
    PROVE  Referred'
BY DEF Referred

\* A step that changes a session in what is neither its user nor its token.
LEMMA RewrittenReferred ==
    ASSUME Referred, profile' = profile, NEW f,
           \A s \in rows : f[s].user = s.user /\ f[s].token = s.token,
           rows' = {f[s] : s \in rows}
    PROVE  Referred'
BY DEF Referred

\* What is known of the tables is kept by every step.
LEMMA RowsReferred ==
    ASSUME AccountsAssumption, Inv, RequestsFit, Referred, Writers, Settled, [AccountsNext]_vars
    PROVE  Referred' /\ Writers' /\ Settled'
<1>0. Typed /\ Named /\ rows \subseteq Session /\ Members \subseteq Users
  BY DEF Inv, Typed, AccountsAssumption
<1>1. ASSUME rows' \subseteq rows, UNCHANGED <<profile, required, writer>>
      PROVE  Referred' /\ Writers' /\ Settled'
  BY <1>1, FewerReferred DEF Writers, Settled
<1>2. ASSUME NEW r \in Requests, Arrivals(r) PROVE Referred' /\ Writers' /\ Settled'
  <2>1. rows' \subseteq rows /\ UNCHANGED <<profile, required, writer>>
    BY <1>2, SweptKept
       DEF Arrivals, Login, Signup, ChangePassword, LogoutEverywhere, ManageUser, Arrive,
           Logout, AuthStatus, tables
  <2> QED BY <1>1, <2>1
<1>3. ASSUME NEW r \in Requests,
             \/ Guard(r) \/ Fail(r) \/ Reset(r) \/ ReadCredential(r) \/ Verify(r)
             \/ Lookup(r) \/ CheckUnclaimed(r) \/ WhoAmI(r) \/ Revoke(r) \/ Gate(r)
      PROVE  Referred' /\ Writers' /\ Settled'
  <2>1. rows' \subseteq rows /\ UNCHANGED <<profile, required, writer>>
    BY <1>3, SweptKept
       DEF Guard, Fail, Reset, ReadCredential, Verify, Lookup, CheckUnclaimed, WhoAmI,
           Revoke, Gate, tables
  <2> QED BY <1>1, <2>1
<1>4. ASSUME NEW r \in Requests, CreateProfile(r) \/ CreateUser(r)
      PROVE  Referred' /\ Writers' /\ Settled'
  <2>1. /\ profile' = profile \/ profile' = profile \cup {req[r].user}
        /\ UNCHANGED <<rows, required, writer>> /\ req[r].at \in {"profile", "act"}
    BY <1>4 DEF CreateProfile, CreateUser
  <2>2. req[r].user \in Members
    BY <2>1 DEF RequestsFit, Fits
  <2> QED BY <2>1, <2>2, FewerReferred DEF Writers, Settled
<1>5. ASSUME NEW r \in Requests, Issue(r) PROVE Referred' /\ Writers' /\ Settled'
  <2> DEFINE new == CHOOSE t \in Tokens \ TokensHeld : TRUE
             row == [token |-> new, user |-> req[r].user, expired |-> FALSE,
                     stale |-> req[r].stale, straddled |-> req[r].straddled]
  <2>1. new \notin {s.token : s \in rows} /\ row.token = new /\ row.user = req[r].user
    BY <1>5 DEF Issue, TokensHeld
  <2>2. /\ rows' = rows \/ (rows' = rows \cup {row} /\ req[r].user \in profile)
        /\ UNCHANGED <<profile, required, writer>>
    BY <1>5 DEF Issue
  <2> HIDE DEF row, new
  <2>3. Referred'
    BY <2>1, <2>2 DEF Referred
  <2> QED BY <2>2, <2>3 DEF Writers, Settled
<1>6. ASSUME NEW r \in Requests, SetCredential(r) PROVE Referred' /\ Writers' /\ Settled'
  <2>1. CASE req[r].user \notin profile
    BY <1>1, <1>6, <2>1 DEF SetCredential
  <2>2. CASE req[r].user \in profile
    <3> DEFINE u == req[r].user
               f == [s \in rows |-> IF s.user = u THEN [s EXCEPT !.stale = TRUE] ELSE s]
    <3>1. /\ req[r].at = "set" /\ u \in Users /\ rows' = Aged(u) /\ profile' = profile
          /\ writer' = [writer EXCEPT ![u] = req[r].kind]
      BY <1>0, <1>6, <2>2, SetFields
    <3>2. required' = required
      BY <1>6 DEF SetCredential
    <3>3. req[r].kind \in {"signup", "password"}
      BY <3>1 DEF RequestsFit, Fits
    <3>4. ASSUME NEW s \in rows PROVE f[s].user = s.user /\ f[s].token = s.token
      <4>1. s \in Session
        BY <1>0
      <4>2. LET x == [s EXCEPT !.stale = TRUE] IN x.user = s.user /\ x.token = s.token
        BY <4>1, Zenon DEF Session
      <4> QED BY <4>2
    <3>5. rows' = {f[s] : s \in rows}
      BY <3>1 DEF Aged
    <3> HIDE DEF f, u
    <3>6. Referred'
      BY <3>1, <3>4, <3>5, RewrittenReferred
    <3> QED BY <3>1, <3>2, <3>3, <3>6 DEF Writers, Settled
  <2> QED BY <2>1, <2>2
<1>7. ASSUME NEW r \in Requests, DeleteUser(r) PROVE Referred' /\ Writers' /\ Settled'
  <2> DEFINE u == req[r].user
  <2>1. /\ profile' = profile \ {u} /\ rows' = rows \ OwnedBy(u) /\ required' = required
        /\ writer' = [writer EXCEPT ![u] = "nobody"]
    BY <1>7 DEF DeleteUser
  <2> HIDE DEF u
  <2> QED BY <2>1 DEF Referred, Writers, Settled, OwnedBy
<1>8. CASE Expire
  <2>1. PICK s \in rows : rows' = (rows \ {s}) \cup {[s EXCEPT !.expired = TRUE]}
    BY <1>8 DEF Expire
  <2> DEFINE f == [t \in rows |-> IF t = s THEN [s EXCEPT !.expired = TRUE] ELSE t]
  <2>2. ASSUME NEW t \in rows PROVE f[t].user = t.user /\ f[t].token = t.token
    <3>1. s \in Session
      BY <1>0
    <3>2. LET x == [s EXCEPT !.expired = TRUE] IN x.user = s.user /\ x.token = s.token
      BY <3>1, Zenon DEF Session
    <3> QED BY <3>2
  <2>3. rows' = {f[t] : t \in rows}
    BY <2>1
  <2> HIDE DEF f
  <2>4. UNCHANGED <<profile, required, writer>>
    BY <1>8 DEF Expire
  <2>5. Referred'
    BY <2>2, <2>3, <2>4, RewrittenReferred
  <2> QED BY <2>4, <2>5 DEF Writers, Settled
<1>9. CASE Tick \/ UNCHANGED vars
  BY <1>1, <1>9 DEF Tick, vars, tables
<1>10. CASE Restart
  <2>1. rows' = rows /\ profile' = profile /\ required' = required
    BY <1>10 DEF Restart, tables
  <2>2. Writers'
    BY <1>10 DEF Restart, Writers
  <2> QED BY <2>1, <2>2, FewerReferred DEF Settled
<1> QED BY <1>2, <1>3, <1>4, <1>5, <1>6, <1>7, <1>8, <1>9, <1>10 DEF AccountsNext, Steps

-----------------------------------------------------------------------------
(* The types of the throttle.                                              *)

\* The keys a request is counted under.
LEMMA KeysGiven ==
    ASSUME AccountsAssumption, Inv, RequestsFit, NEW r \in Requests, req[r].at \in Throttled
    PROVE  Key(r, "id") \in Keys /\ Key(r, "ip") \in Keys
<1>1. req[r].user \in Users
  BY DEF Inv, Named, Throttled
<1>2. req[r].client \in Clients
  BY DEF RequestsFit, Fits
<1> QED BY <1>1, <1>2 DEF Key, AccountsAssumption

\* A failure that is noted is the last of the failures, and its age is 0.
LEMMA RecordedTyped ==
    ASSUME ThrottleAssumption, NEW attempts \in Seq(0 .. Window + 1)
    PROVE  Recorded(attempts) \in Seq(0 .. Window + 1) /\ Recorded(attempts) # <<>>
<1> DEFINE Ages == 0 .. Window + 1
           all == Append(attempts, 0)
           over == {i \in DOMAIN all : \A j \in 1 .. i : all[j] > Window}
           n == Cardinality(over)
<1>0. Window \in Nat /\ 0 \in Ages
  BY DEF ThrottleAssumption
<1>1. /\ all \in Seq(Ages) /\ Len(all) = Len(attempts) + 1 /\ Len(attempts) \in Nat
      /\ DOMAIN all = 1 .. Len(all) /\ all[Len(attempts) + 1] = 0
  <2> HIDE DEF Ages
  <2>1. attempts \in Seq(Ages)
    BY DEF Ages
  <2> QED BY <1>0, <2>1
<1>2. over \in SUBSET (1 .. Len(attempts))
  <2> SUFFICES ASSUME NEW i \in over PROVE i \in 1 .. Len(attempts)
    OBVIOUS
  <2>1. i \in 1 .. Len(all) /\ \A j \in 1 .. i : all[j] > Window
    BY <1>1
  <2>2. i # Len(attempts) + 1
    <3> SUFFICES ASSUME i = Len(attempts) + 1 PROVE FALSE
      OBVIOUS
    <3>1. Len(attempts) + 1 \in 1 .. i
      BY <1>1
    <3>2. all[Len(attempts) + 1] > Window
      BY <2>1, <3>1
    <3> QED BY <1>0, <1>1, <3>2
  <2> HIDE DEF all, over
  <2> QED BY <1>1, <2>1, <2>2
<1>3. IsFiniteSet(1 .. Len(attempts)) /\ Cardinality(1 .. Len(attempts)) = Len(attempts)
  <2> DEFINE l == Len(attempts)
  <2>1. l \in Nat /\ l \in Int /\ 1 \in Int
    BY <1>1
  <2> HIDE DEF l
  <2>2. IsFiniteSet(1 .. l) /\ Cardinality(1 .. l) = IF 1 > l THEN 0 ELSE l - 1 + 1
    BY <2>1, FS_Interval, Zenon
  <2>3. (IF 1 > l THEN 0 ELSE l - 1 + 1) = l
    BY <2>1
  <2>4. IsFiniteSet(1 .. l) /\ Cardinality(1 .. l) = l
    BY <2>2, <2>3
  <2> QED BY <2>4, Zenon DEF l
<1>4. n \in Nat /\ n <= Len(attempts)
  <2>1. IsFiniteSet(over) /\ Cardinality(over) <= Len(attempts)
    <3> HIDE DEF over
    <3> QED BY <1>2, <1>3, FS_Subset
  <2> QED BY <2>1, FS_CardinalityType
<1>5. Recorded(attempts) = SubSeq(all, n + 1, Len(all))
  BY DEF Recorded
<1> HIDE DEF n, all, over
<1>6. n + 1 \in 1 .. Len(all)
  BY <1>1, <1>4
<1> HIDE DEF Ages
<1>7. /\ SubSeq(all, n + 1, Len(all)) \in Seq(Ages)
      /\ Len(SubSeq(all, n + 1, Len(all))) = Len(all) - n
  BY <1>1, <1>4, <1>6
<1>8. Len(all) - n # 0
  BY <1>1, <1>4
<1>9. SubSeq(all, n + 1, Len(all)) # <<>>
  <2>1. Len(<<>>) = 0
    OBVIOUS
  <2> QED BY <1>7, <1>8, <2>1
<1>10. Recorded(attempts) \in Seq(Ages) /\ Recorded(attempts) # <<>>
  BY <1>5, <1>7, <1>9, Zenon
<1> QED BY <1>10, Zenon DEF Ages

\* A failure that is noted keeps the types, whatever is evicted for it.
LEMMA RecordTyped ==
    ASSUME ThrottleAssumption, ThrottleTypeOK, NEW k \in Keys, RecordFailure(k)
    PROVE  ThrottleTypeOK'
<1>1. PICK gone \in Evictions :
         LET kept == Without(failures, gone)
             locks == Without(lockedFor, gone)
             attempts == Recorded(IF k \in DOMAIN kept THEN kept[k] ELSE <<>>)
         IN  /\ failures' = With(kept, k, attempts)
             /\ lockedFor' = IF Len(attempts) >= MaxFailures
                             THEN With(locks, k, Lockout) ELSE locks
  BY DEF RecordFailure
<1> DEFINE kept == Without(failures, gone)
           locks == Without(lockedFor, gone)
           before == IF k \in DOMAIN kept THEN kept[k] ELSE <<>>
           attempts == Recorded(before)
           Ages == 0 .. Window + 1
<1>2. /\ DOMAIN kept = Tracked \ gone /\ \A j \in DOMAIN kept : kept[j] = failures[j]
      /\ DOMAIN locks = DOMAIN lockedFor \ gone
      /\ \A j \in DOMAIN locks : locks[j] = lockedFor[j]
  BY DEF Without, Tracked
<1>3. before \in Seq(0 .. Window + 1)
  <2>1. CASE k \in DOMAIN kept
    <3>1. k \in Tracked /\ kept[k] = failures[k]
      <4> HIDE DEF kept
      <4> QED BY <1>2, <2>1
    <3>2. failures[k] \in Seq(0 .. Window + 1)
      BY <3>1 DEF ThrottleTypeOK
    <3> QED BY <2>1, <3>1, <3>2
  <2>2. CASE k \notin DOMAIN kept
    <3>1. before = <<>>
      <4> HIDE DEF kept
      <4> QED BY <2>2
    <3> HIDE DEF before
    <3> QED BY <3>1
  <2> QED BY <2>1, <2>2
<1>4. attempts \in Seq(0 .. Window + 1) /\ attempts # <<>>
  <2> HIDE DEF before
  <2> QED BY <1>3, RecordedTyped
<1>5. /\ failures' = With(kept, k, attempts)
      /\ lockedFor' = With(locks, k, Lockout) \/ lockedFor' = locks
  BY <1>1
<1> HIDE DEF kept, locks, attempts, before
<1>6. /\ Tracked' = (Tracked \ gone) \cup {k}
      /\ \A j \in Tracked' : failures'[j] = IF j = k THEN attempts ELSE kept[j]
  BY <1>2, <1>5 DEF With, Tracked
<1>7. /\ DOMAIN lockedFor' \subseteq DOMAIN lockedFor \cup {k}
      /\ \A j \in DOMAIN lockedFor' :
            lockedFor'[j] = Lockout \/ (j \in DOMAIN lockedFor /\ lockedFor'[j] = lockedFor[j])
  BY <1>2, <1>5 DEF With
<1>8. Lockout \in 0 .. Lockout
  BY DEF ThrottleAssumption
<1>9. \A j \in Tracked' : failures'[j] \in Seq(0 .. Window + 1) /\ failures'[j] # <<>>
  BY <1>2, <1>4, <1>6 DEF ThrottleTypeOK
<1>10. Tracked' \subseteq Keys /\ DOMAIN lockedFor' \subseteq Keys
  BY <1>6, <1>7 DEF ThrottleTypeOK
<1>11. \A j \in DOMAIN lockedFor' : lockedFor'[j] \in 0 .. Lockout
  BY <1>7, <1>8 DEF ThrottleTypeOK
<1> QED BY <1>9, <1>10, <1>11 DEF ThrottleTypeOK

\* So does the clock.
LEMMA TickTyped ==
    ASSUME ThrottleAssumption, ThrottleTypeOK, ThrottleTick
    PROVE  ThrottleTypeOK'
<1>0. Window \in Nat /\ Lockout \in Nat
  BY DEF ThrottleAssumption
<1>1. Tracked' = Tracked /\ DOMAIN lockedFor' = DOMAIN lockedFor
  BY DEF ThrottleTick, Tracked
<1>2. ASSUME NEW k \in Tracked
      PROVE  failures'[k] \in Seq(0 .. Window + 1) /\ failures'[k] # <<>>
  <2> DEFINE Ages == 0 .. Window + 1
             f == failures[k]
             older(x) == IF x > Window THEN Window + 1 ELSE x + 1
             g == [i \in 1 .. Len(f) |-> older(f[i])]
  <2>1. f \in Seq(Ages) /\ f # <<>>
    BY DEF ThrottleTypeOK
  <2>2. failures'[k] = [i \in DOMAIN f |-> older(f[i])]
    BY DEF ThrottleTick, Tracked
  <2>3. \A x \in Ages : older(x) \in Ages
    BY <1>0
  <2>4. /\ DOMAIN f = 1 .. Len(f) /\ Len(f) \in Nat \ {0}
        /\ \A i \in DOMAIN f : f[i] \in Ages
    <3> HIDE DEF Ages, f
    <3> QED BY <2>1
  <2>5. g \in [1 .. Len(f) -> Ages]
    <3> HIDE DEF older, f, Ages
    <3> QED BY <2>3, <2>4
  <2>6. failures'[k] = g
    BY <2>2, <2>4
  <2> HIDE DEF g, f, Ages
  <2>7. g \in Seq(Ages) /\ g # <<>>
    BY <2>4, <2>5
  <2> QED BY <2>6, <2>7 DEF Ages
<1>3. ASSUME NEW k \in DOMAIN lockedFor PROVE lockedFor'[k] \in 0 .. Lockout
  <2>1. lockedFor[k] \in 0 .. Lockout
    BY DEF ThrottleTypeOK
  <2>2. lockedFor'[k] = IF lockedFor[k] = 0 THEN 0 ELSE lockedFor[k] - 1
    BY DEF ThrottleTick
  <2> QED BY <1>0, <2>1, <2>2
<1> QED BY <1>1, <1>2, <1>3 DEF ThrottleTypeOK

\* And every step of the accounts.
LEMMA ThrottleTyped ==
    ASSUME AccountsAssumption, ThrottleAssumption, Inv, RequestsFit, ThrottleTypeOK,
           [AccountsNext]_vars
    PROVE  ThrottleTypeOK'
<1>1. ASSUME UNCHANGED throttleVars PROVE ThrottleTypeOK'
  BY <1>1 DEF ThrottleTypeOK, throttleVars, Tracked
<1>2. ASSUME NEW gone, failures' = Without(failures, gone),
             lockedFor' = Without(lockedFor, gone)
      PROVE  ThrottleTypeOK'
  BY <1>2 DEF ThrottleTypeOK, Without, Tracked
<1>3. ASSUME NEW r \in Requests, Fail(r) PROVE ThrottleTypeOK'
  <2>1. req[r].at \in Throttled /\ \E who \in {"id", "ip"} : RecordFailure(Key(r, who))
    BY <1>3 DEF Fail, Throttled
  <2> QED BY <2>1, KeysGiven, RecordTyped
<1>4. ASSUME NEW r \in Requests, Guard(r) \/ Reset(r) PROVE ThrottleTypeOK'
  BY <1>2, <1>4 DEF Guard, Reset, RetryAfter, Forget
<1>5. ASSUME NEW r \in Requests,
             \/ Arrivals(r) \/ ReadCredential(r) \/ Verify(r) \/ Issue(r) \/ Lookup(r)
             \/ CheckUnclaimed(r) \/ CreateProfile(r) \/ SetCredential(r) \/ WhoAmI(r)
             \/ Revoke(r) \/ Gate(r) \/ CreateUser(r) \/ DeleteUser(r)
      PROVE  ThrottleTypeOK'
  <2>1. UNCHANGED throttleVars
    BY <1>5 DEF Arrivals, Login, Signup, ChangePassword, LogoutEverywhere, ManageUser,
                Arrive, Logout, AuthStatus, ReadCredential, Verify, Issue, Lookup,
                CheckUnclaimed, CreateProfile, SetCredential, WhoAmI, Revoke, Gate,
                CreateUser, DeleteUser
  <2> QED BY <1>1, <2>1
<1>6. CASE Expire \/ UNCHANGED vars
  BY <1>1, <1>6 DEF Expire, vars
<1>7. CASE Tick
  BY <1>7, TickTyped DEF Tick
<1>8. CASE Restart
  BY <1>8 DEF Restart, ThrottleTypeOK, Tracked
<1> QED BY <1>3, <1>4, <1>5, <1>6, <1>7, <1>8 DEF AccountsNext, Steps

\* Everything is of its type, every session and every password belongs to a
\* profile, and no two sessions share a token, for any number of users, clients
\* and requests: the foreign keys of the schema, the types of the throttle's
\* table, and that a credential is written by a signup or a change of password
\* alone. auth.py:146-291, throttle.py:40-110
THEOREM AccountsTyped == AccountsSpec => []AccountsTypeOK
<1>0. ThrottleAssumption /\ AccountsAssumption
  BY ThrottleAssumption, AccountsAssumption
<1>1. AccountsInit => Types
  <2> SUFFICES ASSUME AccountsInit PROVE Types
    OBVIOUS
  <2>1. ThrottleTypeOK
    BY DEF AccountsInit, ThrottleInit, ThrottleTypeOK, Tracked
  <2>2. RequestsFit
    BY DoneFits DEF AccountsInit, RequestsFit
  <2>3. Referred /\ Writers /\ Settled
    BY DEF AccountsInit, Referred, Writers, Settled
  <2> QED BY <2>1, <2>2, <2>3 DEF Types
<1>2. Inv /\ Types /\ [AccountsNext]_vars => Types'
  <2> SUFFICES ASSUME Inv, Types, [AccountsNext]_vars PROVE Types'
    OBVIOUS
  <2>1. ThrottleTypeOK /\ RequestsFit /\ Referred /\ Writers /\ Settled
    BY DEF Types
  <2>2. RequestsFit' /\ Referred' /\ Writers' /\ Settled' /\ ThrottleTypeOK'
    BY <1>0, <2>1, RequestsFitKept, RowsReferred, ThrottleTyped
  <2> QED BY <2>2 DEF Types
<1>3. Inv /\ Types => AccountsTypeOK
  <2> SUFFICES ASSUME Inv, Types PROVE AccountsTypeOK
    OBVIOUS
  <2>1. Typed /\ Claimed /\ ThrottleTypeOK /\ Referred /\ Writers /\ Settled
    BY DEF Inv, Types
  <2> QED BY <2>1 DEF AccountsTypeOK, Typed, Claimed, Referred, Writers, Settled
<1> QED BY <1>1, <1>2, <1>3, AccountsInvariant, PTL DEF AccountsSpec
=============================================================================

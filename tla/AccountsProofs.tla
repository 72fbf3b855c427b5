--------------------------- MODULE AccountsProofs ---------------------------
(***************************************************************************)
(* Machine-checked proofs about Accounts, for every set of requests,       *)
(* e-mail addresses and identities.                                        *)
(***************************************************************************)
EXTENDS Accounts, FiniteSetTheorems, TLAPS

Ops == {"register", "login", "refresh", "logout", "exchange", "callback", "bootstrap", "create", "update",
        "assign", None}
Args == Requests \cup Emails \cup Identities \cup {None}
Opts == Emails \cup Roles \cup Changes \cup {{role} : role \in Roles} \cup {None}
Founds == Requests \cup BOOLEAN \cup (SUBSET (Roles \X Requests)) \cup {None}
Request == [op : Ops, arg : Args, opt : Opts, pc : Stages, found : Founds, role : Roles \cup {None}]
Issued == [code : Requests, identity : Identities, user : Requests]

\* Shapes of the variables.
Shape ==
  /\ req \in [Requests -> Request]
  /\ users \in [Requests -> UserRow \cup {None}]
  /\ accounts \in [Identities -> AccountRow \cup {None}]
  /\ tokens \in [Requests -> Requests \cup {None}] /\ codes \in [Requests -> Requests \cup {None}]
  /\ states \subseteq Requests
  /\ family \in [Requests -> Requests \cup {None}] /\ ended \subseteq Requests \cup {None}
  /\ issued \subseteq Issued /\ crossed \subseteq Identities

Over == {"off", "done", "refused"}

\* What a request that is under way holds: its arguments, and what it has read.
Registering(r) ==
  /\ req[r].op = "register" /\ req[r].pc \in {"lookup", "decide", "check", "insert"} /\ req[r].arg \in Emails
  /\ req[r].pc \in {"check", "insert"} => req[r].role \in Roles
LoggingIn(r) ==
  /\ req[r].op = "login" /\ req[r].pc \in {"lookup", "issue"} /\ req[r].arg \in Emails
  /\ req[r].pc = "issue" => req[r].found \in Existing
Refreshing(r) ==
  /\ req[r].op = "refresh" /\ req[r].pc \in {"pop", "load", "issue"} /\ req[r].arg \in Requests
  /\ req[r].pc # "pop" => req[r].found \in Existing
Exchanging(r) ==
  /\ req[r].op = "exchange" /\ req[r].pc \in {"pop", "load", "issue"} /\ req[r].arg \in Requests
  /\ req[r].pc # "pop" => req[r].found \in Existing
LoggingOut(r) == req[r].op = "logout" /\ req[r].pc = "pop" /\ req[r].arg \in Requests
CallingBack(r) ==
  /\ req[r].op = "callback" /\ req[r].pc \in {"pop", "identity", "email", "decide", "insert", "link", "code"}
  /\ req[r].arg \in Identities /\ req[r].opt \in Emails
  /\ req[r].pc = "insert" => req[r].role \in Roles
  /\ req[r].pc \in {"link", "code"} => req[r].found \in Existing
Bootstrapping(r) ==
  /\ req[r].op = "bootstrap" /\ req[r].pc \in {"lookup", "insert"} /\ req[r].arg \in Emails
  /\ req[r].found \in Existing \cup {None}
Creating(r) ==
  req[r].op = "create" /\ req[r].pc \in {"check", "insert"} /\ req[r].arg \in Emails /\ req[r].opt \in Roles
Updating(r) ==
  /\ req[r].op = "update" /\ req[r].pc \in {"load", "write"} /\ req[r].arg \in Existing
  /\ req[r].opt \in Changes
  /\ req[r].pc = "write" => req[r].found \in BOOLEAN
Assigning(r) ==
  /\ req[r].op = "assign" /\ req[r].pc \in {"load", "write"} /\ req[r].arg \in Existing
  /\ req[r].opt \in SUBSET Roles
  /\ req[r].pc = "write" => req[r].found \in SUBSET (Roles \X Requests)
Busy(r) ==
  \/ Registering(r) \/ LoggingIn(r) \/ Refreshing(r) \/ Exchanging(r) \/ LoggingOut(r) \/ CallingBack(r)
  \/ Bootstrapping(r) \/ Creating(r) \/ Updating(r) \/ Assigning(r)

Local == \A r \in Requests : req[r].pc \in Over \/ Busy(r)

\* Redis and oauth_accounts name existing users.
Stored ==
  /\ \A t \in Requests : tokens[t] \in Existing \cup {None} /\ codes[t] \in Existing \cup {None}
  /\ \A i \in Identities : accounts[i] # None => accounts[i].user \in Existing

Base == Shape /\ Local /\ Stored

\* A request has a user of its own only from its insert on; addresses are unique.
OwnUser ==
  /\ \A r \in Requests : users[r] # None => req[r].pc \in {"link", "code", "done", "refused"}
  /\ \A u, v \in Existing : users[u].email = users[v].email => u = v

USE AccountsAssumption DEF redis, history

-----------------------------------------------------------------------------
(* Requests and rows                                                       *)

\* Null may stand in every field.
LEMMA Null == None \in Ops /\ None \in Args /\ None \in Opts /\ None \in Founds
BY DEF Ops, Args, Opts, Founds

\* A request starts with nothing read; the others are left alone.
LEMMA StartStep ==
  ASSUME Shape, NEW r \in Requests, Start(r)
  PROVE  /\ req[r].pc = "off" /\ req' \in [Requests -> Request]
         /\ \A q \in Requests \ {r} : req'[q] = req[q]
         /\ Busy(r)'
         /\ UNCHANGED <<users, accounts, tokens, codes, family, ended, issued>>
         /\ states' \subseteq Requests /\ crossed' \subseteq Identities /\ crossed \subseteq crossed'
<1> DEFINE Begun(op, arg, opt, pc) ==
      [op |-> op, arg |-> arg, opt |-> opt, pc |-> pc, found |-> None, role |-> None]
<1>1. ASSUME NEW op, NEW arg, NEW opt, NEW pc, Begin(r, op, arg, opt, pc)
      PROVE  req' = [req EXCEPT ![r] = Begun(op, arg, opt, pc)]
  BY <1>1 DEF Begin
<1>2. ASSUME NEW op \in Ops, NEW arg \in Args, NEW opt \in Opts, NEW pc \in Stages,
             Begin(r, op, arg, opt, pc)
      PROVE  /\ req' \in [Requests -> Request] /\ req'[r] = Begun(op, arg, opt, pc)
             /\ \A q \in Requests \ {r} : req'[q] = req[q]
  <2>1. Begun(op, arg, opt, pc) \in Request
    BY Null DEF Request
  <2>2. req' = [req EXCEPT ![r] = Begun(op, arg, opt, pc)]
    BY <1>1, <1>2
  <2>3. QED BY <2>1, <2>2 DEF Shape
<1>3. Existing \subseteq Requests
  BY DEF Existing
<1>4. Idle(r)
  BY DEF Start, RegisterRequest, LoginRequest, RefreshRequest, LogoutRequest, ExchangeRequest, CallbackRequest,
         BootstrapStart, require_permission, CreateUserRequest, UpdateUserRequest, AssignRolesRequest
<1>5. Existing' = Existing
  BY <1>4 DEF Idle, Existing
<1> DEFINE Kind(op, arg, opt, pc) ==
           \/ op = "register" /\ pc = "lookup" /\ arg \in Emails
           \/ op = "login" /\ pc = "lookup" /\ arg \in Emails
           \/ op \in {"refresh", "logout", "exchange"} /\ pc = "pop" /\ arg \in Requests
           \/ op = "callback" /\ pc = "pop" /\ arg \in Identities /\ opt \in Emails
           \/ op = "bootstrap" /\ pc = "lookup" /\ arg \in Emails
           \/ op = "create" /\ pc = "check" /\ arg \in Emails /\ opt \in Roles
           \/ op = "update" /\ pc = "load" /\ arg \in Existing /\ opt \in Changes
           \/ op = "assign" /\ pc = "load" /\ arg \in Existing /\ opt \in SUBSET Roles
<1>6. \E op \in Ops, arg \in Args, opt \in Opts, pc \in Stages :
        Begin(r, op, arg, opt, pc) /\ Kind(op, arg, opt, pc)
  <2>1. ASSUME NEW email \in Emails, RegisterRequest(r, email) \/ LoginRequest(r, email)
        PROVE  <1>6!:
    BY <2>1 DEF RegisterRequest, LoginRequest, Ops, Args, Opts, Stages
  <2>2. ASSUME NEW t \in Requests, RefreshRequest(r, t) \/ LogoutRequest(r, t) \/ ExchangeRequest(r, t)
        PROVE  <1>6!:
    BY <2>2 DEF RefreshRequest, LogoutRequest, ExchangeRequest, Ops, Args, Opts, Stages
  <2>3. ASSUME NEW i \in Identities, NEW email \in Emails, CallbackRequest(r, i, email)
        PROVE  <1>6!:
    BY <2>3 DEF CallbackRequest, Ops, Args, Opts, Stages
  <2>4. CASE BootstrapStart(r)
    BY <2>4 DEF BootstrapStart, Ops, Args, Opts, Stages
  <2>5. ASSUME NEW email \in Emails, NEW role \in Roles, CreateUserRequest(r, email, role)
        PROVE  <1>6!:
    BY <2>5 DEF CreateUserRequest, Ops, Args, Opts, Stages
  <2>6. ASSUME NEW u \in Requests, NEW change \in Changes, UpdateUserRequest(r, u, change)
        PROVE  <1>6!:
    BY <2>6 DEF UpdateUserRequest, Existing, Ops, Args, Opts, Stages
  <2>7. ASSUME NEW u \in Requests, NEW role \in Roles, AssignRolesRequest(r, u, {role})
        PROVE  <1>6!:
    BY <2>7 DEF AssignRolesRequest, Existing, Ops, Args, Opts, Stages
  <2>8. QED BY <2>1, <2>2, <2>3, <2>4, <2>5, <2>6, <2>7 DEF Start
<1>11. states' \subseteq Requests /\ crossed' \subseteq Identities /\ crossed \subseteq crossed'
  BY DEF Shape, Start, RegisterRequest, LoginRequest, RefreshRequest, LogoutRequest, ExchangeRequest,
         CallbackRequest, BootstrapStart, require_permission, CreateUserRequest, UpdateUserRequest,
         AssignRolesRequest, Known
<1>7. PICK op \in Ops, arg \in Args, opt \in Opts, pc \in Stages :
        Begin(r, op, arg, opt, pc) /\ Kind(op, arg, opt, pc)
  BY <1>6
<1>8. /\ req' \in [Requests -> Request] /\ req'[r] = Begun(op, arg, opt, pc)
      /\ \A q \in Requests \ {r} : req'[q] = req[q]
  BY <1>2, <1>7
<1>9. Busy(r)'
  BY <1>5, <1>7, <1>8 DEF Busy, Registering, LoggingIn, Refreshing, Exchanging, LoggingOut, CallingBack,
                     Bootstrapping, Creating, Updating, Assigning
<1>12. QED BY <1>4, <1>8, <1>9, <1>11 DEF Idle

\* What a step does to the rows of users: nothing, an insert of its own row with a
\* free address, or an update that keeps the address.
Inserts(r, email, role, password) ==
  /\ req[r].pc = "insert" /\ ByEmail(email) = {}
  /\ users' = [users EXCEPT ![r] = NewUser(r, email, role, password)]
Updates(u, row) == row.email = users[u].email /\ users' = [users EXCEPT ![u] = row]

LEMMA UsersStep ==
  ASSUME Base, NEW r \in Requests, Step(r)
  PROVE  \/ UNCHANGED users
         \/ \E email \in Emails, role \in Roles, password \in BOOLEAN : Inserts(r, email, role, password)
         \/ \E u \in Existing, row \in UserRow : Updates(u, row)
<1> USE DEF Base
<1>1. \A q \in Requests : req[q].pc \notin Over => Busy(q)
  BY DEF Local
<1>2. CASE create_user(r)
  <2>1. Registering(r) \/ Creating(r)
    BY <1>1, <1>2 DEF create_user, Over, Busy, LoggingIn, Refreshing, Exchanging, LoggingOut, CallingBack,
                      Bootstrapping, Updating, Assigning
  <2> DEFINE role == IF req[r].op = "create" THEN req[r].opt ELSE req[r].role
  <2>2. role \in Roles /\ req[r].arg \in Emails /\ req[r].pc = "insert"
    BY <2>1, <1>2 DEF create_user, Registering, Creating
  <2>3. UNCHANGED users \/ Inserts(r, req[r].arg, role, TRUE)
    BY <1>2, <2>2 DEF create_user, InsertUser, Reject, Inserts
  <2> HIDE DEF role
  <2>4. QED BY <2>2, <2>3
<1>3. CASE create_user_without_password(r)
  <2>1. CallingBack(r)
    BY <1>1, <1>3 DEF create_user_without_password, Over, Busy, Registering, Creating, LoggingIn, Refreshing,
                      Exchanging, LoggingOut, Bootstrapping, Updating, Assigning
  <2>2. req[r].role \in Roles /\ req[r].opt \in Emails /\ req[r].pc = "insert"
    BY <2>1, <1>3 DEF create_user_without_password, CallingBack
  <2>3. UNCHANGED users \/ Inserts(r, req[r].opt, req[r].role, FALSE)
    BY <1>3, <2>2 DEF create_user_without_password, InsertUser, Reject, Inserts
  <2>4. QED BY <2>2, <2>3
<1>4. CASE bootstrap_admin_user(r)
  <2>1. Bootstrapping(r)
    BY <1>1, <1>4 DEF bootstrap_admin_user, Over, Busy, Registering, Creating, LoggingIn, Refreshing,
                      Exchanging, LoggingOut, CallingBack, Updating, Assigning
  <2>2. req[r].arg \in Emails /\ req[r].pc = "insert" /\ req[r].found \in Existing \cup {None}
    BY <2>1, <1>4 DEF bootstrap_admin_user, Bootstrapping
  <2>3. CASE req[r].found = None
    <3>1. UNCHANGED users \/ Inserts(r, req[r].arg, "admin", TRUE)
      BY <1>4, <2>2, <2>3 DEF bootstrap_admin_user, InsertUser, Reject, Inserts
    <3>2. QED BY <2>2, <3>1 DEF Roles
  <2>4. CASE req[r].found # None
    <3> DEFINE u == req[r].found
               roles == IF "admin" \in RoleNames(u) THEN users[u].roles ELSE users[u].roles \cup {<<"admin", r>>}
               row == [email |-> users[u].email, active |-> TRUE, password |-> TRUE, roles |-> roles]
    <3>1. u \in Existing /\ u \in Requests /\ users[u] \in UserRow
      BY <2>2, <2>4 DEF Existing, Shape
    <3>3. roles \in SUBSET (Roles \X Requests)
      BY <3>1 DEF UserRow, Roles
    <3>4. users' = [users EXCEPT ![u] = row]
      BY <1>4, <2>4, <3>1 DEF bootstrap_admin_user, Shape
    <3>5. row \in UserRow /\ row.email = users[u].email
      BY <3>1, <3>3 DEF UserRow
    <3> HIDE DEF row, u
    <3>6. QED BY <3>1, <3>4, <3>5 DEF Updates
  <2>5. QED BY <2>3, <2>4
<1>5. CASE update_user(r)
  <2>1. Updating(r)
    BY <1>1, <1>5 DEF update_user, Over, Busy, Registering, Creating, LoggingIn, Refreshing,
                      Exchanging, LoggingOut, CallingBack, Bootstrapping, Assigning
  <2> DEFINE u == req[r].arg
             row == [users[u] EXCEPT !.active = WrittenActive(r)]
  <2>2. u \in Existing /\ u \in Requests /\ users[u] \in UserRow /\ req[r].found \in BOOLEAN
    BY <1>5, <2>1 DEF update_user, Updating, Existing, Shape
  <2>3. WrittenActive(r) \in BOOLEAN
    BY <2>2 DEF WrittenActive
  <2>4. row \in UserRow /\ row.email = users[u].email
    BY <2>2, <2>3 DEF UserRow
  <2>5. users' = [users EXCEPT ![u] = row]
    BY <1>5, <2>2 DEF update_user, Shape
  <2> HIDE DEF row, u
  <2>6. QED BY <2>2, <2>4, <2>5 DEF Updates
<1>6. CASE assign_roles(r)
  <2>1. Assigning(r)
    BY <1>1, <1>6 DEF assign_roles, Over, Busy, Registering, Creating, LoggingIn, Refreshing,
                      Exchanging, LoggingOut, CallingBack, Bootstrapping, Updating
  <2> DEFINE u == req[r].arg
             roles == KeptRoles(r) \cup {<<role, r>> : role \in req[r].opt}
             row == [users[u] EXCEPT !.roles = roles]
  <2>2. u \in Existing /\ u \in Requests /\ users[u] \in UserRow /\ req[r].opt \in SUBSET Roles
    BY <1>6, <2>1 DEF assign_roles, Assigning, Existing, Shape
  <2>3. roles \in SUBSET (Roles \X Requests)
    BY <2>2 DEF KeptRoles, UserRow
  <2>4. row \in UserRow /\ row.email = users[u].email
    BY <2>2, <2>3 DEF UserRow
  <2>5. UNCHANGED users \/ users' = [users EXCEPT ![u] = row]
    BY <1>6, <2>2 DEF assign_roles, Reject, Shape
  <2> HIDE DEF row, u
  <2>6. QED BY <2>2, <2>4, <2>5 DEF Updates
<1>7. QED
  BY <1>2, <1>3, <1>4, <1>5, <1>6
     DEF Step, CheckEmail, Reject, DecideRole, BootstrapRead, login, PopRefreshToken, PopExchangeCode, LoadUser,
         _issue_tokens, logout, PopState, get_user_by_external_identity, get_user_by_email,
         link_external_identity, CreateExchangeCode, LoadForChange

\* A request that goes on keeps its operation and arguments; one that has answered
\* keeps nothing; the others are left alone.
OthersAlone(r) == req' \in [Requests -> Request] /\ \A q \in Requests \ {r} : req'[q] = req[q]
Moved(r, pc, found, role) ==
  /\ OthersAlone(r)
  /\ req'[r].op = req[r].op /\ req'[r].arg = req[r].arg /\ req'[r].opt = req[r].opt
  /\ req'[r].pc = pc /\ req'[r].found = found /\ req'[r].role = role

LEMMA Moves ==
  ASSUME Shape, NEW r \in Requests, NEW pc \in Stages, NEW found \in Founds, NEW role \in Roles \cup {None}
  PROVE  /\ Goto(r, pc) => Moved(r, pc, req[r].found, req[r].role)
         /\ req' = [req EXCEPT ![r].pc = pc, ![r].found = found] => Moved(r, pc, found, req[r].role)
         /\ req' = [req EXCEPT ![r].role = role, ![r].pc = pc] => Moved(r, pc, req[r].found, role)
         /\ req' = [req EXCEPT ![r].pc = pc, ![r].found = None, ![r].role = None] => Moved(r, pc, None, None)
         /\ Done(r, pc) => OthersAlone(r) /\ req'[r].pc = pc
<1> USE DEF Moved, OthersAlone
<1>1. req \in [Requests -> Request] /\ req[r] \in Request
  BY DEF Shape
<1>2. ASSUME Goto(r, pc)
      PROVE  Moved(r, pc, req[r].found, req[r].role)
  BY <1>1, <1>2 DEF Goto, Request
<1>3. ASSUME req' = [req EXCEPT ![r].pc = pc, ![r].found = found]
      PROVE  Moved(r, pc, found, req[r].role)
  BY <1>1, <1>3 DEF Request
<1>4. ASSUME req' = [req EXCEPT ![r].role = role, ![r].pc = pc]
      PROVE  Moved(r, pc, req[r].found, role)
  BY <1>1, <1>4 DEF Request
<1>5. ASSUME req' = [req EXCEPT ![r].pc = pc, ![r].found = None, ![r].role = None]
      PROVE  Moved(r, pc, None, None)
  BY <1>1, <1>5, Null DEF Request
<1>6. ASSUME Done(r, pc)
      PROVE  OthersAlone(r) /\ req'[r].pc = pc
  <2>1. [Fresh EXCEPT !.pc = pc] \in Request /\ [Fresh EXCEPT !.pc = pc].pc = pc
    BY Null DEF Fresh, Request
  <2>2. QED BY <1>1, <1>6, <2>1 DEF Done
<1>7. QED BY <1>2, <1>3, <1>4, <1>5, <1>6

\* A request that is under way does one operation.
LEMMA BusyOp ==
  ASSUME Base, NEW r \in Requests, req[r].pc \notin Over
  PROVE  /\ Busy(r)
         /\ req[r].op = "register" => Registering(r)
         /\ req[r].op = "login" => LoggingIn(r)
         /\ req[r].op = "refresh" => Refreshing(r)
         /\ req[r].op = "exchange" => Exchanging(r)
         /\ req[r].op = "logout" => LoggingOut(r)
         /\ req[r].op = "callback" => CallingBack(r)
         /\ req[r].op = "bootstrap" => Bootstrapping(r)
         /\ req[r].op = "create" => Creating(r)
         /\ req[r].op = "update" => Updating(r)
         /\ req[r].op = "assign" => Assigning(r)
<1>1. Busy(r)
  BY DEF Base, Local
<1>2. QED BY <1>1 DEF Busy, Registering, LoggingIn, Refreshing, Exchanging, LoggingOut, CallingBack,
                      Bootstrapping, Creating, Updating, Assigning

\* A request goes on with the work it was given.
Continues(r) ==
  Busy(r)' /\ req'[r].op = req[r].op /\ req'[r].arg = req[r].arg /\ req'[r].opt = req[r].opt

\* Every step of a request leads from one of its stages to the next or to its answer.
LEMMA StepLocal ==
  ASSUME Base, NEW r \in Requests, Step(r), Existing \subseteq Existing'
  PROVE  /\ req[r].pc \notin Over /\ OthersAlone(r)
         /\ req'[r].pc \in {"done", "refused"} \/ Continues(r)
<1> USE DEF Over
<1>1. Shape /\ req[r].pc \in Stages /\ req[r].found \in Founds /\ req[r].role \in Roles \cup {None}
  BY DEF Base, Shape, Request
<1>2. Existing \subseteq Requests /\ Requests \subseteq Founds
  BY DEF Existing, Founds
<1>3. "done" \in Stages /\ "refused" \in Stages /\ None \in Founds
  BY Null DEF Stages
<1>4. ASSUME Done(r, "done") \/ Done(r, "refused")
      PROVE  OthersAlone(r) /\ req'[r].pc \in {"done", "refused"}
  BY <1>1, <1>3, <1>4, Moves
<1>5. CASE CheckEmail(r)
  <2>1. req[r].pc \notin Over /\ (Registering(r) \/ Creating(r))
    BY <1>5, BusyOp DEF CheckEmail
  <2>2. CASE Reject(r)
    BY <2>1, <2>2, <1>4 DEF Reject
  <2>3. CASE Goto(r, "decide") /\ req[r].op = "register"
    <3>1. Moved(r, "decide", req[r].found, req[r].role)
      BY <1>1, <2>3, Moves DEF Stages
    <3>2. QED BY <2>1, <2>3, <3>1 DEF Moved, Continues, Busy, Registering, Creating
  <2>4. CASE Goto(r, "insert") /\ req[r].pc = "check"
    <3>1. Moved(r, "insert", req[r].found, req[r].role)
      BY <1>1, <2>4, Moves DEF Stages
    <3>2. QED BY <2>1, <2>4, <3>1 DEF Moved, Continues, Busy, Registering, Creating
  <2>5. QED BY <1>5, <2>2, <2>3, <2>4 DEF CheckEmail
<1>6. CASE DecideRole(r)
  <2>1. req[r].pc \notin Over /\ (Registering(r) \/ CallingBack(r))
    BY <1>6, BusyOp DEF DecideRole, Busy, LoggingIn, Refreshing, Exchanging, LoggingOut, Bootstrapping, Creating,
                        Updating, Assigning
  <2>2. FirstRole \in Roles
    BY DEF FirstRole, Roles
  <2>3. Moved(r, IF req[r].op = "register" THEN "check" ELSE "insert", req[r].found, FirstRole)
    BY <1>1, <1>6, <2>2, Moves DEF DecideRole, Stages
  <2>4. QED BY <1>6, <2>1, <2>2, <2>3 DEF DecideRole, Moved, Continues, Busy, Registering, CallingBack
<1>7. CASE create_user(r) \/ bootstrap_admin_user(r) \/ logout(r) \/ update_user(r) \/ assign_roles(r)
  BY <1>7, <1>4 DEF create_user, InsertUser, Reject, bootstrap_admin_user, logout, update_user, assign_roles
<1>8. CASE create_user_without_password(r)
  <2>1. CallingBack(r)
    BY <1>8, BusyOp DEF create_user_without_password
  <2>2. CASE Reject(r)
    BY <1>8, <2>2, <1>4 DEF Reject, create_user_without_password
  <2>3. CASE /\ users' = [users EXCEPT ![r] = NewUser(r, req[r].opt, req[r].role, FALSE)]
             /\ req' = [req EXCEPT ![r].pc = "link", ![r].found = r]
    <3>1. Moved(r, "link", r, req[r].role)
      BY <1>1, <1>2, <2>3, Moves DEF Stages
    <3>2. NewUser(r, req[r].opt, req[r].role, FALSE) \in UserRow
      BY <1>8, <2>1 DEF CallingBack, create_user_without_password, NewUser, UserRow
    <3>3. r \in Existing'
      BY <1>1, <2>3, <3>2 DEF Shape, Existing
    <3>4. QED BY <1>8, <2>1, <3>1, <3>3 DEF Moved, Continues, Busy, CallingBack, create_user_without_password
  <2>4. QED BY <1>8, <2>2, <2>3 DEF create_user_without_password, InsertUser
<1>9. CASE BootstrapRead(r)
  <2>1. Bootstrapping(r)
    BY <1>9, BusyOp DEF BootstrapRead
  <2>2. CASE Goto(r, "insert")
    <3>1. Moved(r, "insert", req[r].found, req[r].role)
      BY <1>1, <2>2, Moves DEF Stages
    <3>2. QED BY <1>9, <2>1, <3>1 DEF BootstrapRead, Moved, Continues, Busy, Bootstrapping
  <2>3. ASSUME NEW u \in ByEmail(req[r].arg), req' = [req EXCEPT ![r].pc = "insert", ![r].found = u]
        PROVE  OthersAlone(r) /\ Continues(r)
    <3>1. u \in Existing
      BY DEF ByEmail
    <3>2. Moved(r, "insert", u, req[r].role)
      BY <1>1, <1>2, <2>3, <3>1, Moves DEF Stages
    <3>3. QED BY <1>9, <2>1, <3>1, <3>2 DEF BootstrapRead, Moved, Continues, Busy, Bootstrapping
  <2>4. QED BY <1>9, <2>2, <2>3 DEF BootstrapRead
<1>10. CASE login(r)
  <2>1. LoggingIn(r)
    BY <1>10, BusyOp DEF login
  <2>2. ASSUME NEW u \in get_user_by_email_with_password(req[r].arg),
               req' = [req EXCEPT ![r].pc = "issue", ![r].found = u]
        PROVE  OthersAlone(r) /\ Continues(r)
    <3>1. u \in Existing
      BY DEF ByEmail, get_user_by_email_with_password
    <3>2. Moved(r, "issue", u, req[r].role)
      BY <1>1, <1>2, <2>2, <3>1, Moves DEF Stages
    <3>3. QED BY <1>10, <2>1, <3>1, <3>2 DEF login, Moved, Continues, Busy, LoggingIn
  <2>3. QED BY <1>4, <1>10, <2>2 DEF login
<1>11. CASE PopRefreshToken(r)
  <2>1. Refreshing(r)
    BY <1>11, BusyOp DEF PopRefreshToken
  <2> DEFINE u == tokens[req[r].arg]
  <2>2. u \in Existing \cup {None}
    BY <2>1 DEF Refreshing, Base, Stored
  <2>3. CASE u # None /\ req' = [req EXCEPT ![r].pc = "load", ![r].found = u]
    <3>1. u \in Existing
      BY <2>2, <2>3
    <3>2. Moved(r, "load", u, req[r].role)
      BY <1>1, <1>2, <2>3, <3>1, Moves DEF Stages
    <3> HIDE DEF u
    <3>3. QED BY <1>11, <2>1, <3>1, <3>2 DEF PopRefreshToken, Moved, Continues, Busy, Refreshing
  <2>4. QED BY <1>4, <1>11, <2>3 DEF PopRefreshToken
<1>12. CASE PopExchangeCode(r)
  <2>1. Exchanging(r)
    BY <1>12, BusyOp DEF PopExchangeCode
  <2> DEFINE u == codes[req[r].arg]
  <2>2. u \in Existing \cup {None}
    BY <2>1 DEF Exchanging, Base, Stored
  <2>3. CASE u # None /\ req' = [req EXCEPT ![r].pc = "load", ![r].found = u]
    <3>1. u \in Existing
      BY <2>2, <2>3
    <3>2. Moved(r, "load", u, req[r].role)
      BY <1>1, <1>2, <2>3, <3>1, Moves DEF Stages
    <3> HIDE DEF u
    <3>3. QED BY <1>12, <2>1, <3>1, <3>2 DEF PopExchangeCode, Moved, Continues, Busy, Exchanging
  <2>4. QED BY <1>4, <1>12, <2>3 DEF PopExchangeCode
<1>13. CASE LoadUser(r)
  <2>1. Refreshing(r) \/ Exchanging(r)
    BY <1>13, BusyOp DEF LoadUser
  <2>2. CASE Goto(r, "issue")
    <3>1. Moved(r, "issue", req[r].found, req[r].role)
      BY <1>1, <2>2, Moves DEF Stages
    <3>2. QED BY <1>13, <2>1, <3>1 DEF LoadUser, Moved, Continues, Busy, Refreshing, Exchanging
  <2>3. QED BY <1>4, <1>13, <2>2 DEF LoadUser
<1>14. CASE _issue_tokens(r) \/ CreateExchangeCode(r)
  <2>1. Moved(r, "done", None, None)
    BY <1>1, <1>3, <1>14, Moves DEF _issue_tokens, CreateExchangeCode
  <2>2. QED BY <1>14, <2>1 DEF Moved, _issue_tokens, CreateExchangeCode
<1>15. CASE PopState(r) \/ get_user_by_external_identity(r) \/ get_user_by_email(r) \/ link_external_identity(r)
  <2>1. CallingBack(r)
    BY <1>15, BusyOp DEF PopState, get_user_by_external_identity, get_user_by_email, link_external_identity
  <2>2. ASSUME NEW pc \in {"identity", "email", "decide"}, Goto(r, pc)
        PROVE  OthersAlone(r) /\ Continues(r)
    <3>1. pc \in Stages
      BY DEF Stages
    <3>2. Moved(r, pc, req[r].found, req[r].role)
      BY <1>1, <2>2, <3>1, Moves
    <3>3. QED BY <1>15, <2>1, <3>2 DEF Moved, Continues, Busy, CallingBack
  <2>3. CASE Goto(r, "code") /\ req[r].pc = "link"
    <3>1. Moved(r, "code", req[r].found, req[r].role)
      BY <1>1, <2>3, Moves DEF Stages
    <3>2. QED BY <2>1, <2>3, <3>1 DEF Moved, Continues, Busy, CallingBack
  <2>4. ASSUME NEW u \in Existing, NEW pc \in {"code", "link"},
               req' = [req EXCEPT ![r].pc = pc, ![r].found = u]
        PROVE  OthersAlone(r) /\ Continues(r)
    <3>1. pc \in Stages
      BY DEF Stages
    <3>2. Moved(r, pc, u, req[r].role)
      BY <1>1, <1>2, <2>4, <3>1, Moves
    <3>3. QED BY <2>1, <3>2 DEF Moved, Continues, Busy, CallingBack
  <2>5. CASE get_user_by_external_identity(r)
    <3>1. accounts[req[r].arg] # None => accounts[req[r].arg].user \in Existing
      BY <2>1 DEF CallingBack, Base, Stored
    <3>2. QED BY <1>4, <2>1, <2>2, <2>4, <2>5, <3>1 DEF get_user_by_external_identity, CallingBack
  <2>6. CASE get_user_by_email(r)
    <3>1. ByEmail(req[r].opt) \subseteq Existing
      BY DEF ByEmail
    <3>2. QED BY <2>1, <2>2, <2>4, <2>6, <3>1 DEF get_user_by_email, CallingBack
  <2>7. CASE PopState(r) \/ link_external_identity(r)
    BY <1>4, <2>1, <2>2, <2>3, <2>7 DEF PopState, link_external_identity, Reject, CallingBack
  <2>8. QED BY <1>15, <2>5, <2>6, <2>7
<1>16. CASE LoadForChange(r)
  <2> DEFINE row == users[req[r].arg]
             seen == IF req[r].op = "update" THEN row.active ELSE row.roles
  <2>1. (Updating(r) \/ Assigning(r)) /\ req[r].pc \notin Over
    BY <1>16, BusyOp DEF LoadForChange
  <2>2. row \in UserRow
    BY <1>1, <2>1 DEF Updating, Assigning, Existing, Shape
  <2>3. row.active \in BOOLEAN /\ row.roles \in SUBSET (Roles \X Requests)
    BY <2>2 DEF UserRow
  <2>4. seen \in Founds
    BY <2>3 DEF Founds
  <2>5. req' = [req EXCEPT ![r].pc = "write", ![r].found = seen]
    BY <1>16 DEF LoadForChange
  <2> HIDE DEF seen
  <2>6. Moved(r, "write", seen, req[r].role)
    BY <1>1, <2>4, <2>5, Moves DEF Stages
  <2> USE DEF seen
  <2> HIDE DEF row
  <2>7. CASE Updating(r)
    BY <2>1, <2>3, <2>6, <2>7 DEF Moved, Continues, Busy, Updating
  <2>8. CASE Assigning(r)
    BY <2>1, <2>3, <2>6, <2>8 DEF Moved, Continues, Busy, Assigning
  <2>9. QED BY <2>1, <2>7, <2>8
<1>17. QED BY <1>5, <1>6, <1>7, <1>8, <1>9, <1>10, <1>11, <1>12, <1>13, <1>14, <1>15, <1>16 DEF Step

\* Users stay, and keep their address; an address has one user.
LEMMA UsersGrow ==
  ASSUME Base, OwnUser, Next
  PROVE  /\ users' \in [Requests -> UserRow \cup {None}]
         /\ Existing \subseteq Existing'
         /\ \A u \in Existing : users'[u].email = users[u].email
         /\ \A u, v \in Existing' : users'[u].email = users'[v].email => u = v
<1> DEFINE Grown == /\ users' \in [Requests -> UserRow \cup {None}]
                    /\ Existing \subseteq Existing'
                    /\ \A u \in Existing : users'[u].email = users[u].email
                    /\ \A u, v \in Existing' : users'[u].email = users'[v].email => u = v
<1>1. users \in [Requests -> UserRow \cup {None}] /\ Existing \subseteq Requests
  BY DEF Base, Shape, Existing
<1>2. CASE UNCHANGED users
  BY <1>1, <1>2 DEF Existing, OwnUser
<1>3. ASSUME NEW r \in Requests, NEW email \in Emails, NEW role \in Roles, NEW password \in BOOLEAN,
             Inserts(r, email, role, password)
      PROVE  Grown
  <2> DEFINE row == NewUser(r, email, role, password)
  <2>1. row \in UserRow /\ row.email = email
    BY DEF NewUser, UserRow
  <2>2. users[r] = None /\ users' = [users EXCEPT ![r] = row] /\ ByEmail(email) = {}
    BY <1>3 DEF Inserts, OwnUser
  <2> HIDE DEF row
  <2>3. Existing' = Existing \cup {r} /\ \A u \in Existing : u # r /\ users'[u] = users[u]
    BY <1>1, <2>1, <2>2 DEF Existing
  <2>4. users'[r] = row /\ \A u \in Existing : users[u].email # email
    BY <1>1, <2>2 DEF ByEmail
  <2>5. \A u, v \in Existing' : users'[u].email = users'[v].email => u = v
    BY <2>1, <2>3, <2>4 DEF OwnUser
  <2>6. QED BY <1>1, <2>1, <2>2, <2>3, <2>5
<1>4. ASSUME NEW u \in Existing, NEW row \in UserRow, Updates(u, row)
      PROVE  Grown
  <2>1. Existing' = Existing
    BY <1>1, <1>4 DEF Updates, Existing
  <2>2. \A v \in Existing : users'[v].email = users[v].email
    BY <1>1, <1>4 DEF Updates
  <2>3. QED BY <1>1, <1>4, <2>1, <2>2 DEF Updates, OwnUser
<1>5. CASE \E r \in Requests : Start(r)
  BY <1>2, <1>5, StartStep DEF Base
<1>6. CASE \E r \in Requests : Step(r)
  BY <1>2, <1>3, <1>4, <1>6, UsersStep
<1>7. QED BY <1>5, <1>6 DEF Next

\* The requests that do not move keep what they hold.
LEMMA LocalPreserved ==
  ASSUME Base, OwnUser, Next
  PROVE  Local' /\ req' \in [Requests -> Request]
<1>1. Existing \subseteq Existing'
  BY UsersGrow
<1>2. PICK r \in Requests : Start(r) \/ Step(r)
  BY DEF Next
<1>3. /\ req' \in [Requests -> Request] /\ \A q \in Requests \ {r} : req'[q] = req[q]
      /\ req'[r].pc \in Over \/ Busy(r)'
  <2>1. CASE Start(r)
    BY <2>1, StartStep DEF Base
  <2>2. CASE Step(r)
    BY <2>2, <1>1, StepLocal DEF OthersAlone, Over, Continues
  <2>3. QED BY <1>2, <2>1, <2>2
<1>4. ASSUME NEW q \in Requests \ {r}
      PROVE  req'[q].pc \in Over \/ Busy(q)'
  <2>1. req[q].pc \in Over \/ Busy(q)
    BY DEF Base, Local
  <2>2. req'[q] = req[q]
    BY <1>3
  <2>3. CASE req[q].pc \in Over
    BY <2>2, <2>3
  <2>4. CASE Busy(q)
    <3>1. CASE Registering(q) \/ LoggingOut(q) \/ Creating(q)
      BY <2>2, <3>1 DEF Registering, LoggingOut, Creating, Busy
    <3>2. CASE LoggingIn(q) \/ Refreshing(q) \/ Exchanging(q)
      BY <1>1, <2>2, <3>2 DEF LoggingIn, Refreshing, Exchanging, Busy
    <3>3. CASE CallingBack(q) \/ Bootstrapping(q)
      BY <1>1, <2>2, <3>3 DEF CallingBack, Bootstrapping, Busy
    <3>4. CASE Updating(q) \/ Assigning(q)
      BY <1>1, <2>2, <3>4 DEF Updating, Assigning, Busy
    <3>5. QED BY <2>4, <3>1, <3>2, <3>3, <3>4 DEF Busy
  <2>5. QED BY <2>1, <2>3, <2>4
<1>5. QED BY <1>3, <1>4 DEF Local

\* What the steps other than the named ones leave alone.
LEMMA TablesStay ==
  ASSUME NEW r \in Requests, Step(r)
  PROVE  /\ UNCHANGED tokens \/ PopRefreshToken(r) \/ _issue_tokens(r) \/ logout(r)
         /\ UNCHANGED family \/ _issue_tokens(r)
         /\ UNCHANGED ended \/ logout(r)
         /\ UNCHANGED codes \/ PopExchangeCode(r) \/ CreateExchangeCode(r)
         /\ UNCHANGED issued \/ CreateExchangeCode(r)
         /\ UNCHANGED accounts \/ link_external_identity(r)
         /\ UNCHANGED states \/ PopState(r)
         /\ UNCHANGED crossed
BY DEF Step, CheckEmail, Reject, DecideRole, create_user, create_user_without_password, InsertUser, BootstrapRead,
       bootstrap_admin_user, login, PopRefreshToken, PopExchangeCode, LoadUser, _issue_tokens, logout, PopState,
       get_user_by_external_identity, get_user_by_email, link_external_identity, CreateExchangeCode,
       LoadForChange, update_user, assign_roles

\* Who issues tokens or codes has the user they are for.
LEMMA Issuers ==
  ASSUME Base, NEW r \in Requests
  PROVE  /\ _issue_tokens(r) => /\ req[r].found \in Existing
                                /\ req[r].op = "refresh" => req[r].arg \in Requests
         /\ CreateExchangeCode(r) => req[r].found \in Existing /\ req[r].arg \in Identities
         /\ link_external_identity(r) => /\ req[r].found \in Existing /\ req[r].arg \in Identities
                                         /\ req[r].opt \in Emails
         /\ PopRefreshToken(r) \/ logout(r) \/ PopExchangeCode(r) => req[r].arg \in Requests
<1> USE DEF Over
<1>1. ASSUME _issue_tokens(r)
      PROVE  req[r].found \in Existing /\ (req[r].op = "refresh" => req[r].arg \in Requests)
  <2>1. LoggingIn(r) \/ Refreshing(r) \/ Exchanging(r)
    BY <1>1, BusyOp DEF _issue_tokens, Busy, Registering, LoggingOut, CallingBack, Bootstrapping, Creating,
                        Updating, Assigning
  <2>2. QED BY <1>1, <2>1 DEF _issue_tokens, LoggingIn, Refreshing, Exchanging
<1>2. ASSUME CreateExchangeCode(r)
      PROVE  req[r].found \in Existing /\ req[r].arg \in Identities
  BY <1>2, BusyOp DEF CreateExchangeCode, CallingBack
<1>3. ASSUME link_external_identity(r)
      PROVE  req[r].found \in Existing /\ req[r].arg \in Identities /\ req[r].opt \in Emails
  BY <1>3, BusyOp DEF link_external_identity, CallingBack
<1>4. ASSUME PopRefreshToken(r) \/ logout(r) \/ PopExchangeCode(r)
      PROVE  req[r].arg \in Requests
  BY <1>4, BusyOp DEF PopRefreshToken, logout, PopExchangeCode, Refreshing, LoggingOut, Exchanging
<1>5. QED BY <1>1, <1>2, <1>3, <1>4

\* Every step keeps the shapes and what the tables name.
LEMMA BasePreserved ==
  ASSUME Base, OwnUser, Next
  PROVE  Base'
<1>1. /\ users' \in [Requests -> UserRow \cup {None}] /\ Existing \subseteq Existing'
      /\ Existing \subseteq Requests
  BY UsersGrow DEF Existing
<1>2. Local' /\ req' \in [Requests -> Request]
  BY LocalPreserved
<1>3. Shape /\ Stored
  BY DEF Base
<1>4. PICK r \in Requests : Start(r) \/ Step(r)
  BY DEF Next
<1>5. CASE Start(r)
  <2>1. /\ UNCHANGED <<users, accounts, tokens, codes, family, ended, issued>>
        /\ states' \subseteq Requests /\ crossed' \subseteq Identities
    BY <1>3, <1>5, StartStep
  <2>2. Shape'
    BY <1>1, <1>2, <1>3, <2>1 DEF Shape
  <2>3. Stored'
    BY <1>1, <1>3, <2>1 DEF Stored
  <2>4. QED BY <1>2, <2>2, <2>3 DEF Base
<1>6. CASE Step(r)
  <2>1. tokens' \in [Requests -> Requests \cup {None}] /\ \A t \in Requests : tokens'[t] \in Existing \cup {None}
    <3>1. CASE UNCHANGED tokens
      BY <1>3, <3>1 DEF Shape, Stored
    <3>2. CASE PopRefreshToken(r) \/ logout(r)
      BY <1>3, <3>2, Issuers DEF PopRefreshToken, PopToken, logout, Shape, Stored
    <3>3. CASE _issue_tokens(r)
      BY <1>1, <1>3, <3>3, Issuers DEF _issue_tokens, Shape, Stored
    <3>4. QED BY <1>6, <3>1, <3>2, <3>3, TablesStay
  <2>2. codes' \in [Requests -> Requests \cup {None}] /\ \A t \in Requests : codes'[t] \in Existing \cup {None}
    <3>1. CASE UNCHANGED codes
      BY <1>3, <3>1 DEF Shape, Stored
    <3>2. CASE PopExchangeCode(r)
      BY <1>3, <3>2, Issuers DEF PopExchangeCode, PopCode, Shape, Stored
    <3>3. CASE CreateExchangeCode(r)
      BY <1>1, <1>3, <3>3, Issuers DEF CreateExchangeCode, Shape, Stored
    <3>4. QED BY <1>6, <3>1, <3>2, <3>3, TablesStay
  <2>3. /\ accounts' \in [Identities -> AccountRow \cup {None}]
        /\ \A i \in Identities : accounts'[i] # None => accounts'[i].user \in Existing
    <3>1. CASE UNCHANGED accounts
      BY <1>3, <3>1 DEF Shape, Stored
    <3>2. CASE link_external_identity(r)
      <4> DEFINE i == req[r].arg
                 row == [user |-> IF accounts[i] = None THEN req[r].found ELSE accounts[i].user,
                         email |-> req[r].opt]
      <4>1. i \in Identities /\ req[r].found \in Existing /\ req[r].opt \in Emails
        BY <3>2, Issuers
      <4>2. row \in AccountRow /\ row.user \in Existing
        BY <1>1, <1>3, <4>1 DEF AccountRow, Stored
      <4>3. UNCHANGED accounts \/ accounts' = [accounts EXCEPT ![i] = row]
        BY <3>2 DEF link_external_identity, Reject
      <4> HIDE DEF row, i
      <4>4. QED BY <1>3, <3>1, <4>1, <4>2, <4>3 DEF Shape, Stored
    <3>3. QED BY <1>6, <3>1, <3>2, TablesStay
  <2>4. family' \in [Requests -> Requests \cup {None}]
    <3>1. CASE _issue_tokens(r)
      <4>1. req[r].op = "refresh" => family[req[r].arg] \in Requests \cup {None}
        BY <1>3, <3>1, Issuers DEF Shape
      <4>2. QED BY <1>3, <3>1, <4>1 DEF Shape, _issue_tokens
    <3>2. QED BY <1>3, <1>6, <3>1, TablesStay DEF Shape
  <2>5. ended' \subseteq Requests \cup {None}
    <3>1. CASE logout(r)
      <4>1. family[req[r].arg] \in Requests \cup {None}
        BY <1>3, <3>1, Issuers DEF Shape
      <4>2. QED BY <1>3, <3>1, <4>1 DEF Shape, logout
    <3>2. QED BY <1>3, <1>6, <3>1, TablesStay DEF Shape
  <2>6. issued' \subseteq Issued
    <3>1. CASE CreateExchangeCode(r)
      <4>1. [code |-> r, identity |-> req[r].arg, user |-> req[r].found] \in Issued
        BY <1>1, <3>1, Issuers DEF Issued
      <4>2. QED BY <1>3, <3>1, <4>1 DEF Shape, CreateExchangeCode
    <3>2. QED BY <1>3, <1>6, <3>1, TablesStay DEF Shape
  <2>7. states' \subseteq Requests /\ crossed' \subseteq Identities
    BY <1>3, <1>6, TablesStay DEF Shape, PopState
  <2>8. Shape'
    BY <1>1, <1>2, <2>1, <2>2, <2>3, <2>4, <2>5, <2>6, <2>7 DEF Shape
  <2>9. Stored'
    BY <1>1, <2>1, <2>2, <2>3 DEF Stored
  <2>10. QED BY <1>2, <2>8, <2>9 DEF Base
<1>7. QED BY <1>4, <1>5, <1>6

\* After its insert a request only links, makes a code, and answers.
Late == {"link", "code", "done", "refused"}

LEMMA LateStays ==
  ASSUME Base, NEW r \in Requests, Step(r), req[r].pc \in {"insert", "link", "code"}
  PROVE  req'[r].pc \in Late
<1> USE DEF Over, Late
<1>1. Shape /\ req[r] \in Request /\ req \in [Requests -> Request]
  BY DEF Base, Shape
<1>2. ASSUME NEW pc \in Late, Done(r, pc) \/ Goto(r, pc)
      PROVE  req'[r].pc = pc
  <2>1. pc \in Stages
    BY DEF Stages
  <2>2. QED BY <1>1, <1>2, <2>1, Moves, Null DEF Moved
<1>3. CASE CreateExchangeCode(r) \/ create_user_without_password(r)
  <2>1. "done" \in Stages /\ "link" \in Stages /\ r \in Founds
    BY DEF Stages, Founds
  <2>2. CASE CreateExchangeCode(r)
    <3>1. Moved(r, "done", None, None)
      BY <1>1, <2>1, <2>2, Null, Moves DEF CreateExchangeCode
    <3>2. QED BY <3>1 DEF Moved
  <2>3. CASE req' = [req EXCEPT ![r].pc = "link", ![r].found = r]
    <3>1. Moved(r, "link", r, req[r].role)
      BY <1>1, <2>1, <2>3, Null, Moves
    <3>2. QED BY <3>1 DEF Moved
  <2>4. QED BY <1>2, <1>3, <2>2, <2>3 DEF create_user_without_password, InsertUser, Reject
<1>4. CASE create_user(r) \/ bootstrap_admin_user(r) \/ link_external_identity(r)
  BY <1>2, <1>4 DEF create_user, bootstrap_admin_user, InsertUser, Reject, link_external_identity
<1>5. QED
  BY <1>3, <1>4 DEF Step, CheckEmail, DecideRole, BootstrapRead, login, PopRefreshToken, PopExchangeCode,
                    LoadUser, _issue_tokens, logout, PopState, get_user_by_external_identity, get_user_by_email,
                    LoadForChange, update_user, assign_roles

\* A request inserts at most one user, and has then left its insert.
LEMMA OwnUserPreserved ==
  ASSUME Base, OwnUser, Next
  PROVE  OwnUser'
<1>1. PICK r \in Requests : Start(r) \/ Step(r)
  BY DEF Next
<1>2. Shape /\ Existing \subseteq Requests
  BY DEF Base, Existing
<1>3. ASSUME NEW q \in Requests, users'[q] # None
      PROVE  req'[q].pc \in Late
  <2>1. CASE Start(r)
    <3>1. req[r].pc = "off" /\ UNCHANGED users /\ (q # r => req'[q] = req[q])
      BY <1>2, <2>1, StartStep
    <3>2. QED BY <1>3, <3>1 DEF OwnUser, Late
  <2>2. CASE Step(r)
    <3>1. Existing \subseteq Existing'
      BY UsersGrow
    <3>2. req[r].pc \notin Over /\ (q # r => req'[q] = req[q])
      BY <2>2, <3>1, StepLocal DEF OthersAlone
    <3>3. users[q] # None \/ (q = r /\ req[r].pc = "insert")
      <4>1. CASE UNCHANGED users
        BY <1>3, <4>1
      <4>2. ASSUME NEW email, NEW role, NEW password, Inserts(r, email, role, password)
            PROVE  <3>3!:
        BY <1>2, <1>3, <4>2 DEF Inserts, Shape
      <4>3. ASSUME NEW u \in Existing, NEW row \in UserRow, Updates(u, row)
            PROVE  <3>3!:
        BY <1>2, <1>3, <4>3 DEF Updates, Shape, Existing
      <4>4. QED BY <2>2, <4>1, <4>2, <4>3, UsersStep
    <3>4. CASE users[q] # None
      <4>1. req[q].pc \in Late
        BY <3>4 DEF OwnUser, Late
      <4>2. QED BY <2>2, <3>2, <4>1, LateStays DEF Late, Over
    <3>5. QED BY <2>2, <3>3, <3>4, LateStays
  <2>3. QED BY <1>1, <2>1, <2>2
<1>4. QED BY <1>3, UsersGrow DEF OwnUser, Late

-----------------------------------------------------------------------------
(* Refresh tokens                                                          *)

\* The live refresh tokens of a sign-in and the requests about to issue one.
Holders(f) ==
  {t \in Requests : tokens[t] # None /\ family[t] = f}
    \cup {r \in Requests : req[r].op = "refresh" /\ req[r].pc \in {"load", "issue"} /\ family[req[r].arg] = f}

\* A token descends from a sign-in whose own token has been issued, and so does the
\* one that a request presents.
Descent ==
  /\ \A t \in Requests : tokens[t] # None => family[t] # None
  /\ \A t \in Requests : family[t] # None => req[t].pc = "done" /\ family[family[t]] = family[t]
  /\ \A r \in Requests :
       \/ req[r].op = "refresh" /\ req[r].pc \in {"pop", "load", "issue"}
       \/ req[r].op = "logout" /\ req[r].pc = "pop"
       => family[req[r].arg] # None
  /\ \A f \in ended : f \in Requests /\ family[f] = f

OneHolder ==
  \A f \in Requests :
    /\ \A x, y \in Holders(f) : x = y
    /\ f \in ended => Holders(f) = {}

\* What a step does to the tokens: nothing that matters, take a live one to replace
\* it, remove one, or issue one.
Holds(r) == req[r].op = "refresh" /\ req[r].pc \in {"load", "issue"}
Presents(r) ==
  \/ req[r].op = "refresh" /\ req[r].pc \in {"pop", "load", "issue"}
  \/ req[r].op = "logout" /\ req[r].pc = "pop"

Neutral(r) ==
  /\ UNCHANGED <<tokens, family, ended>>
  /\ Holds(r)' => Holds(r) /\ req'[r].arg = req[r].arg
  /\ Presents(r)' => family[req'[r].arg] # None
  /\ req[r].pc # "done"
  /\ Holds(r) => Holds(r)' \/ req'[r].pc = "refused"
Taken(r, t) ==
  /\ tokens[t] # None /\ tokens' = [tokens EXCEPT ![t] = None] /\ UNCHANGED <<family, ended>>
  /\ req[r].pc = "pop" /\ req'[r].op = "refresh" /\ req'[r].pc = "load" /\ req'[r].arg = t
  /\ family[t] # None
Removed(r, t) ==
  /\ tokens' = [tokens EXCEPT ![t] = None] /\ UNCHANGED family
  /\ req[r].pc = "pop" /\ req'[r].pc \in {"done", "refused"}
  /\ UNCHANGED ended \/ (tokens[t] # None /\ ended' = ended \cup {family[t]})
New(r) ==
  /\ req[r].pc = "issue" /\ req[r].found \in Requests /\ req'[r].pc = "done" /\ UNCHANGED ended
  /\ tokens' = [tokens EXCEPT ![r] = req[r].found]
  /\ family' = [family EXCEPT ![r] = IF req[r].op = "refresh" THEN family[req[r].arg] ELSE r]
  /\ req[r].op = "refresh" => req[r].arg \in Requests /\ family[req[r].arg] # None

LEMMA TokenSteps ==
  ASSUME Base, OwnUser, Descent, Next
  PROVE  \E r \in Requests :
           /\ \A q \in Requests \ {r} : req'[q] = req[q]
           /\ Neutral(r) \/ New(r) \/ \E t \in Requests : Taken(r, t) \/ Removed(r, t)
<1>1. PICK r \in Requests : Start(r) \/ Step(r)
  BY DEF Next
<1>2. Shape /\ Existing \subseteq Existing' /\ Existing \subseteq Requests
  BY UsersGrow DEF Base, Existing
<1>3. \A q \in Requests \ {r} : req'[q] = req[q]
  BY <1>1, <1>2, StartStep, StepLocal DEF OthersAlone
<1>4. CASE Start(r)
  <2>1. /\ req[r].pc = "off" /\ UNCHANGED <<tokens, family, ended>> /\ Busy(r)'
    BY <1>2, <1>4, StartStep
  <2>2. req'[r].pc = "load" => req'[r].op \in {"update", "assign"}
    BY <1>2, <1>4 DEF Start, RegisterRequest, LoginRequest, RefreshRequest, LogoutRequest, ExchangeRequest,
         CallbackRequest, BootstrapStart, CreateUserRequest, UpdateUserRequest, AssignRolesRequest, Begin, Shape
  <2>3. req'[r].pc # "issue"
    BY <1>2, <1>4 DEF Start, RegisterRequest, LoginRequest, RefreshRequest, LogoutRequest, ExchangeRequest,
         CallbackRequest, BootstrapStart, CreateUserRequest, UpdateUserRequest, AssignRolesRequest, Begin, Shape
  <2>4. Presents(r)' => family[req'[r].arg] # None
    BY <1>2, <1>4 DEF Start, RegisterRequest, LoginRequest, RefreshRequest, LogoutRequest, ExchangeRequest,
         CallbackRequest, BootstrapStart, CreateUserRequest, UpdateUserRequest, AssignRolesRequest, Begin, Shape,
         Presents
  <2>5. Neutral(r)
    BY <2>1, <2>2, <2>3, <2>4 DEF Neutral, Holds
  <2>6. QED BY <1>3, <2>5
<1>5. CASE Step(r)
  <2>1. CASE PopRefreshToken(r)
    <3>1. req[r].arg \in Requests /\ family[req[r].arg] # None
      BY <2>1, Issuers DEF PopRefreshToken, Descent
    <3> DEFINE t == req[r].arg
    <3>2. CASE tokens[t] # None /\ req' = [req EXCEPT ![r].pc = "load", ![r].found = tokens[t]]
      <4>1. "load" \in Stages /\ tokens[t] \in Founds
        BY <1>2, <3>1 DEF Stages, Founds, Shape
      <4>2. Moved(r, "load", tokens[t], req[r].role)
        BY <1>2, <3>2, <4>1, Moves
      <4>3. Taken(r, t)
        BY <2>1, <3>1, <3>2, <4>2 DEF Taken, Moved, PopRefreshToken, PopToken
      <4>4. QED BY <1>3, <3>1, <4>3
    <3>3. CASE Done(r, "refused")
      <4>1. req'[r].pc = "refused"
        BY <1>2, <3>3, Moves, Null DEF Stages
      <4>2. Removed(r, t)
        BY <2>1, <4>1 DEF PopRefreshToken, PopToken, Removed
      <4>3. QED BY <1>3, <3>1, <4>2
    <3>4. QED BY <2>1, <3>2, <3>3 DEF PopRefreshToken
  <2>2. CASE logout(r)
    <3>1. req[r].arg \in Requests
      BY <2>2, Issuers
    <3>2. req'[r].pc = "done"
      BY <1>2, <2>2, Moves, Null DEF Stages, logout
    <3>3. Removed(r, req[r].arg)
      BY <2>2, <3>2 DEF logout, Removed
    <3>4. QED BY <1>3, <3>1, <3>3
  <2>3. CASE _issue_tokens(r)
    <3>1. Moved(r, "done", None, None)
      BY <1>2, <2>3, Moves, Null DEF _issue_tokens, Stages
    <3>2. req[r].found \in Requests /\ (req[r].op = "refresh" => req[r].arg \in Requests)
      BY <1>2, <2>3, Issuers
    <3>3. New(r)
      BY <2>3, <3>1, <3>2 DEF _issue_tokens, New, Moved, Descent
    <3>4. QED BY <1>3, <3>3
  <2>4. CASE ~ PopRefreshToken(r) /\ ~ logout(r) /\ ~ _issue_tokens(r)
    <3>1. UNCHANGED <<tokens, family, ended>>
      BY <1>5, <2>4, TablesStay
    <3>2. req[r].pc \notin Over
      BY <1>2, <1>5, StepLocal
    <3>3. CASE LoadUser(r)
      <4>1. CASE Goto(r, "issue")
        <5>1. Moved(r, "issue", req[r].found, req[r].role)
          BY <1>2, <4>1, Moves, Null DEF Stages
        <5>2. Neutral(r)
          BY <3>1, <3>3, <5>1 DEF Neutral, Holds, Presents, Moved, LoadUser, Descent
        <5>3. QED BY <1>3, <5>2
      <4>2. CASE Done(r, "refused")
        <5>1. req'[r].pc = "refused"
          BY <1>2, <4>2, Moves, Null DEF Stages
        <5>2. Neutral(r)
          BY <3>1, <3>3, <5>1 DEF Neutral, Holds, Presents, LoadUser
        <5>3. QED BY <1>3, <5>2
      <4>3. QED BY <3>3, <4>1, <4>2 DEF LoadUser
    <3>4. CASE ~ LoadUser(r)
      <4>1. req[r].op \notin {"refresh", "logout"}
        BY <1>5, <2>4, <3>2, <3>4, BusyOp
           DEF Refreshing, LoggingOut, Over, Step, CheckEmail, DecideRole, create_user,
               create_user_without_password, BootstrapRead, bootstrap_admin_user, login, PopRefreshToken,
               PopExchangeCode, LoadUser, _issue_tokens, logout, PopState, get_user_by_external_identity,
               get_user_by_email, link_external_identity, CreateExchangeCode, LoadForChange, update_user,
               assign_roles
      <4>2. req'[r].op = req[r].op \/ req'[r].pc \in {"done", "refused"}
        BY <1>2, <1>5, StepLocal DEF Continues
      <4>3. Neutral(r)
        BY <3>1, <3>2, <4>1, <4>2 DEF Neutral, Holds, Presents, Over
      <4>4. QED BY <1>3, <4>3
    <3>5. QED BY <3>3, <3>4
  <2>5. QED BY <2>1, <2>2, <2>3, <2>4
<1>6. QED BY <1>1, <1>4, <1>5

\* Where a token comes from does not change.
LEMMA DescentPreserved ==
  ASSUME Base, OwnUser, Descent, Next
  PROVE  Descent'
<1>1. PICK r \in Requests :
        /\ \A q \in Requests \ {r} : req'[q] = req[q]
        /\ Neutral(r) \/ New(r) \/ \E t \in Requests : Taken(r, t) \/ Removed(r, t)
  BY TokenSteps
<1>2. /\ tokens \in [Requests -> Requests \cup {None}] /\ family \in [Requests -> Requests \cup {None}]
      /\ Base' /\ \A q \in Requests : Presents(q) => req[q].arg \in Requests
  <2>1. \A q \in Requests : Presents(q) => req[q].arg \in Requests
    BY BusyOp DEF Presents, Over, Refreshing, LoggingOut
  <2>2. QED BY <2>1, BasePreserved DEF Base, Shape
<1>3. /\ \A t \in Requests : tokens[t] # None => family[t] # None
      /\ \A t \in Requests : family[t] # None => req[t].pc = "done" /\ family[family[t]] = family[t]
      /\ \A q \in Requests : Presents(q) => family[req[q].arg] # None
      /\ \A f \in ended : f \in Requests /\ family[f] = f
  BY DEF Descent, Presents
<1> DEFINE Goal ==
      /\ \A t \in Requests : tokens'[t] # None => family'[t] # None
      /\ \A t \in Requests : family'[t] # None => req'[t].pc = "done" /\ family'[family'[t]] = family'[t]
      /\ \A q \in Requests : Presents(q)' => family'[req'[q].arg] # None
      /\ \A f \in ended' : f \in Requests /\ family'[f] = f
<1>4. SUFFICES Goal
  BY DEF Descent, Presents
<1>5. \A q \in Requests \ {r} : Presents(q)' => Presents(q) /\ req'[q].arg = req[q].arg
  BY <1>1 DEF Presents
<1>6. CASE Neutral(r)
  <2>1. family[r] = None
    BY <1>3, <1>6 DEF Neutral
  <2>2. QED BY <1>1, <1>3, <1>5, <1>6, <2>1 DEF Neutral
<1>7. ASSUME NEW t \in Requests, Taken(r, t)
      PROVE  Goal
  <2>1. family[r] = None
    BY <1>3, <1>7 DEF Taken
  <2>2. \A q \in Requests : Presents(q)' => family'[req'[q].arg] # None
    BY <1>3, <1>5, <1>7 DEF Taken
  <2>3. QED BY <1>1, <1>2, <1>3, <1>7, <2>1, <2>2 DEF Taken
<1>8. ASSUME NEW t \in Requests, Removed(r, t)
      PROVE  Goal
  <2>1. family[r] = None /\ ~ Presents(r)'
    BY <1>3, <1>8 DEF Removed, Presents
  <2>2. tokens[t] # None => family[t] \in Requests /\ family[family[t]] = family[t]
    BY <1>2, <1>3
  <2>3. \A f \in ended' : f \in Requests /\ family'[f] = f
    BY <1>3, <1>8, <2>2 DEF Removed
  <2>4. \A q \in Requests : Presents(q)' => family'[req'[q].arg] # None
    BY <1>3, <1>5, <1>8, <2>1 DEF Removed
  <2>5. QED BY <1>1, <1>2, <1>3, <1>8, <2>1, <2>3, <2>4 DEF Removed
<1>9. CASE New(r)
  <2> DEFINE f == IF req[r].op = "refresh" THEN family[req[r].arg] ELSE r
  <2>1. family[r] = None
    BY <1>3, <1>9 DEF New
  <2>2. f \in Requests /\ (f = r \/ family[f] = f) /\ family' = [family EXCEPT ![r] = f]
    BY <1>2, <1>3, <1>9 DEF New
  <2> HIDE DEF f
  <2>3. family'[r] = f /\ \A t \in Requests \ {r} : family'[t] = family[t]
    BY <1>2, <2>2
  <2>4. family'[f] = f
    BY <2>2, <2>3
  <2>5. \A t \in Requests : family[t] # None => t # r /\ family[t] \in Requests /\ family[t] # r
    BY <1>2, <1>3, <2>1
  <2>6. \A t \in Requests : family'[t] # None => req'[t].pc = "done" /\ family'[family'[t]] = family'[t]
    <3>1. req'[r].pc = "done"
      BY <1>9 DEF New
    <3>2. QED BY <1>1, <1>3, <2>2, <2>3, <2>4, <2>5, <3>1
  <2>7. \A t \in Requests : tokens'[t] # None => family'[t] # None
    BY <1>2, <1>3, <1>9, <2>2, <2>3 DEF New
  <2>8. \A q \in Requests : Presents(q)' => family'[req'[q].arg] # None
    <3>1. ~ Presents(r)'
      BY <1>9 DEF New, Presents
    <3>2. QED BY <1>2, <1>3, <1>5, <2>3, <2>5, <3>1
  <2>9. \A g \in ended' : g \in Requests /\ family'[g] = g
    BY <1>3, <1>9, <2>1, <2>3 DEF New
  <2>10. QED BY <2>6, <2>7, <2>8, <2>9
<1>10. QED BY <1>1, <1>6, <1>7, <1>8, <1>9

\* A sign-in has at most one holder, and none once it has ended: a holder passes its
\* place on, and only a sign-in begins a family.
LEMMA OneHolderPreserved ==
  ASSUME Base, OwnUser, Descent, OneHolder, Next
  PROVE  OneHolder'
<1>1. PICK r \in Requests :
        /\ \A q \in Requests \ {r} : req'[q] = req[q]
        /\ Neutral(r) \/ New(r) \/ \E t \in Requests : Taken(r, t) \/ Removed(r, t)
  BY TokenSteps
<1>2. /\ tokens \in [Requests -> Requests \cup {None}] /\ family \in [Requests -> Requests \cup {None}]
      /\ \A q \in Requests : Holds(q) => req[q].arg \in Requests
  <2>1. \A q \in Requests : Holds(q) => req[q].arg \in Requests
    BY BusyOp DEF Holds, Over, Refreshing
  <2>2. QED BY <2>1 DEF Base, Shape
<1>3. \A x, f : x \in Holders(f) <=> /\ x \in Requests
                                     /\ (tokens[x] # None /\ family[x] = f) \/ (Holds(x) /\ family[req[x].arg] = f)
  BY DEF Holders, Holds
<1>4. \A x, f : x \in Holders(f)' <=> /\ x \in Requests
                                      /\ \/ tokens'[x] # None /\ family'[x] = f
                                         \/ Holds(x)' /\ family'[req'[x].arg] = f
  BY DEF Holders, Holds
<1>5. \A q \in Requests \ {r} : Holds(q)' => Holds(q) /\ req'[q].arg = req[q].arg
  BY <1>1 DEF Holds
<1>6. SUFFICES ASSUME NEW f \in Requests
               PROVE  /\ \A x, y \in Holders(f)' : x = y
                      /\ f \in ended' => Holders(f)' = {}
  BY DEF OneHolder
<1>7. /\ \A x, y \in Holders(f) : x = y
      /\ f \in ended => Holders(f) = {}
  BY DEF OneHolder
<1>8. CASE Neutral(r)
  <2>1. Holders(f)' \subseteq Holders(f)
    BY <1>3, <1>4, <1>5, <1>8 DEF Neutral
  <2>2. QED BY <1>7, <1>8, <2>1 DEF Neutral
<1>9. ASSUME NEW t \in Requests, Taken(r, t)
      PROVE  /\ \A x, y \in Holders(f)' : x = y
             /\ f \in ended' => Holders(f)' = {}
  <2>1. \A x \in Holders(f)' : x = r \/ (x # t /\ x \in Holders(f)) \/ (x = t /\ Holds(t) /\ x \in Holders(f))
    BY <1>2, <1>3, <1>4, <1>5, <1>9 DEF Taken
  <2>2. family[t] # None /\ req[t].pc = "done"
    BY <1>9 DEF Taken, Descent
  <2>3. ~ Holds(t)
    BY <2>2 DEF Holds
  <2>4. t \in Holders(family[t])
    BY <1>3, <1>9 DEF Taken
  <2>5. tokens[r] = None
    BY <1>9 DEF Taken, Descent
  <2>6. r \in Holders(f)' => family[t] = f
    BY <1>4, <1>9, <2>5, <1>2 DEF Taken
  <2>7. CASE family[t] = f
    BY <1>7, <1>9, <2>1, <2>3, <2>4, <2>7 DEF Taken
  <2>8. CASE family[t] # f
    BY <1>7, <1>9, <2>1, <2>3, <2>6, <2>8 DEF Taken
  <2>9. QED BY <2>7, <2>8
<1>10. ASSUME NEW t \in Requests, Removed(r, t)
       PROVE  /\ \A x, y \in Holders(f)' : x = y
              /\ f \in ended' => Holders(f)' = {}
  <2>1. ~ Holds(r)'
    BY <1>10 DEF Removed, Holds
  <2>2. Holders(f)' \subseteq Holders(f)
    BY <1>2, <1>3, <1>4, <1>5, <1>10, <2>1 DEF Removed
  <2>3. CASE UNCHANGED ended
    BY <1>7, <2>2, <2>3
  <2>4. CASE tokens[t] # None /\ ended' = ended \cup {family[t]}
    <3>1. CASE family[t] = f
      <4>1. t \in Holders(f) /\ req[t].pc = "done"
        BY <1>3, <2>4, <3>1 DEF Descent
      <4>2. ~ Holds(t)' /\ tokens'[t] = None
        BY <1>1, <1>2, <1>10, <2>1, <4>1 DEF Holds, Removed
      <4>3. t \notin Holders(f)'
        BY <1>4, <4>2
      <4>4. Holders(f)' = {}
        BY <1>7, <2>2, <4>1, <4>3
      <4>5. QED BY <4>4
    <3>2. QED BY <1>7, <2>2, <2>4, <3>1
  <2>5. QED BY <1>10, <2>3, <2>4 DEF Removed
<1>11. CASE New(r)
  <2> DEFINE g == IF req[r].op = "refresh" THEN family[req[r].arg] ELSE r
  <2>1. family[r] = None /\ tokens[r] = None
    BY <1>11, <1>2 DEF New, Descent
  <2>2. g \in Requests /\ family' = [family EXCEPT ![r] = g] /\ UNCHANGED ended
    BY <1>2, <1>11 DEF New, Descent
  <2>3. req[r].op = "refresh" => Holds(r) /\ family[req[r].arg] = g
    BY <1>11 DEF New, Holds
  <2>4. req[r].op # "refresh" => g = r
    OBVIOUS
  <2> HIDE DEF g
  <2>5. family'[r] = g /\ \A t \in Requests \ {r} : family'[t] = family[t] /\ tokens'[t] = tokens[t]
    BY <1>2, <1>11, <2>2 DEF New
  <2>6. ~ Holds(r)' /\ \A q \in Requests : Holds(q) => req[q].arg # r
    BY <1>2, <1>11, <2>1 DEF New, Holds, Descent
  <2>7. \A x \in Holders(f)' : (x = r /\ f = g) \/ (x # r /\ x \in Holders(f))
    BY <1>2, <1>3, <1>4, <1>5, <2>5, <2>6
  <2>8. CASE req[r].op = "refresh"
    <3>1. Holders(f)' \subseteq Holders(f)
      BY <1>3, <2>3, <2>7, <2>8
    <3>2. QED BY <1>7, <2>2, <3>1
  <2>9. CASE req[r].op # "refresh"
    <3>1. Holders(r) = {} /\ r \notin ended
      BY <1>2, <1>3, <2>1 DEF Descent, Holds
    <3>2. QED BY <1>7, <2>2, <2>4, <2>7, <2>9, <3>1
  <2>10. QED BY <2>8, <2>9
<1>12. QED BY <1>1, <1>8, <1>9, <1>10, <1>11

\* Counting the holders.
LEMMA OneHolderCounted == OneHolder => OneSession
<1> SUFFICES ASSUME OneHolder, NEW f \in Requests
             PROVE  Cardinality(Holders(f)) <= IF f \in ended THEN 0 ELSE 1
  BY DEF OneSession, Holders
<1>1. CASE Holders(f) = {}
  BY <1>1, FS_EmptySet
<1>2. ASSUME NEW x \in Holders(f)
      PROVE  Cardinality(Holders(f)) <= IF f \in ended THEN 0 ELSE 1
  <2>1. Holders(f) = {x} /\ f \notin ended
    BY <1>2 DEF OneHolder
  <2>2. Cardinality(Holders(f)) = 1
    BY <2>1, FS_Singleton
  <2>3. QED BY <2>1, <2>2
<1>3. QED BY <1>1, <1>2

-----------------------------------------------------------------------------
(* Identities                                                              *)

\* The sign-ins of an identity that are under way together have one address.
SameAddress ==
  \A q, r \in Requests :
    /\ req[q].op = "callback" /\ req[q].pc \notin Over
    /\ req[r].op = "callback" /\ req[r].pc \notin Over
    /\ req[q].arg = req[r].arg /\ req[q].arg \notin crossed
    => req[q].opt = req[r].opt

\* A sign-in that is past its look-up by identity has the address of the user linked
\* meanwhile, and one that makes a code has the user linked.
Linked ==
  \A r \in Requests :
    req[r].op = "callback" =>
      /\ req[r].pc = "link" => users[req[r].found].email = req[r].opt
      /\ req[r].arg \notin crossed =>
           /\ req[r].pc \in {"email", "decide", "insert", "link"} /\ accounts[req[r].arg] # None =>
                users[accounts[req[r].arg].user].email = req[r].opt
           /\ req[r].pc = "code" =>
                accounts[req[r].arg] # None /\ accounts[req[r].arg].user = req[r].found

\* Codes were made for the user linked.
CodesLinked ==
  \A p \in issued : p.identity \notin crossed =>
    accounts[p.identity] # None /\ accounts[p.identity].user = p.user

Live(r) == req[r].op = "callback" /\ req[r].pc \notin Over

\* A linked identity keeps its user.
LEMMA AccountsStable ==
  ASSUME Base, OwnUser, Next
  PROVE  /\ \A i \in Identities : accounts[i] # None =>
              accounts'[i] # None /\ accounts'[i].user = accounts[i].user
         /\ UNCHANGED accounts \/ \E r \in Requests : link_external_identity(r)
<1>1. PICK r \in Requests : Start(r) \/ Step(r)
  BY DEF Next
<1>2. UNCHANGED accounts \/ link_external_identity(r)
  BY <1>1, StartStep, TablesStay DEF Base
<1>3. CASE link_external_identity(r)
  <2> DEFINE i == req[r].arg
             row == [user |-> IF accounts[i] = None THEN req[r].found ELSE accounts[i].user, email |-> req[r].opt]
  <2>1. i \in Identities /\ req[r].found \in Requests /\ req[r].opt \in Emails
    BY <1>3, Issuers DEF Existing
  <2>2. accounts[i] \in AccountRow \cup {None} /\ accounts \in [Identities -> AccountRow \cup {None}]
    BY <2>1 DEF Base, Shape
  <2>3. row \in AccountRow
    BY <2>1, <2>2 DEF AccountRow
  <2>4. row # None /\ (accounts[i] # None => row.user = accounts[i].user)
    BY <2>3
  <2>5. UNCHANGED accounts \/ accounts' = [accounts EXCEPT ![i] = row]
    BY <1>3 DEF link_external_identity, Reject
  <2> HIDE DEF row, i
  <2>6. QED BY <1>3, <2>1, <2>2, <2>4, <2>5
<1>4. QED BY <1>2, <1>3

\* A sign-in that is under way was so before with the same identity and address, or
\* is new.
LEMMA LiveSteps ==
  ASSUME Base, OwnUser, Next, NEW r \in Requests, Live(r)'
  PROVE  \/ Live(r) /\ req'[r].arg = req[r].arg /\ req'[r].opt = req[r].opt
         \/ /\ CallbackRequest(r, req'[r].arg, req'[r].opt) /\ req'[r].pc = "pop"
            /\ \A q \in Requests \ {r} : req'[q] = req[q]
<1>1. PICK s \in Requests : Start(s) \/ Step(s)
  BY DEF Next
<1>2. Existing \subseteq Existing' /\ Shape
  BY UsersGrow DEF Base
<1>3. \A q \in Requests \ {s} : req'[q] = req[q]
  BY <1>1, <1>2, StartStep, StepLocal DEF OthersAlone
<1>4. CASE r # s
  BY <1>3, <1>4 DEF Live
<1>5. CASE r = s /\ Step(s)
  BY <1>2, <1>5, StepLocal DEF Live, Continues, Over
<1>6. CASE r = s /\ Start(s)
  <2>1. PICK i \in Identities, email \in Emails : CallbackRequest(r, i, email)
    BY <1>2, <1>6 DEF Live, Start, RegisterRequest, LoginRequest, RefreshRequest, LogoutRequest, ExchangeRequest,
         BootstrapStart, CreateUserRequest, UpdateUserRequest, AssignRolesRequest, Begin, Shape
  <2>2. req'[r].arg = i /\ req'[r].opt = email /\ req'[r].pc = "pop"
    BY <1>2, <2>1 DEF CallbackRequest, Begin, Shape
  <2>3. QED BY <1>3, <1>6, <2>1, <2>2
<1>7. QED BY <1>1, <1>4, <1>5, <1>6

\* An identity whose sign-ins meet with two addresses is recorded.
LEMMA SameAddressPreserved ==
  ASSUME Base, OwnUser, SameAddress, Next
  PROVE  SameAddress' /\ crossed \subseteq crossed'
<1>1. crossed \subseteq crossed'
  BY StartStep, TablesStay DEF Next, Base
<1>2. ASSUME NEW q \in Requests, NEW r \in Requests, Live(q)', Live(r)', req'[q].arg = req'[r].arg,
             req'[q].arg \notin crossed', q # r
      PROVE  req'[q].opt = req'[r].opt
  <2>1. CASE /\ Live(q) /\ req'[q].arg = req[q].arg /\ req'[q].opt = req[q].opt
             /\ Live(r) /\ req'[r].arg = req[r].arg /\ req'[r].opt = req[r].opt
    BY <1>1, <1>2, <2>1 DEF SameAddress, Live
  <2>2. ASSUME NEW s \in {q, r}, NEW o \in {q, r}, s # o,
               CallbackRequest(s, req'[s].arg, req'[s].opt), req'[o] = req[o]
        PROVE  req'[q].opt = req'[r].opt
    <3>1. req[o].op = "callback" /\ req[o].pc \notin {"done", "refused"} /\ req[o].arg = req'[s].arg
      BY <1>2, <2>2 DEF Live, Over
    <3>2. req[o].opt = req'[s].opt
      BY <1>2, <2>2, <3>1 DEF CallbackRequest
    <3>3. QED BY <1>2, <2>2, <3>2
  <2>3. QED BY <1>2, <2>1, <2>2, LiveSteps
<1>3. QED BY <1>1, <1>2 DEF SameAddress, Live

\* Before it makes its code a sign-in agrees with the link of its identity, whoever
\* has linked it.
LEMMA LinkedPreserved ==
  ASSUME Base, OwnUser, SameAddress, Linked, Next
  PROVE  Linked'
<1> DEFINE Agrees(r) ==
      /\ req[r].pc = "link" => users[req[r].found].email = req[r].opt
      /\ req[r].arg \notin crossed =>
           /\ req[r].pc \in {"email", "decide", "insert", "link"} /\ accounts[req[r].arg] # None =>
                users[accounts[req[r].arg].user].email = req[r].opt
           /\ req[r].pc = "code" =>
                accounts[req[r].arg] # None /\ accounts[req[r].arg].user = req[r].found
<1>1. \A r \in Requests : Live(r) => Agrees(r)
  BY DEF Linked, Live
<1>2. SUFFICES ASSUME NEW r \in Requests, Live(r)', req'[r].pc # "pop"
               PROVE  Agrees(r)'
  BY DEF Linked, Live, Over
<1>3. /\ Existing \subseteq Existing' /\ \A u \in Existing : users'[u].email = users[u].email
      /\ \A u, v \in Existing : users[u].email = users[v].email => u = v
      /\ crossed \subseteq crossed'
      /\ Shape /\ Stored
  BY UsersGrow, SameAddressPreserved DEF Base, OwnUser
<1>4. Live(r) /\ req'[r].arg = req[r].arg /\ req'[r].opt = req[r].opt
  BY <1>2, LiveSteps
<1>5. CallingBack(r) /\ Agrees(r)
  BY <1>1, <1>4, BusyOp DEF Live
<1> DEFINE i == req[r].arg
<1>6. i \in Identities /\ (accounts[i] # None => accounts[i].user \in Existing)
  BY <1>3, <1>5 DEF CallingBack, Stored
<1>7. PICK s \in Requests : Start(s) \/ Step(s)
  BY DEF Next
<1>8. /\ \A q \in Requests \ {s} : req'[q] = req[q]
      /\ r = s => Step(r)
  BY <1>3, <1>4, <1>7, StartStep, StepLocal DEF OthersAlone, Live, Over
<1>9. ASSUME i \notin crossed', accounts'[i] # None, req[r].pc \in {"email", "decide", "insert", "link"}
      PROVE  users'[accounts'[i].user].email = req[r].opt
  <2>1. CASE accounts[i] # None
    BY <1>3, <1>5, <1>6, <1>9, <2>1, AccountsStable
  <2>2. CASE accounts[i] = None
    <3>1. PICK q \in Requests : link_external_identity(q)
      BY <1>9, <2>2, AccountsStable
    <3>2. Live(q) /\ Agrees(q) /\ req[q].pc = "link" /\ req[q].found \in Existing
      BY <1>1, <3>1, Issuers DEF Live, Over, link_external_identity
    <3>3. req[q].arg = i /\ accounts'[i].user = req[q].found
      <4>1. UNCHANGED accounts \/ accounts' =
              [accounts EXCEPT ![req[q].arg] =
                 [user |-> IF accounts[req[q].arg] = None THEN req[q].found ELSE accounts[req[q].arg].user,
                  email |-> req[q].opt]]
        BY <3>1 DEF link_external_identity, Reject
      <4>2. accounts \in [Identities -> AccountRow \cup {None}]
        BY <1>3 DEF Shape
      <4>3. QED BY <1>6, <1>9, <2>2, <4>1, <4>2
    <3>4. users'[req[q].found].email = req[q].opt
      BY <1>3, <3>2
    <3>5. req[q].opt = req[r].opt
      BY <1>3, <1>4, <1>9, <3>2, <3>3 DEF SameAddress, Live
    <3>6. QED BY <3>3, <3>4, <3>5
  <2>3. QED BY <2>1, <2>2
<1>10. CASE r # s
  <2>1. req'[r] = req[r]
    BY <1>8, <1>10
  <2>2. req[r].pc = "link" => users'[req[r].found].email = req[r].opt
    BY <1>3, <1>5 DEF CallingBack
  <2>3. i \notin crossed' /\ req[r].pc = "code" => accounts'[i] # None /\ accounts'[i].user = req[r].found
    BY <1>3, <1>5, <1>6, AccountsStable
  <2>4. QED BY <1>9, <2>1, <2>2, <2>3
<1>11. CASE Step(r)
  <2>1. req[r].pc # "code"
    <3>1. CASE req[r].pc = "code"
      <4>1. CreateExchangeCode(r)
        BY <1>4, <1>11, <3>1 DEF Live, Step, CheckEmail, DecideRole, create_user, create_user_without_password,
          BootstrapRead, bootstrap_admin_user, login, PopRefreshToken, PopExchangeCode, LoadUser, _issue_tokens,
          logout, PopState, get_user_by_external_identity, get_user_by_email, link_external_identity,
          LoadForChange, update_user, assign_roles
      <4>2. Moved(r, "done", None, None)
        BY <1>3, <4>1, Moves, Null DEF CreateExchangeCode, Stages
      <4>3. QED BY <1>2, <4>2 DEF Moved, Live, Over
    <3>2. QED BY <3>1
  <2>2. CASE PopState(r)
    <3>1. CASE Goto(r, "identity")
      BY <1>3, <3>1, Moves, Null DEF Moved, Stages
    <3>2. CASE Done(r, "refused")
      BY <1>2, <1>3, <3>2, Moves, Null DEF Stages, Live, Over
    <3>3. QED BY <2>2, <3>1, <3>2 DEF PopState
  <2>3. CASE get_user_by_external_identity(r)
    <3>1. CASE accounts[i] = None /\ Goto(r, "email")
      <4>1. Moved(r, "email", req[r].found, req[r].role)
        BY <1>3, <3>1, Moves, Null DEF Stages
      <4>2. UNCHANGED accounts
        BY <2>3 DEF get_user_by_external_identity
      <4>3. QED BY <1>4, <3>1, <4>1, <4>2 DEF Moved
    <3>2. CASE accounts[i] # None /\ req' = [req EXCEPT ![r].pc = "code", ![r].found = accounts[i].user]
      <4>1. accounts[i].user \in Founds
        BY <1>6, <3>2 DEF Existing, Founds
      <4>2. Moved(r, "code", accounts[i].user, req[r].role)
        BY <1>3, <3>2, <4>1, Moves DEF Stages
      <4>3. QED BY <1>4, <1>6, <3>2, <4>2, AccountsStable DEF Moved
    <3>3. CASE Done(r, "refused")
      BY <1>2, <1>3, <3>3, Moves, Null DEF Stages, Live, Over
    <3>4. QED BY <2>3, <3>1, <3>2, <3>3 DEF get_user_by_external_identity
  <2>4. CASE req[r].pc = "link"
    <3>1. link_external_identity(r)
      BY <1>4, <1>11, <2>4 DEF Live, Step, CheckEmail, DecideRole, create_user, create_user_without_password,
          BootstrapRead, bootstrap_admin_user, login, PopRefreshToken, PopExchangeCode, LoadUser, _issue_tokens,
          logout, PopState, get_user_by_external_identity, get_user_by_email, CreateExchangeCode,
          LoadForChange, update_user, assign_roles
    <3>2. CASE Done(r, "refused")
      BY <1>2, <1>3, <3>2, Moves, Null DEF Stages, Live, Over
    <3> DEFINE row == [user |-> IF accounts[i] = None THEN req[r].found ELSE accounts[i].user,
                       email |-> req[r].opt]
    <3>3. CASE Goto(r, "code") /\ accounts' = [accounts EXCEPT ![i] = row]
      <4>1. Moved(r, "code", req[r].found, req[r].role)
        BY <1>3, <3>3, Moves, Null DEF Stages
      <4>2. req[r].found \in Existing /\ users[req[r].found].email = req[r].opt /\ req[r].opt \in Emails
        BY <1>5, <2>4 DEF CallingBack
      <4>3. i \notin crossed => row.user = req[r].found
        <5>1. CASE accounts[i] = None
          BY <5>1
        <5>2. CASE accounts[i] # None
          BY <1>3, <1>5, <1>6, <2>4, <4>2, <5>2
        <5>3. QED BY <5>1, <5>2
      <4>4. row \in AccountRow
        BY <1>6, <4>2 DEF AccountRow, Existing
      <4>5. accounts'[i] = row /\ row # None
        BY <1>3, <1>6, <3>3, <4>4 DEF Shape
      <4> HIDE DEF row
      <4>6. QED BY <1>3, <1>4, <4>1, <4>3, <4>5 DEF Moved
    <3>4. QED BY <3>1, <3>2, <3>3 DEF link_external_identity, Reject
  <2>5. CASE req[r].pc \in {"email", "decide", "insert"}
    <3>1. req'[r].pc \in {"decide", "insert", "link"}
          /\ (req'[r].pc = "link" => users'[req'[r].found].email = req[r].opt)
      <4>1. CASE get_user_by_email(r)
        <5>1. CASE Goto(r, "decide")
          BY <1>3, <5>1, Moves, Null DEF Moved, Stages
        <5>2. ASSUME NEW u \in ByEmail(req[r].opt), req' = [req EXCEPT ![r].pc = "link", ![r].found = u]
              PROVE  <3>1!:
          <6>1. u \in Existing /\ users[u].email = req[r].opt /\ u \in Founds
            BY DEF ByEmail, Existing, Founds
          <6>2. Moved(r, "link", u, req[r].role)
            BY <1>3, <5>2, <6>1, Moves DEF Stages
          <6>3. QED BY <1>3, <6>1, <6>2 DEF Moved
        <5>3. QED BY <4>1, <5>1, <5>2 DEF get_user_by_email
      <4>2. CASE DecideRole(r)
        <5>1. FirstRole \in Roles
          BY DEF FirstRole, Roles
        <5>2. Moved(r, "insert", req[r].found, FirstRole)
          BY <1>3, <1>4, <4>2, <5>1, Moves, Null DEF Stages, DecideRole, Live
        <5>3. QED BY <5>2 DEF Moved
      <4>3. CASE create_user_without_password(r)
        <5>1. CASE Done(r, "refused")
          BY <1>2, <1>3, <5>1, Moves, Null DEF Stages, Live, Over
        <5>2. CASE /\ users' = [users EXCEPT ![r] = NewUser(r, req[r].opt, req[r].role, FALSE)]
                   /\ req' = [req EXCEPT ![r].pc = "link", ![r].found = r]
          <6>1. Moved(r, "link", r, req[r].role)
            BY <1>3, <5>2, Moves DEF Stages, Founds
          <6>2. users'[r].email = req[r].opt
            BY <1>3, <5>2 DEF NewUser, Shape
          <6>3. QED BY <6>1, <6>2 DEF Moved
        <5>3. QED BY <4>3, <5>1, <5>2 DEF create_user_without_password, InsertUser, Reject
      <4>4. QED
        BY <1>4, <1>11, <2>5, <4>1, <4>2, <4>3 DEF Live, Step, CheckEmail, create_user,
          BootstrapRead, bootstrap_admin_user, login, PopRefreshToken, PopExchangeCode, LoadUser, _issue_tokens,
          logout, PopState, get_user_by_external_identity, link_external_identity, CreateExchangeCode,
          LoadForChange, update_user, assign_roles
    <3>2. QED BY <1>4, <1>9, <2>5, <3>1
  <2>6. CASE req[r].pc \in {"pop", "identity"}
    BY <1>4, <1>11, <2>2, <2>3, <2>6 DEF Live, Step, CheckEmail, DecideRole, create_user,
          create_user_without_password, BootstrapRead, bootstrap_admin_user, login, PopRefreshToken,
          PopExchangeCode, LoadUser, _issue_tokens, logout, get_user_by_email, link_external_identity,
          CreateExchangeCode, LoadForChange, update_user, assign_roles
  <2>7. QED BY <1>5, <2>1, <2>4, <2>5, <2>6 DEF CallingBack
<1>12. QED BY <1>8, <1>10, <1>11

\* Every code is for the user linked, and stays so.
LEMMA CodesLinkedPreserved ==
  ASSUME Base, OwnUser, SameAddress, Linked, CodesLinked, Next
  PROVE  CodesLinked'
<1>1. PICK r \in Requests : Start(r) \/ Step(r)
  BY DEF Next
<1>2. Shape /\ crossed \subseteq crossed'
  BY SameAddressPreserved DEF Base
<1>3. ASSUME NEW p \in issued', p.identity \notin crossed'
      PROVE  accounts'[p.identity] # None /\ accounts'[p.identity].user = p.user
  <2>1. CASE p \in issued
    <3>1. p.identity \in Identities
      BY <1>2, <2>1 DEF Shape, Issued
    <3>2. QED BY <1>2, <1>3, <2>1, <3>1, AccountsStable DEF CodesLinked
  <2>2. CASE p \notin issued
    <3>1. CreateExchangeCode(r)
      BY <1>1, <1>2, <1>3, <2>2, StartStep, TablesStay
    <3>2. p = [code |-> r, identity |-> req[r].arg, user |-> req[r].found]
      BY <1>3, <2>2, <3>1 DEF CreateExchangeCode
    <3>3. /\ accounts[req[r].arg] # None /\ accounts[req[r].arg].user = req[r].found
          /\ req[r].arg \in Identities
      BY <1>2, <1>3, <3>1, <3>2, Issuers DEF CreateExchangeCode, Linked
    <3>4. QED BY <3>2, <3>3, AccountsStable
  <2>3. QED BY <2>1, <2>2
<1>4. QED BY <1>3 DEF CodesLinked

-----------------------------------------------------------------------------
(* The first user                                                          *)

\* Who is going to insert a member has seen a user.
MemberSawUser ==
  \A r \in Requests :
    /\ \/ req[r].op = "register" /\ req[r].pc \in {"check", "insert"} /\ req[r].role = "member"
       \/ req[r].op = "callback" /\ req[r].pc = "insert" /\ req[r].role = "member"
       \/ req[r].op = "create" /\ req[r].pc \in {"check", "insert"}
    => has_users

\* There are users from the first one on, so what a request saw is still so.
LEMMA MemberSawUserPreserved ==
  ASSUME Base, OwnUser, MemberSawUser, Next
  PROVE  MemberSawUser'
<1>1. Existing \subseteq Existing' /\ Shape
  BY UsersGrow DEF Base
<1>2. PICK r \in Requests : Start(r) \/ Step(r)
  BY DEF Next
<1>3. CASE has_users
  BY <1>1, <1>3 DEF has_users, MemberSawUser
<1>4. CASE ~ has_users
  <2>1. \A q \in Requests \ {r} : req'[q] = req[q]
    BY <1>1, <1>2, StartStep, StepLocal DEF OthersAlone
  <2>2. SUFFICES ASSUME \/ req'[r].op = "register" /\ req'[r].pc \in {"check", "insert"} /\ req'[r].role = "member"
                        \/ req'[r].op = "callback" /\ req'[r].pc = "insert" /\ req'[r].role = "member"
                        \/ req'[r].op = "create" /\ req'[r].pc \in {"check", "insert"}
                 PROVE  FALSE
    BY <1>4, <2>1 DEF MemberSawUser
  <2>3. CASE Start(r)
    BY <1>1, <1>4, <2>2, <2>3 DEF Start, RegisterRequest, LoginRequest, RefreshRequest, LogoutRequest,
         ExchangeRequest, CallbackRequest, BootstrapStart, CreateUserRequest, UpdateUserRequest,
         AssignRolesRequest, require_permission, has_users, Begin, Shape
  <2>4. CASE Step(r)
    <3>1. req'[r].op = req[r].op /\ req[r].pc \notin Over
      BY <1>1, <2>2, <2>4, StepLocal DEF Continues
    <3>2. req[r].op # "create"
      BY <1>4, <3>1, BusyOp DEF MemberSawUser, Creating
    <3>3. ~ (req[r].op = "register" /\ req[r].pc \in {"check", "insert"} /\ req[r].role = "member")
      BY <1>4 DEF MemberSawUser
    <3>4. CASE DecideRole(r)
      <4>1. FirstRole = "admin" /\ FirstRole \in Roles
        BY <1>4 DEF FirstRole, Roles
      <4>2. \E pc \in Stages : Moved(r, pc, req[r].found, FirstRole)
        BY <1>1, <3>4, <4>1, Moves, Null DEF DecideRole, Stages
      <4>3. QED BY <2>2, <3>1, <3>2, <4>1, <4>2 DEF Moved
    <3>5. CASE CheckEmail(r)
      <4>1. CASE Reject(r)
        BY <1>1, <2>2, <4>1, Moves, Null DEF Reject, Stages
      <4>2. CASE Goto(r, "insert") /\ req[r].pc = "check"
        <5>1. Moved(r, "insert", req[r].found, req[r].role)
          BY <1>1, <4>2, Moves, Null DEF Stages
        <5>2. QED BY <2>2, <3>2, <3>3, <3>5, <4>2, <5>1 DEF Moved, CheckEmail
      <4>3. CASE Goto(r, "decide")
        BY <1>1, <2>2, <4>3, Moves, Null DEF Stages, Moved
      <4>4. QED BY <3>5, <4>1, <4>2, <4>3 DEF CheckEmail
    <3>6. CASE req[r].op \in {"register", "callback"} /\ ~ DecideRole(r) /\ ~ CheckEmail(r)
      <4>1. CASE create_user(r) \/ create_user_without_password(r) \/ CreateExchangeCode(r)
                   \/ link_external_identity(r)
        <5>1. req'[r].pc \in Late
          BY <2>4, <4>1, LateStays DEF create_user, create_user_without_password, CreateExchangeCode,
                                       link_external_identity
        <5>2. QED BY <2>2, <5>1 DEF Late
      <4>2. CASE PopState(r) \/ get_user_by_external_identity(r) \/ get_user_by_email(r)
        <5>1. CASE Goto(r, "identity") \/ Goto(r, "email") \/ Goto(r, "decide")
          <6>1. "identity" \in Stages /\ "email" \in Stages /\ "decide" \in Stages
            BY DEF Stages
          <6>2. QED BY <1>1, <2>2, <3>1, <4>2, <5>1, <6>1, Moves, Null
                       DEF Moved, PopState, get_user_by_external_identity, get_user_by_email
        <5>2. CASE Done(r, "refused")
          BY <1>1, <2>2, <5>2, Moves, Null DEF Stages
        <5>3. ASSUME NEW u, NEW pc \in {"code", "link"}, req' = [req EXCEPT ![r].pc = pc, ![r].found = u]
              PROVE  req'[r].pc = pc
          BY <1>1, <5>3 DEF Shape, Request
        <5>4. QED BY <2>2, <3>1, <4>2, <5>1, <5>2, <5>3
                     DEF PopState, get_user_by_external_identity, get_user_by_email
      <4>3. req[r].pc # "issue"
        BY <3>1, <3>6, BusyOp DEF Registering, CallingBack
      <4>4. QED
        BY <2>4, <3>6, <4>1, <4>2, <4>3
           DEF Step, BootstrapRead, bootstrap_admin_user, login, PopRefreshToken, PopExchangeCode, LoadUser,
               _issue_tokens, logout, LoadForChange, update_user, assign_roles
    <3>7. QED BY <2>2, <3>1, <3>2, <3>4, <3>5, <3>6
  <2>5. QED BY <1>2, <2>3, <2>4
<1>5. QED BY <1>3, <1>4

\* The first row of users belongs to an administrator.
LEMMA FirstStep ==
  ASSUME Base, OwnUser, MemberSawUser, Next, ~ has_users, NEW u \in Requests, users'[u] # None
  PROVE  "admin" \in {row[1] : row \in users'[u].roles}
<1>1. Shape /\ Existing = {} /\ users[u] = None
  BY DEF Base, has_users, Existing
<1>2. PICK r \in Requests : Start(r) \/ Step(r)
  BY DEF Next
<1>3. Step(r)
  BY <1>1, <1>2, StartStep
<1>4. PICK email \in Emails, role \in Roles, password \in BOOLEAN : Inserts(r, email, role, password)
  BY <1>1, <1>3, UsersStep
<1>5. u = r /\ users'[r] = NewUser(r, email, role, password)
  BY <1>1, <1>4 DEF Inserts, Shape
<1>6. req[r].pc = "insert"
  BY <1>4 DEF Inserts
<1>7. users' # users
  BY <1>1, <1>5
<1>8. CASE create_user(r)
  <2>1. Registering(r)
    BY <1>6, <1>8, BusyOp DEF create_user, Creating, MemberSawUser, Over
  <2>2. req[r].role = "admin" /\ req[r].op = "register"
    BY <1>6, <2>1 DEF Registering, MemberSawUser, Roles
  <2>3. users' = [users EXCEPT ![r] = NewUser(r, req[r].arg, "admin", TRUE)]
    BY <1>7, <1>8, <2>2 DEF create_user, InsertUser, Reject
  <2>4. QED BY <1>1, <1>5, <2>3 DEF Shape, NewUser
<1>9. CASE create_user_without_password(r)
  <2>1. CallingBack(r)
    BY <1>9, BusyOp DEF create_user_without_password, Over
  <2>2. req[r].role = "admin"
    BY <1>6, <2>1 DEF CallingBack, MemberSawUser, Roles
  <2>3. users' = [users EXCEPT ![r] = NewUser(r, req[r].opt, "admin", FALSE)]
    BY <1>7, <1>9, <2>2 DEF create_user_without_password, InsertUser, Reject
  <2>4. QED BY <1>1, <1>5, <2>3 DEF Shape, NewUser
<1>10. CASE bootstrap_admin_user(r)
  <2>1. req[r].found = None
    BY <1>1, <1>10, BusyOp DEF bootstrap_admin_user, Over, Bootstrapping
  <2>2. users' = [users EXCEPT ![r] = NewUser(r, req[r].arg, "admin", TRUE)]
    BY <1>7, <1>10, <2>1 DEF bootstrap_admin_user, InsertUser, Reject
  <2>3. QED BY <1>1, <1>5, <2>2 DEF Shape, NewUser
<1>11. QED
  BY <1>3, <1>6, <1>8, <1>9, <1>10
     DEF Step, CheckEmail, DecideRole, BootstrapRead, login, PopRefreshToken, PopExchangeCode, LoadUser,
         _issue_tokens, logout, PopState, get_user_by_external_identity, get_user_by_email,
         link_external_identity, CreateExchangeCode, LoadForChange, update_user, assign_roles

-----------------------------------------------------------------------------
(* Administration                                                          *)

\* Only a bootstrap or an update that says so, or that saw the user active, activates
\* a user.
LEMMA ReactivateStep ==
  ASSUME Base, OwnUser, Next
  PROVE  ReactivatedOnPurpose
<1> SUFFICES ASSUME NEW u \in Requests, users[u] # None, ~ users[u].active, users'[u].active
             PROVE  \E r \in Requests :
                      /\ req[r].pc # req'[r].pc
                      /\ \/ req[r].op = "bootstrap"
                         \/ req[r].op = "update" /\ (req[r].opt = "activate" \/ (req[r].opt = "rename" /\ req[r].found))
  BY DEF ReactivatedOnPurpose
<1>1. Shape /\ users[u] \in UserRow
  BY DEF Base, Shape
<1>2. PICK r \in Requests : Start(r) \/ Step(r)
  BY DEF Next
<1>3. Step(r) /\ users'[u] # users[u]
  BY <1>1, <1>2, StartStep
<1>4. CASE bootstrap_admin_user(r)
  <2>1. Done(r, "done") \/ Done(r, "refused")
    BY <1>4 DEF bootstrap_admin_user, InsertUser, Reject
  <2>2. req'[r].pc \in {"done", "refused"}
    BY <1>1, <2>1, Moves, Null DEF Stages
  <2>3. QED BY <1>4, <2>2 DEF bootstrap_admin_user
<1>5. CASE update_user(r)
  <2>1. Updating(r) /\ req[r].pc = "write"
    BY <1>5, BusyOp DEF update_user, Over
  <2>2. req'[r].pc = "done"
    BY <1>1, <1>5, Moves, Null DEF Stages, update_user
  <2>3. req[r].arg \in Requests /\ users[req[r].arg] \in UserRow
    BY <1>1, <2>1 DEF Updating, Existing, Shape
  <2>4. req[r].arg = u /\ WrittenActive(r)
    BY <1>1, <1>3, <1>5, <2>3 DEF update_user, Shape, UserRow
  <2>5. req[r].opt = "activate" \/ (req[r].opt = "rename" /\ req[r].found)
    BY <2>1, <2>4 DEF WrittenActive, Updating, Changes
  <2>6. QED BY <2>1, <2>2, <2>5 DEF Updating
<1>6. CASE assign_roles(r)
  <2>1. Assigning(r)
    BY <1>6, BusyOp DEF assign_roles, Over
  <2>2. req[r].arg \in Requests /\ users[req[r].arg] \in UserRow
    BY <1>1, <2>1 DEF Assigning, Existing, Shape
  <2>3. users'[u].active = users[u].active
    BY <1>1, <1>6, <2>2 DEF assign_roles, Reject, Shape, UserRow
  <2>4. QED BY <2>3
<1>7. CASE create_user(r) \/ create_user_without_password(r)
  <2>1. users[r] = None
    BY <1>7 DEF create_user, create_user_without_password, OwnUser
  <2>2. users'[u] = users[u]
    BY <1>1, <1>7, <2>1 DEF create_user, create_user_without_password, InsertUser, Reject, Shape
  <2>3. QED BY <1>3, <2>2
<1>8. QED
  BY <1>3, <1>4, <1>5, <1>6, <1>7
     DEF Step, CheckEmail, Reject, DecideRole, BootstrapRead, login, PopRefreshToken, PopExchangeCode, LoadUser,
         _issue_tokens, logout, PopState, get_user_by_external_identity, get_user_by_email,
         link_external_identity, CreateExchangeCode, LoadForChange

\* Roles that nobody else has changed are replaced.
LEMMA AssignStep ==
  ASSUME Base, OwnUser, Next
  PROVE  RolesReplaced
<1> SUFFICES ASSUME NEW r \in Requests, req[r].op = "assign", req[r].pc = "write", req'[r].pc = "done",
                    users[req[r].arg].roles = req[r].found
             PROVE  {row[1] : row \in users'[req[r].arg].roles} = req[r].opt
  BY DEF RolesReplaced
<1>1. Shape /\ Existing \subseteq Existing'
  BY UsersGrow DEF Base
<1>2. PICK s \in Requests : Start(s) \/ Step(s)
  BY DEF Next
<1>3. s = r /\ Step(r)
  BY <1>1, <1>2, StartStep, StepLocal DEF OthersAlone
<1>4. assign_roles(r)
  BY <1>3 DEF Step, CheckEmail, DecideRole, create_user, create_user_without_password, BootstrapRead,
         bootstrap_admin_user, login, PopRefreshToken, PopExchangeCode, LoadUser,
         _issue_tokens, logout, PopState, get_user_by_external_identity, get_user_by_email,
         link_external_identity, CreateExchangeCode, LoadForChange, update_user
<1>5. ~ Reject(r)
  BY <1>1, Moves, Null DEF Reject, Stages
<1>6. Assigning(r)
  BY BusyOp DEF Over
<1>7. req[r].arg \in Requests /\ users[req[r].arg] \in UserRow
  BY <1>1, <1>6 DEF Assigning, Existing, Shape
<1>8. KeptRoles(r) = {}
  BY DEF KeptRoles
<1>9. users'[req[r].arg].roles = {<<role, r>> : role \in req[r].opt}
  BY <1>1, <1>4, <1>5, <1>7, <1>8 DEF assign_roles, Shape, UserRow
<1>10. \A x : x \in {row[1] : row \in {<<role, r>> : role \in req[r].opt}} <=> x \in req[r].opt
  <2>1. ASSUME NEW x \in {row[1] : row \in {<<role, r>> : role \in req[r].opt}}
        PROVE  x \in req[r].opt
    OBVIOUS
  <2>2. ASSUME NEW x \in req[r].opt
        PROVE  x \in {row[1] : row \in {<<role, r>> : role \in req[r].opt}}
    <3>1. <<x, r>> \in {<<role, r>> : role \in req[r].opt} /\ <<x, r>>[1] = x
      OBVIOUS
    <3>2. QED BY <3>1
  <2>3. QED BY <2>1, <2>2
<1>11. QED BY <1>9, <1>10

-----------------------------------------------------------------------------
(* Theorems                                                                *)

\* The inductive invariant.
IInv ==
  /\ Base /\ OwnUser
  /\ Descent /\ OneHolder
  /\ SameAddress /\ Linked /\ CodesLinked
  /\ MemberSawUser

\* The initial state satisfies it.
LEMMA InvInit == Init => IInv
<1> SUFFICES ASSUME Init
             PROVE  IInv
  OBVIOUS
<1>1. Fresh \in Request
  BY Null DEF Fresh, Request, Stages
<1>2. Shape
  BY <1>1 DEF Init, Shape
<1>3. \A r \in Requests : req[r].pc = "off" /\ users[r] = None /\ tokens[r] = None /\ family[r] = None
  BY DEF Init, Fresh
<1>4. Local /\ Stored /\ OwnUser
  BY <1>3 DEF Init, Local, Over, Stored, OwnUser, Existing
<1>5. Descent /\ OneHolder
  BY <1>3 DEF Init, Descent, OneHolder, Holders
<1>6. SameAddress /\ Linked /\ CodesLinked /\ MemberSawUser
  BY <1>3 DEF Init, SameAddress, Over, Linked, CodesLinked, MemberSawUser
<1>7. QED BY <1>2, <1>4, <1>5, <1>6 DEF IInv, Base

\* Every step keeps it.
LEMMA InvStep == IInv /\ [Next]_vars => IInv'
<1> SUFFICES ASSUME IInv, [Next]_vars
             PROVE  IInv'
  OBVIOUS
<1> USE DEF IInv
<1>1. CASE UNCHANGED vars
  <2>1. Existing' = Existing
    BY <1>1 DEF vars, Existing
  <2>2. Base'
    BY <1>1, <2>1 DEF vars, Base, Shape, Local, Stored, Busy, Registering, LoggingIn, Refreshing, Exchanging,
                      LoggingOut, CallingBack, Bootstrapping, Creating, Updating, Assigning
  <2>3. OwnUser' /\ Descent' /\ OneHolder'
    BY <1>1, <2>1 DEF vars, OwnUser, Descent, OneHolder, Holders
  <2>4. SameAddress' /\ Linked' /\ CodesLinked' /\ MemberSawUser'
    BY <1>1, <2>1 DEF vars, SameAddress, Linked, CodesLinked, MemberSawUser, has_users
  <2>5. QED BY <2>2, <2>3, <2>4
<1>2. CASE Next
  BY <1>2, BasePreserved, OwnUserPreserved, DescentPreserved, OneHolderPreserved, SameAddressPreserved,
     LinkedPreserved, CodesLinkedPreserved, MemberSawUserPreserved
<1>3. QED BY <1>1, <1>2

\* The invariant holds in every reachable state.
THEOREM Invariant == Spec => []IInv
BY InvInit, InvStep, PTL DEF Spec

\* Accounts keep their types, and no token, code or link names a user that does not
\* exist (auth/repository.py, the Redis stores).
THEOREM TypeCorrect == Spec => []TypeOK
<1>1. IInv => TypeOK
  <2> SUFFICES ASSUME IInv
               PROVE  TypeOK
    OBVIOUS
  <2>1. \A r \in Requests : req[r].pc \in Stages /\ req[r].role \in Roles \cup {None}
    BY DEF IInv, Base, Shape, Request
  <2>2. /\ \A u \in Existing : users[u] \in UserRow
        /\ \A i \in Identities : accounts[i] # None => accounts[i] \in AccountRow /\ accounts[i].user \in Existing
        /\ \A t \in Requests : tokens[t] \in Existing \cup {None} /\ codes[t] \in Existing \cup {None}
    BY DEF IInv, Base, Shape, Stored, Existing
  <2>3. states \subseteq Requests /\ ended \subseteq Requests
    BY DEF IInv, Base, Shape, Descent
  <2>4. QED BY <2>1, <2>2, <2>3 DEF TypeOK
<1>2. QED BY <1>1, Invariant, PTL

\* Rotation of refresh tokens: at most one of a sign-in is live or about to be
\* issued, for any number of requests that present its tokens, and none after a
\* logout that removed the live one (GETDEL in refresh and logout).
THEOREM SessionRotates == Spec => []OneSession
<1>1. IInv => OneSession
  BY OneHolderCounted DEF IInv
<1>2. QED BY <1>1, Invariant, PTL

\* The sign-ins of an identity end at one user unless two addresses met
\* (login_or_register_external_user, link_external_identity).
THEOREM IdentityStable == Spec => []StableIdentity
<1>1. IInv => StableIdentity
  BY DEF IInv, CodesLinked, StableIdentity
<1>2. QED BY <1>1, Invariant, PTL

\* The first user is an administrator whoever wins the race (register,
\* login_or_register_external_user, bootstrap_admin_user).
THEOREM FirstUserAdministers == Spec => FirstIsAdmin
<1>1. IInv /\ [Next]_vars =>
        [\A u \in Requests :
           (~ has_users /\ users'[u] # None) => "admin" \in {row[1] : row \in users'[u].roles}]_vars
  BY FirstStep DEF IInv
<1>2. QED BY <1>1, Invariant, PTL DEF Spec, FirstIsAdmin

\* A deactivation and a replacement of roles are undone only on purpose or by a
\* request that read the user before (update_user, assign_roles).
THEOREM DecisionsStand == Spec => OnlyStaleUndoes
<1>1. IInv /\ [Next]_vars => [ReactivatedOnPurpose /\ RolesReplaced]_vars
  BY ReactivateStep, AssignStep DEF IInv
<1>2. QED BY <1>1, Invariant, PTL DEF Spec, OnlyStaleUndoes
=============================================================================

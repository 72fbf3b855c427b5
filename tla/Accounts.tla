------------------------------ MODULE Accounts ------------------------------
(***************************************************************************)
(* Users, sign-in and user administration: PostgresAuthService over        *)
(* PostgresAuthRepository, the refresh token, OAuth state and OAuth code   *)
(* stores in Redis, and the /auth and /users routes that call them.        *)
(*                                                                         *)
(* Every HTTP request is a process that stops between its database         *)
(* transactions and Redis commands, so what one request read may be stale  *)
(* when it writes.  A request that never takes its next step stands for    *)
(* one whose API process died.  Passwords are correct, GitHub answers, and *)
(* an id or token drawn by a request is named after the request.           *)
(***************************************************************************)
EXTENDS Naturals, FiniteSets

CONSTANTS
  Requests,        \* HTTP requests (and starts of an API process)
  Emails,          \* normalised e-mail addresses
  Identities,      \* GitHub accounts
  BootstrapEmail,  \* BOOTSTRAP_ADMIN_EMAIL
  None             \* null

\* Built-in roles, and the rows of the tables.
Roles == {"admin", "member"}
UserRow == [email : Emails, active : BOOLEAN, password : BOOLEAN, roles : SUBSET (Roles \X Requests)]
AccountRow == [user : Requests, email : Emails]

ASSUME AccountsAssumption ==
  /\ BootstrapEmail \in Emails
  /\ None \notin Requests \cup Emails \cup Identities
  /\ None \notin UserRow /\ None \notin AccountRow

VARIABLES
  req,       \* the requests: operation, arguments, stage, local variables
  users,     \* tables users, user_credentials and user_roles, by user id
  accounts,  \* table oauth_accounts: the user and e-mail of an identity
  tokens,    \* Redis: live refresh tokens and their user
  codes,     \* Redis: live OAuth exchange codes and their user
  states,    \* Redis: live OAuth states
  family,    \* history: sign-in that a refresh token descends from
  ended,     \* history: sign-ins whose refresh token a logout removed
  issued,    \* history: identity and user of every exchange code
  crossed    \* history: identities with sign-ins under two addresses at once

vars == <<req, users, accounts, tokens, codes, states, family, ended, issued, crossed>>
redis == <<tokens, codes, states>>
history == <<family, ended, issued, crossed>>

\* Permissions of the built-in roles that the routes below ask for.
ROLE_PERMISSIONS(role) ==
  IF role = "admin" THEN {"users:read", "users:write", "analysis:create", "analysis:read"}
  ELSE IF role = "member" THEN {"analysis:create", "analysis:read"} ELSE {"analysis:read"}

\* user_roles rows: the role and the request that inserted the row.
RoleNames(u) == {row[1] : row \in users[u].roles}
Permissions(u) == UNION {ROLE_PERMISSIONS(role) : role \in RoleNames(u)}

Existing == {u \in Requests : users[u] # None}
has_users == Existing # {}
ByEmail(email) == {u \in Existing : users[u].email = email}
\* The join with user_credentials leaves out users without a password.
get_user_by_email_with_password(email) == {u \in ByEmail(email) : users[u].password}
Active(u) == users[u] # None /\ users[u].active

Fresh == [op |-> None, arg |-> None, opt |-> None, pc |-> "off", found |-> None, role |-> None]

Init ==
  /\ req = [r \in Requests |-> Fresh]
  /\ users = [u \in Requests |-> None]
  /\ accounts = [i \in Identities |-> None]
  /\ tokens = [t \in Requests |-> None]
  /\ codes = [c \in Requests |-> None]
  /\ states = {}
  /\ family = [t \in Requests |-> None]
  /\ ended = {}
  /\ issued = {}
  /\ crossed = {}

-----------------------------------------------------------------------------
(* Requests                                                                *)

Begin(r, op, arg, opt, pc) ==
  req' = [req EXCEPT ![r] = [op |-> op, arg |-> arg, opt |-> opt, pc |-> pc, found |-> None, role |-> None]]

Idle(r) == req[r].pc = "off" /\ UNCHANGED <<users, accounts, codes, tokens, family, ended, issued>>
Known == UNCHANGED <<states, crossed>>

\* Clients know the tokens and codes they were given, administrators the users.
RegisterRequest(r, email) == Idle(r) /\ Begin(r, "register", email, None, "lookup") /\ Known
LoginRequest(r, email)    == Idle(r) /\ Begin(r, "login", email, None, "lookup") /\ Known
RefreshRequest(r, t)      == Idle(r) /\ family[t] # None /\ Begin(r, "refresh", t, None, "pop") /\ Known
LogoutRequest(r, t)       == Idle(r) /\ family[t] # None /\ Begin(r, "logout", t, None, "pop") /\ Known
ExchangeRequest(r, c)     == /\ Idle(r) /\ (\E p \in issued : p.code = c)
                             /\ Begin(r, "exchange", c, None, "pop") /\ Known
\* github_start has stored a state; GitHub redirects to the callback with it.
CallbackRequest(r, i, email) ==
  /\ Idle(r) /\ Begin(r, "callback", i, email, "pop")
  /\ states' = states \cup {r}
  /\ crossed' = IF \E q \in Requests : /\ req[q].op = "callback" /\ req[q].pc \notin {"done", "refused"}
                                       /\ req[q].arg = i /\ req[q].opt # email
                THEN crossed \cup {i} ELSE crossed
BootstrapStart(r) == Idle(r) /\ Begin(r, "bootstrap", BootstrapEmail, None, "lookup") /\ Known

\* get_current_user and require_permission("users:write").
require_permission(r) ==
  /\ Idle(r) /\ Known
  /\ \E by \in Existing : Active(by) /\ "users:write" \in Permissions(by)
CreateUserRequest(r, email, role) == require_permission(r) /\ Begin(r, "create", email, role, "check")
UpdateUserRequest(r, u, change)   == require_permission(r) /\ users[u] # None /\ Begin(r, "update", u, change, "load")
AssignRolesRequest(r, u, roles)   == require_permission(r) /\ users[u] # None /\ Begin(r, "assign", u, roles, "load")

Goto(r, pc) == req' = [req EXCEPT ![r].pc = pc]
\* The response is sent: nothing the request read is kept.
Done(r, pc) == req' = [req EXCEPT ![r] = [Fresh EXCEPT !.pc = pc]]
Reject(r) == Done(r, "refused") /\ UNCHANGED <<users, accounts, redis, history>>

-----------------------------------------------------------------------------
(* Registration                                                            *)

\* register, and the same check once more in create_user: the address is free.
CheckEmail(r) ==
  /\ \/ req[r].op = "register" /\ req[r].pc = "lookup"
     \/ req[r].op \in {"register", "create"} /\ req[r].pc = "check"
  /\ IF get_user_by_email_with_password(req[r].arg) # {} THEN Reject(r)
     ELSE /\ Goto(r, IF req[r].pc = "lookup" THEN "decide" ELSE "insert")
          /\ UNCHANGED <<users, accounts, redis, history>>

\* The first user of the installation becomes its administrator.
FirstRole == IF ~ has_users THEN "admin" ELSE "member"

DecideRole(r) ==
  /\ req[r].pc = "decide"
  /\ req' = [req EXCEPT ![r].role = FirstRole,
                        ![r].pc = IF req[r].op = "register" THEN "check" ELSE "insert"]
  /\ UNCHANGED <<users, accounts, redis, history>>

NewUser(r, email, role, password) ==
  [email |-> email, active |-> TRUE, password |-> password, roles |-> {<<role, r>>}]

\* uq_users_tenant_email: the transaction of the later insert fails.
InsertUser(r, email, role, password, next) ==
  IF ByEmail(email) # {} THEN Reject(r)
  ELSE /\ users' = [users EXCEPT ![r] = NewUser(r, email, role, password)]
       /\ next
       /\ UNCHANGED <<accounts, redis, family, ended, issued, crossed>>

create_user(r) ==
  /\ req[r].op \in {"register", "create"} /\ req[r].pc = "insert"
  /\ InsertUser(r, req[r].arg, IF req[r].op = "create" THEN req[r].opt ELSE req[r].role, TRUE, Done(r, "done"))

create_user_without_password(r) ==
  /\ req[r].op = "callback" /\ req[r].pc = "insert"
  /\ InsertUser(r, req[r].opt, req[r].role, FALSE,
                req' = [req EXCEPT ![r].pc = "link", ![r].found = r])

\* bootstrap_admin_user: the row is read, then inserted or updated.  The
\* advisory lock keeps two starts apart, not a start and a registration.
BootstrapRead(r) ==
  /\ req[r].op = "bootstrap" /\ req[r].pc = "lookup"
  /\ ~ \E q \in Requests : req[q].op = "bootstrap" /\ req[q].pc = "insert"
  /\ \/ /\ ByEmail(req[r].arg) = {}
        /\ Goto(r, "insert")
     \/ \E u \in ByEmail(req[r].arg) : req' = [req EXCEPT ![r].pc = "insert", ![r].found = u]
  /\ UNCHANGED <<users, accounts, redis, history>>

bootstrap_admin_user(r) ==
  /\ req[r].op = "bootstrap" /\ req[r].pc = "insert"
  /\ IF req[r].found = None
     THEN InsertUser(r, req[r].arg, "admin", TRUE, Done(r, "done"))
     ELSE /\ users' = [users EXCEPT ![req[r].found] =
                         [email |-> @.email, active |-> TRUE, password |-> TRUE,
                          roles |-> IF "admin" \in RoleNames(req[r].found) THEN @.roles
                                    ELSE @.roles \cup {<<"admin", r>>}]]
          /\ Done(r, "done")
          /\ UNCHANGED <<accounts, redis, history>>

-----------------------------------------------------------------------------
(* Sign-in                                                                 *)

login(r) ==
  /\ req[r].op = "login" /\ req[r].pc = "lookup"
  /\ \/ \E u \in get_user_by_email_with_password(req[r].arg) :
          Active(u) /\ req' = [req EXCEPT ![r].pc = "issue", ![r].found = u]
     \/ /\ \A u \in get_user_by_email_with_password(req[r].arg) : ~ Active(u)
        /\ Done(r, "refused")
  /\ UNCHANGED <<users, accounts, redis, history>>

\* Variant: the token is read and stays.
PopTokenKeeps(t) == UNCHANGED tokens

\* GETDEL: the value is read and removed in one command.  An expired key is
\* not found.
PopToken(t) == tokens' = [tokens EXCEPT ![t] = None]

PopCode(c) == codes' = [codes EXCEPT ![c] = None]

PopRefreshToken(r) ==
  /\ req[r].op = "refresh" /\ req[r].pc = "pop"
  /\ PopToken(req[r].arg)
  /\ \/ /\ tokens[req[r].arg] # None
        /\ req' = [req EXCEPT ![r].pc = "load", ![r].found = tokens[req[r].arg]]
     \/ Done(r, "refused")
  /\ UNCHANGED <<users, accounts, codes, states, history>>

PopExchangeCode(r) ==
  /\ req[r].op = "exchange" /\ req[r].pc = "pop"
  /\ PopCode(req[r].arg)
  /\ \/ /\ codes[req[r].arg] # None
        /\ req' = [req EXCEPT ![r].pc = "load", ![r].found = codes[req[r].arg]]
     \/ Done(r, "refused")
  /\ UNCHANGED <<users, accounts, tokens, states, history>>

\* refresh and exchange_code read the user of the token or code they popped.
LoadUser(r) ==
  /\ req[r].op \in {"refresh", "exchange"} /\ req[r].pc = "load"
  /\ IF Active(req[r].found) THEN Goto(r, "issue") ELSE Done(r, "refused")
  /\ UNCHANGED <<users, accounts, redis, history>>

\* A new pair of tokens; an access token is only a signature and is not stored.
_issue_tokens(r) ==
  /\ req[r].pc = "issue"
  /\ tokens' = [tokens EXCEPT ![r] = req[r].found]
  /\ family' = [family EXCEPT ![r] = IF req[r].op = "refresh" THEN family[req[r].arg] ELSE r]
  /\ req' = [req EXCEPT ![r].pc = "done", ![r].found = None, ![r].role = None]
  /\ UNCHANGED <<users, accounts, codes, states, ended, issued, crossed>>

logout(r) ==
  /\ req[r].op = "logout" /\ req[r].pc = "pop"
  /\ LET t == req[r].arg
     IN /\ tokens' = [tokens EXCEPT ![t] = None]
        /\ ended' = IF tokens[t] # None THEN ended \cup {family[t]} ELSE ended
  /\ Done(r, "done")
  /\ UNCHANGED <<users, accounts, codes, states, family, issued, crossed>>

-----------------------------------------------------------------------------
(* GitHub sign-in                                                          *)

\* github_callback removes the state, then talks to GitHub.
PopState(r) ==
  /\ req[r].op = "callback" /\ req[r].pc = "pop"
  /\ states' = states \ {r}
  /\ \/ r \in states /\ Goto(r, "identity")
     \/ Done(r, "refused")
  /\ UNCHANGED <<users, accounts, tokens, codes, history>>

\* Variant: the identity is not looked up.
FindIdentityNot(r) ==
  /\ req[r].op = "callback" /\ req[r].pc = "identity"
  /\ Goto(r, "email")
  /\ UNCHANGED <<users, accounts, redis, history>>

\* login_or_register_external_user: by identity first, then by address.
get_user_by_external_identity(r) ==
  /\ req[r].op = "callback" /\ req[r].pc = "identity"
  /\ LET a == accounts[req[r].arg]
     IN IF a = None THEN Goto(r, "email")
        ELSE IF Active(a.user) THEN req' = [req EXCEPT ![r].pc = "code", ![r].found = a.user]
        ELSE Done(r, "refused")
  /\ UNCHANGED <<users, accounts, redis, history>>

get_user_by_email(r) ==
  /\ req[r].op = "callback" /\ req[r].pc = "email"
  /\ \/ ByEmail(req[r].opt) = {} /\ Goto(r, "decide")
     \/ \E u \in ByEmail(req[r].opt) : req' = [req EXCEPT ![r].pc = "link", ![r].found = u]
  /\ UNCHANGED <<users, accounts, redis, history>>

\* An existing row of the identity keeps its user; one of another identity
\* with this address makes the statement fail.
link_external_identity(r) ==
  /\ req[r].op = "callback" /\ req[r].pc = "link"
  /\ LET i == req[r].arg
         row == [user |-> IF accounts[i] = None THEN req[r].found ELSE accounts[i].user, email |-> req[r].opt]
     IN IF \E j \in Identities \ {i} : accounts[j] # None /\ accounts[j].email = req[r].opt
        THEN Reject(r)
        ELSE /\ accounts' = [accounts EXCEPT ![i] = row]
             /\ Goto(r, "code")
             /\ UNCHANGED <<users, redis, history>>

\* The exchange code is for the user found or created, not for the row linked.
CreateExchangeCode(r) ==
  /\ req[r].op = "callback" /\ req[r].pc = "code"
  /\ codes' = [codes EXCEPT ![r] = req[r].found]
  /\ issued' = issued \cup {[code |-> r, identity |-> req[r].arg, user |-> req[r].found]}
  /\ req' = [req EXCEPT ![r].pc = "done", ![r].found = None, ![r].role = None]
  /\ UNCHANGED <<users, accounts, tokens, states, family, ended, crossed>>

-----------------------------------------------------------------------------
(* User administration                                                     *)

\* update_user and assign_roles read the user; for assign_roles this is the
\* snapshot its DELETE works on.
LoadForChange(r) ==
  /\ req[r].op \in {"update", "assign"} /\ req[r].pc = "load"
  /\ req' = [req EXCEPT ![r].pc = "write",
               ![r].found = IF req[r].op = "update" THEN users[req[r].arg].active ELSE users[req[r].arg].roles]
  /\ UNCHANGED <<users, accounts, redis, history>>

\* Variant: a request that does not mention is_active sets it.
WrittenActiveDefault(r) == req[r].opt # "deactivate"

\* is_active of the UPDATE: the value asked for, else the one that was read.
WrittenActive(r) ==
  IF req[r].opt = "rename" THEN req[r].found ELSE req[r].opt = "activate"

update_user(r) ==
  /\ req[r].op = "update" /\ req[r].pc = "write"
  /\ users' = [users EXCEPT ![req[r].arg].active = WrittenActive(r)]
  /\ Done(r, "done")
  /\ UNCHANGED <<accounts, redis, history>>

\* The rows the transaction saw are deleted, the new ones inserted; one that
\* another transaction has inserted meanwhile violates (user_id, role_id).
KeptRoles(r) == users[req[r].arg].roles \ req[r].found

assign_roles(r) ==
  /\ req[r].op = "assign" /\ req[r].pc = "write"
  /\ IF \E row \in KeptRoles(r) : row[1] \in req[r].opt
     THEN Reject(r)
     ELSE /\ users' = [users EXCEPT ![req[r].arg].roles = KeptRoles(r) \cup {<<role, r>> : role \in req[r].opt}]
          /\ Done(r, "done")
          /\ UNCHANGED <<accounts, redis, history>>

Changes == {"rename", "activate", "deactivate"}

Start(r) ==
  \/ \E email \in Emails : RegisterRequest(r, email) \/ LoginRequest(r, email)
  \/ \E t \in Requests : RefreshRequest(r, t) \/ LogoutRequest(r, t) \/ ExchangeRequest(r, t)
  \/ \E i \in Identities, email \in Emails : CallbackRequest(r, i, email)
  \/ BootstrapStart(r)
  \/ \E email \in Emails, role \in Roles : CreateUserRequest(r, email, role)
  \/ \E u \in Requests, change \in Changes : UpdateUserRequest(r, u, change)
  \/ \E u \in Requests, role \in Roles : AssignRolesRequest(r, u, {role})

Step(r) ==
  \/ CheckEmail(r) \/ DecideRole(r) \/ create_user(r) \/ create_user_without_password(r)
  \/ BootstrapRead(r) \/ bootstrap_admin_user(r)
  \/ login(r) \/ PopRefreshToken(r) \/ PopExchangeCode(r) \/ LoadUser(r) \/ _issue_tokens(r) \/ logout(r)
  \/ PopState(r) \/ get_user_by_external_identity(r) \/ get_user_by_email(r)
  \/ link_external_identity(r) \/ CreateExchangeCode(r)
  \/ LoadForChange(r) \/ update_user(r) \/ assign_roles(r)

Next == \E r \in Requests : Start(r) \/ Step(r)

Spec == Init /\ [][Next]_vars

-----------------------------------------------------------------------------
(* Properties                                                              *)

Stages == {"off", "lookup", "decide", "check", "insert", "pop", "load", "issue", "identity", "email",
           "link", "code", "write", "done", "refused"}

\* Types of the variables.
TypeOK ==
  /\ \A r \in Requests : req[r].pc \in Stages /\ req[r].role \in Roles \cup {None}
  /\ \A u \in Existing : users[u] \in UserRow
  /\ \A i \in Identities : accounts[i] # None => accounts[i] \in AccountRow /\ accounts[i].user \in Existing
  /\ \A t \in Requests : tokens[t] \in Existing \cup {None} /\ codes[t] \in Existing \cup {None}
  /\ states \subseteq Requests /\ ended \subseteq Requests

\* Rotation: however many requests present the refresh tokens of a sign-in,
\* concurrently or again, at most one refresh token of it is live or about to
\* be issued; and none is once a logout has removed the live one, whatever
\* refreshes of that sign-in are under way.
OneSession ==
  \A f \in Requests :
    Cardinality({t \in Requests : tokens[t] # None /\ family[t] = f}
                \cup {r \in Requests : req[r].op = "refresh" /\ req[r].pc \in {"load", "issue"}
                                       /\ family[req[r].arg] = f}) <= IF f \in ended THEN 0 ELSE 1

\* The installation is never left to a user who may not administer it: the
\* first row of users is committed with the role admin, whichever
\* registrations, GitHub sign-ins and bootstraps race for being first.
FirstIsAdmin ==
  [][\A u \in Requests :
       (~ has_users /\ users'[u] # None) => "admin" \in {row[1] : row \in users'[u].roles}]_vars

\* Two GitHub sign-ins of one identity end at the same user, the one the
\* identity is linked to, also after its address has changed and when a sign-in
\* stopped between creating the user and linking it.  Excepted are sign-ins with
\* different addresses that were under way together.
StableIdentity ==
  \A p, q \in issued :
    p.identity = q.identity /\ p.identity \notin crossed => p.user = q.user

\* A step that activates a deactivated user was asked to, or read the row
\* before the deactivation (update_user writes back the flag it read).
ReactivatedOnPurpose ==
  \A u \in Requests :
    (users[u] # None /\ ~ users[u].active /\ users'[u].active) =>
      \E r \in Requests :
        /\ req[r].pc # req'[r].pc
        /\ \/ req[r].op = "bootstrap"
           \/ req[r].op = "update" /\ (req[r].opt = "activate" \/ (req[r].opt = "rename" /\ req[r].found))

\* A step that assigns roles leaves exactly those, unless another request
\* changed the roles after its DELETE had begun.
RolesReplaced ==
  \A r \in Requests :
    (req[r].op = "assign" /\ req[r].pc = "write" /\ req'[r].pc = "done") =>
      \/ {row[1] : row \in users'[req[r].arg].roles} = req[r].opt
      \/ users[req[r].arg].roles # req[r].found

\* What an administrator decided about a user is undone only by a request that
\* says so or that read the user before the decision: a deactivation by
\* update_user, and the replacement of the roles by assign_roles.
OnlyStaleUndoes == [][ReactivatedOnPurpose /\ RolesReplaced]_vars
=============================================================================

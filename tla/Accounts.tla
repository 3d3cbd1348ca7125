------------------------------ MODULE Accounts ------------------------------
(***************************************************************************)
(* The accounts of booking-service and the tokens by which both services   *)
(* know who is calling.  Clients register and log in at once, with the     *)
(* same e-mail or different ones; a token is signed, stored nowhere, and   *)
(* looked at once, when a call arrives.                                    *)
(*                                                                         *)
(* A password stands for its first 72 bytes, which is all of it that a     *)
(* registration accepts and bcrypt compares; an e-mail is the string as it *)
(* was sent.  The uuid of a new row is named after its request.  One unit  *)
(* of time is the second to which a token's times are cut.                 *)
(***************************************************************************)
EXTENDS Naturals

CONSTANTS Requests,      \* calls of both services
          Emails,        \* e-mails of the requests and of the seed
          Passwords,     \* passwords of the requests
          Endpoints,     \* protected endpoints that are called
          None,          \* no row, no password, no token
          dummyAdminID, dummyUserID,    \* the accounts of dummyLogin
          AdminEmail, UserEmail,        \* their e-mails, of migration 0006
          Lifetime,      \* tokenTTL
          MaxTime        \* bound of the clock

\* What RequireRole lets through, by handler.
AdminEndpoints == {"createRoom", "createSchedule", "listBookings"}
UserEndpoints == {"createBooking", "listUserBookings", "cancelBooking"}
OpenEndpoints == {"listRooms", "listSlots"}
NotificationEndpoints == {"issueToken", "list", "markRead", "markAllRead"}

ASSUME SeedAssumption ==
    /\ AdminEmail \in Emails /\ UserEmail \in Emails /\ AdminEmail # UserEmail
    /\ dummyAdminID # dummyUserID
    /\ dummyAdminID \notin Requests /\ dummyUserID \notin Requests

ASSUME ConstantsAssumption ==
    /\ Endpoints \subseteq
          AdminEndpoints \cup UserEndpoints \cup OpenEndpoints \cup NotificationEndpoints
    /\ Lifetime \in Nat \ {0}
    /\ MaxTime \in Nat

VARIABLES users,   \* table users
          pc,      \* pc[r]: the next step of request r
          req,     \* req[r]: what r asks for
          row,     \* row[r]: the row a login has read
          answer,  \* answer[r]: status and token of the answer
          now      \* the clock

vars == <<users, pc, req, row, answer, now>>

Roles == {"admin", "user"}
Ids == Requests \cup {dummyAdminID, dummyUserID}
Row == [id : Ids, email : Emails, password : Passwords \cup {None}, role : Roles]
Token == [id : Ids, role : Roles, iat : Nat, exp : Nat]

Registration == [op : {"register"}, email : Emails, password : Passwords, role : Roles]

\* `known': when the login arrived, somebody had been answered that an account
\* with its e-mail and password exists (history).
Login == [op : {"login"}, email : Emails, password : Passwords, known : BOOLEAN]

DummyLogin == [op : {"dummyLogin"}, role : Roles]
Call == [op : {"call"}, endpoint : Endpoints, token : Token \cup {None}, at : Nat]

\* None is told from everything it stands in for.
ASSUME NoneAssumption ==
    None \notin Passwords \cup Token \cup Registration \cup Login \cup DummyLogin \cup Call

NoAnswer == [status |-> 0, token |-> None]

\* Migration 0006.
Seed == {[id |-> dummyAdminID, email |-> AdminEmail, password |-> None, role |-> "admin"],
         [id |-> dummyUserID, email |-> UserEmail, password |-> None, role |-> "user"]}

Init ==
    /\ users = Seed
    /\ pc = [r \in Requests |-> "new"]
    /\ req = [r \in Requests |-> None]
    /\ row = [r \in Requests |-> None]
    /\ answer = [r \in Requests |-> NoAnswer]
    /\ now = 0

Goto(r, step) == pc' = [pc EXCEPT ![r] = step]
Ask(r, what) == req' = [req EXCEPT ![r] = what]

Answer(r, status, token) ==
    /\ answer' = [answer EXCEPT ![r] = [status |-> status, token |-> token]]
    /\ Goto(r, "done")

(***************************************************************************)
(* Registration.                                                           *)
(***************************************************************************)
\* A body, e-mail, password or role the three public handlers do not accept.
Malformed(r) ==
    /\ pc[r] = "new"
    /\ Answer(r, 400, None)
    /\ UNCHANGED <<users, req, row, now>>

Register(r) ==
    /\ pc[r] = "new"
    /\ \E what \in Registration : Ask(r, what)
    /\ Goto(r, "insert")
    /\ UNCHANGED <<users, row, answer, now>>

\* Defect: the column is not UNIQUE.
EmailTakenNever(email) == email \notin Emails

EmailTaken(email) == \E x \in users : x.email = email

NewRow(r) == [id |-> r, email |-> req[r].email,
              password |-> req[r].password, role |-> req[r].role]

\* The one INSERT: refused by the index, or applied, with or without an answer.
CreateUser(r) ==
    /\ pc[r] = "insert"
    /\ IF EmailTaken(req[r].email)
       THEN Answer(r, 400, None) /\ UNCHANGED users
       ELSE /\ users' = users \cup {NewRow(r)}
            /\ \E status \in {201, 500} : Answer(r, status, None)
    /\ UNCHANGED <<req, row, now>>

(***************************************************************************)
(* Tokens.                                                                 *)
(***************************************************************************)
GenerateToken(id, role) == [id |-> id, role |-> role, iat |-> now, exp |-> now + Lifetime]

\* Defect: the two uuids are exchanged.
DummyIDExchanged(role) == IF role = "admin" THEN dummyUserID ELSE dummyAdminID

DummyID(role) == IF role = "admin" THEN dummyAdminID ELSE dummyUserID

\* dummyLogin asks no table.
LoginAsDummy(r) ==
    /\ pc[r] = "new"
    /\ \E what \in DummyLogin :
          /\ Ask(r, what)
          /\ Answer(r, 200, GenerateToken(DummyID(what.role), what.role))
    /\ UNCHANGED <<users, row, now>>

Acknowledged(email, password) ==
    \E q \in Requests : /\ pc[q] = "done"
                        /\ answer[q].status = 201
                        /\ req[q].email = email /\ req[q].password = password

LogIn(r) ==
    /\ pc[r] = "new"
    /\ \E email \in Emails, password \in Passwords :
          Ask(r, [op |-> "login", email |-> email, password |-> password,
                  known |-> Acknowledged(email, password)])
    /\ Goto(r, "read")
    /\ UNCHANGED <<users, row, answer, now>>

GetUserByEmail(r) ==
    /\ pc[r] = "read"
    /\ \/ \E x \in users : /\ x.email = req[r].email
                           /\ row' = [row EXCEPT ![r] = x]
          /\ Goto(r, "compare")
          /\ UNCHANGED answer
       \/ /\ ~EmailTaken(req[r].email)
          /\ Answer(r, 401, None)
          /\ UNCHANGED row
    /\ UNCHANGED <<users, req, now>>

\* Defect: an account without a password accepts every one.
MatchesUnset(x, password) == x.password \in {None, password}

\* The password, if the account has one, against the hash.
Matches(x, password) == x.password # None /\ x.password = password

Compare(r) ==
    /\ pc[r] = "compare"
    /\ IF Matches(row[r], req[r].password)
       THEN Answer(r, 200, GenerateToken(row[r].id, row[r].role))
       ELSE Answer(r, 401, None)
    /\ UNCHANGED <<users, req, row, now>>

\* The statement fails, or the deadline or a crash ends the request.
Fail(r) ==
    /\ pc[r] \in {"insert", "read", "compare"}
    /\ Answer(r, 500, None)
    /\ UNCHANGED <<users, req, row, now>>

(***************************************************************************)
(* Calls with a token.                                                     *)
(***************************************************************************)
\* Tokens clients have been given.
Given == {answer[r].token : r \in Requests} \ {None}

\* ParseToken: signed by us, and not expired.  None stands for no header,
\* another scheme, another signature.
Valid(token) == token # None /\ now < token.exp

\* Defect: the routes are mounted without RequireRole.
AllowedUnchecked(endpoint, role) == endpoint \in Endpoints

Allowed(endpoint, role) ==
    \/ endpoint \in OpenEndpoints \cup NotificationEndpoints
    \/ endpoint \in AdminEndpoints /\ role = "admin"
    \/ endpoint \in UserEndpoints /\ role = "user"

\* Auth and RequireRole; status 200 is a call that has reached its handler.
CallEndpoint(r) ==
    /\ pc[r] = "new"
    /\ \E endpoint \in Endpoints, token \in Given \cup {None} :
          /\ Ask(r, [op |-> "call", endpoint |-> endpoint, token |-> token, at |-> now])
          /\ Answer(r, IF ~Valid(token) THEN 401
                       ELSE IF ~Allowed(endpoint, token.role) THEN 403 ELSE 200, None)
    /\ UNCHANGED <<users, row, now>>

Tick ==
    /\ now < MaxTime
    /\ now' = now + 1
    /\ UNCHANGED <<users, pc, req, row, answer>>

Step(r) ==
    \/ Malformed(r) \/ Register(r) \/ CreateUser(r)
    \/ LoginAsDummy(r) \/ LogIn(r) \/ GetUserByEmail(r) \/ Compare(r)
    \/ Fail(r) \/ CallEndpoint(r)

Next == (\E r \in Requests : Step(r)) \/ Tick

Spec == Init /\ [][Next]_vars

(***************************************************************************)
(* Properties.                                                             *)
(***************************************************************************)

\* Type invariant.
TypeOK ==
    /\ users \subseteq Row
    /\ pc \in [Requests -> {"new", "insert", "read", "compare", "done"}]
    /\ req \in [Requests -> Registration \cup Login \cup DummyLogin \cup Call \cup {None}]
    /\ row \in [Requests -> Row \cup {None}]
    /\ answer \in [Requests -> [status : {0, 200, 201, 400, 401, 403, 500},
                                token : Token \cup {None}]]
    /\ now \in Nat

\* A registration answered with 201 has the only account of its e-mail, as it
\* asked for it; one refused because the e-mail is taken is refused because of
\* somebody else's account, whoever raced it.
RegistrationsAnswered ==
    \A r \in Requests : pc[r] = "done" /\ req[r] \in Registration =>
        /\ answer[r].status = 201 => {x \in users : x.email = req[r].email} = {NewRow(r)}
        /\ answer[r].status = 400 => \E x \in users : x.email = req[r].email /\ x.id # r

\* A login is answered with a token of the account whose e-mail and password it
\* named, and never with 401 when it was sent after the registration had been
\* acknowledged; an account without a password is never given to anybody.
LoginsAnswered ==
    \A r \in Requests : pc[r] = "done" /\ req[r] \in Login =>
        /\ answer[r].status = 200 =>
              [id |-> answer[r].token.id, email |-> req[r].email,
               password |-> req[r].password, role |-> answer[r].token.role] \in users
        /\ answer[r].status = 401 => ~req[r].known

\* Every token a client holds names an account of table users, with its role:
\* the foreign key of bookings.user_id finds its row, also for the accounts of
\* dummyLogin, which asks no table.
TokensNameAccounts ==
    \A token \in Given : \E x \in users : x.id = token.id /\ x.role = token.role

\* A call reaches its handler only in the name of an account whose role may use
\* the endpoint, within the lifetime of a login of that account.
CallsInRight ==
    \A r \in Requests : pc[r] = "done" /\ req[r] \in Call /\ answer[r].status = 200 =>
        \E l \in Requests, x \in users :
            /\ answer[l].token = req[r].token
            /\ x.id = req[r].token.id
            /\ req[r].endpoint \in AdminEndpoints => x.role = "admin"
            /\ req[r].endpoint \in UserEndpoints => x.role = "user"
            /\ req[r].at < answer[l].token.iat + Lifetime
=============================================================================

--------------------------- MODULE AccountsProofs ---------------------------
(***************************************************************************)
(* Proofs about Accounts for any number of requests, e-mails, passwords    *)
(* and endpoints, any lifetime of tokens and any clock.                    *)
(*                                                                         *)
(* What a request has been answered speaks of rows that were read or       *)
(* written before.  It stays true because rows are only added, because     *)
(* nobody else adds one with the same e-mail (OneAccountPerEmail), and     *)
(* because the request behind a row or a token never changes again.        *)
(***************************************************************************)
EXTENDS Accounts, TLAPS

OneAccountPerEmail == \A x, y \in users : x.email = y.email => x = y

\* A row that is not of the seed is the one its request asked for.
OwnRows ==
    \A x \in users : x.id \in Requests =>
        pc[x.id] = "done" /\ req[x.id] \in Registration /\ x = NewRow(x.id)

\* What the step of request r says of its parameters and of the row it has read.
ControlOf(r) ==
    /\ pc[r] = "new" => req[r] = None
    /\ pc[r] # "done" => answer[r] = NoAnswer
    /\ pc[r] = "insert" => req[r] \in Registration
    /\ pc[r] \in {"read", "compare"} => req[r] \in Login
    /\ pc[r] = "compare" => row[r] \in users /\ row[r].email = req[r].email

\* What a login knows of the table when it arrives.
KnownOf(r) ==
    req[r] \in Login /\ req[r].known =>
        \E x \in users : x.email = req[r].email /\ x.password = req[r].password

RegistrationOf(r) ==
    /\ answer[r].status = 201 => req[r] \in Registration /\ NewRow(r) \in users
    /\ pc[r] = "done" /\ req[r] \in Registration /\ answer[r].status = 400 =>
          \E x \in users : x.email = req[r].email /\ x.id # r

LoginOf(r) ==
    pc[r] = "done" /\ req[r] \in Login =>
        /\ answer[r].status = 200 =>
              [id |-> answer[r].token.id, email |-> req[r].email,
               password |-> req[r].password, role |-> answer[r].token.role] \in users
        /\ answer[r].status = 401 => ~req[r].known

TokenOf(r) ==
    answer[r].token # None =>
        /\ answer[r].token.exp = answer[r].token.iat + Lifetime
        /\ \E x \in users : x.id = answer[r].token.id /\ x.role = answer[r].token.role

CallOf(r) ==
    pc[r] = "done" /\ req[r] \in Call /\ answer[r].status = 200 =>
        /\ req[r].token # None
        /\ \E l \in Requests, x \in users :
            /\ answer[l].token = req[r].token
            /\ x.id = req[r].token.id
            /\ req[r].endpoint \in AdminEndpoints => x.role = "admin"
            /\ req[r].endpoint \in UserEndpoints => x.role = "user"
            /\ req[r].at < answer[l].token.iat + Lifetime

RequestOf(r) ==
    /\ ControlOf(r) /\ KnownOf(r)
    /\ RegistrationOf(r) /\ LoginOf(r) /\ TokenOf(r) /\ CallOf(r)

\* The accounts of the seed stay.
SeedStays == Seed \subseteq users

Inv == TypeOK /\ SeedStays /\ OneAccountPerEmail /\ OwnRows /\ \A r \in Requests : RequestOf(r)

-----------------------------------------------------------------------------
\* The two seeded rows are rows, have different e-mails and belong to no request.
LEMMA SeedFacts ==
    /\ Seed \subseteq Row
    /\ \A x, y \in Seed : x.email = y.email => x = y
    /\ \A x \in Seed : x.id \notin Requests
BY SeedAssumption DEF Seed, Row, Ids, Roles

\* The kinds of requests exclude one another.
LEMMA Kinds ==
    /\ \A what \in Registration : what \notin Login /\ what \notin Call /\ what # None
    /\ \A what \in Login : what \notin Registration /\ what \notin Call /\ what # None
    /\ \A what \in DummyLogin : what \notin Registration /\ what \notin Login /\ what \notin Call
    /\ \A what \in Call : what \notin Registration /\ what \notin Login /\ what # None
    /\ None \notin Registration /\ None \notin Login /\ None \notin Call
BY NoneAssumption DEF Registration, Login, DummyLogin, Call

\* The invariant holds in the initial states.
LEMMA InitInv == Init => Inv
<1> SUFFICES ASSUME Init PROVE Inv
    OBVIOUS
<1>1. TypeOK
    BY SeedFacts DEF Init, TypeOK, NoAnswer
<1>2. SeedStays /\ OneAccountPerEmail /\ OwnRows
    BY SeedFacts DEF Init, SeedStays, OneAccountPerEmail, OwnRows
<1>3. ASSUME NEW r \in Requests PROVE RequestOf(r)
    BY <1>3, Kinds DEF Init, NoAnswer, RequestOf, ControlOf, KnownOf, RegistrationOf,
       LoginOf, TokenOf, CallOf
<1> QED
    BY <1>1, <1>2, <1>3 DEF Inv

\* A step of one request leaves the others as they are and only adds rows.
LEMMA StepFrame ==
    ASSUME TypeOK, NEW q \in Requests, Step(q)
    PROVE  /\ pc[q] # "done"
           /\ users \subseteq users'
           /\ \A r \in Requests \ {q} : /\ pc'[r] = pc[r] /\ req'[r] = req[r]
                                        /\ row'[r] = row[r] /\ answer'[r] = answer[r]
BY DEF TypeOK, Step, Malformed, Register, CreateUser, LoginAsDummy, LogIn, GetUserByEmail,
       Compare, Fail, CallEndpoint, Ask, Answer, Goto

\* What is known of a request stays true while another one takes a step.
LEMMA OthersStay ==
    ASSUME Inv, NEW q \in Requests, Step(q), NEW r \in Requests, r # q
    PROVE  RequestOf(r)'
<1> USE DEF Inv
<1>1. /\ pc'[r] = pc[r] /\ req'[r] = req[r] /\ row'[r] = row[r] /\ answer'[r] = answer[r]
      /\ users \subseteq users'
    BY StepFrame
<1>2. RequestOf(r)
    OBVIOUS
<1>3. ControlOf(r)' /\ KnownOf(r)'
    BY <1>1, <1>2 DEF RequestOf, ControlOf, KnownOf
<1>4. RegistrationOf(r)' /\ LoginOf(r)' /\ TokenOf(r)'
    BY <1>1, <1>2 DEF RequestOf, RegistrationOf, LoginOf, TokenOf, NewRow
<1>5. CallOf(r)'
    <2> SUFFICES ASSUME pc[r] = "done", req[r] \in Call, answer[r].status = 200
                 PROVE  CallOf(r)'
        BY <1>1 DEF CallOf
    <2>1. PICK l \in Requests, x \in users :
            /\ answer[l].token = req[r].token
            /\ x.id = req[r].token.id
            /\ req[r].endpoint \in AdminEndpoints => x.role = "admin"
            /\ req[r].endpoint \in UserEndpoints => x.role = "user"
            /\ req[r].at < answer[l].token.iat + Lifetime
        BY <1>2 DEF RequestOf, CallOf
    <2>2. req[r].token # None
        BY <1>2 DEF RequestOf, CallOf
    <2>3. l # q
        BY <2>1, <2>2, StepFrame DEF RequestOf, ControlOf, NoAnswer
    <2>4. answer'[l] = answer[l] /\ x \in users'
        BY <1>1, <2>3, StepFrame
    <2> QED
        BY <1>1, <2>1, <2>2, <2>4 DEF CallOf
<1> QED
    BY <1>3, <1>4, <1>5 DEF RequestOf

\* A step that adds no row only has to be looked at for its own request.
LEMMA NoRowAdded ==
    ASSUME Inv, NEW q \in Requests, Step(q), users' = users, TypeOK', RequestOf(q)'
    PROVE  Inv'
<1> USE DEF Inv
<1>1. SeedStays' /\ OneAccountPerEmail'
    BY DEF SeedStays, OneAccountPerEmail
<1>2. OwnRows'
    BY StepFrame DEF OwnRows, NewRow
<1>3. ASSUME NEW r \in Requests PROVE RequestOf(r)'
    BY OthersStay
<1> QED
    BY <1>1, <1>2, <1>3

\* The requests that end, or begin, without having seen a row.
LEMMA PlainStep ==
    ASSUME Inv, NEW q \in Requests, Malformed(q) \/ Register(q) \/ Fail(q)
    PROVE  Inv'
<1>1. Step(q) /\ users' = users
    BY DEF Step, Malformed, Register, Fail
<1>2. TypeOK /\ RequestOf(q)
    BY DEF Inv
<1>3. TypeOK'
    BY <1>2 DEF TypeOK, Malformed, Register, Fail, Answer, Ask, Goto
<1>4. RequestOf(q)'
    <2>1. CASE Malformed(q)
        <3>1. /\ pc'[q] = "done" /\ req'[q] = None
              /\ answer'[q] = [status |-> 400, token |-> None]
            BY <2>1, <1>2 DEF Malformed, Answer, Goto, TypeOK, RequestOf, ControlOf
        <3> QED
            BY <3>1, Kinds DEF RequestOf, ControlOf, KnownOf, RegistrationOf, LoginOf, TokenOf, CallOf
    <2>2. CASE Register(q)
        <3>1. pc'[q] = "insert" /\ req'[q] \in Registration /\ answer'[q] = NoAnswer
            BY <2>2, <1>2 DEF Register, Ask, Goto, TypeOK, RequestOf, ControlOf
        <3> QED
            BY <3>1, Kinds DEF RequestOf, ControlOf, KnownOf, RegistrationOf, LoginOf, TokenOf,
               CallOf, NoAnswer
    <2>3. CASE Fail(q)
        <3>1. /\ pc'[q] = "done" /\ req'[q] = req[q] /\ users' = users
              /\ answer'[q] = [status |-> 500, token |-> None]
              /\ req[q] \in Registration \cup Login
            BY <2>3, <1>2 DEF Fail, Answer, Goto, TypeOK, RequestOf, ControlOf
        <3> QED
            BY <3>1, <1>2, Kinds DEF RequestOf, ControlOf, KnownOf, RegistrationOf, LoginOf,
               TokenOf, CallOf
    <2> QED
        BY <2>1, <2>2, <2>3
<1> QED
    BY <1>1, <1>3, <1>4, NoRowAdded

\* A new row is the only one of its e-mail, and its request's.
LEMMA CreateUserStep ==
    ASSUME Inv, NEW q \in Requests, CreateUser(q)
    PROVE  Inv'
<1>1. Step(q)
    BY DEF Step
<1>2. TypeOK /\ SeedStays /\ RequestOf(q) /\ OneAccountPerEmail /\ OwnRows
    BY DEF Inv
<1>3. pc[q] = "insert" /\ req[q] \in Registration /\ req' = req /\ now' = now
    BY <1>2 DEF CreateUser, RequestOf, ControlOf
<1>4. pc'[q] = "done"
    BY <1>2 DEF CreateUser, Answer, Goto, TypeOK
<1>5. NewRow(q) \in Row /\ NewRow(q).email = req[q].email /\ NewRow(q).id = q
    BY <1>3 DEF NewRow, Row, Ids, Registration
<1>6. TypeOK'
    BY <1>2, <1>5 DEF CreateUser, Answer, Goto, TypeOK
<1>7. CASE EmailTaken(req[q].email)
    <2>1. users' = users /\ answer'[q] = [status |-> 400, token |-> None]
        BY <1>2, <1>7 DEF CreateUser, Answer, TypeOK
    <2>2. \E x \in users : x.email = req[q].email /\ x.id # q
        BY <1>2, <1>3, <1>7 DEF EmailTaken, OwnRows
    <2>3. RequestOf(q)'
        BY <1>3, <1>4, <2>1, <2>2, Kinds DEF RequestOf, ControlOf, KnownOf, RegistrationOf,
           LoginOf, TokenOf, CallOf
    <2> QED
        BY <1>1, <1>6, <2>1, <2>3, NoRowAdded
<1>8. CASE ~EmailTaken(req[q].email)
    <2>1. /\ users' = users \cup {NewRow(q)}
          /\ answer'[q].status \in {201, 500} /\ answer'[q].token = None
        BY <1>2, <1>8 DEF CreateUser, Answer, TypeOK
    <2>2. SeedStays' /\ OneAccountPerEmail'
        BY <1>2, <1>5, <1>8, <2>1 DEF SeedStays, OneAccountPerEmail, EmailTaken
    <2>3. OwnRows'
        BY <1>1, <1>2, <1>3, <1>4, <1>5, <2>1, StepFrame DEF OwnRows, NewRow
    <2>4. RequestOf(q)'
        BY <1>3, <1>4, <2>1, Kinds DEF RequestOf, ControlOf, KnownOf, RegistrationOf,
           LoginOf, TokenOf, CallOf, NewRow
    <2>5. ASSUME NEW r \in Requests PROVE RequestOf(r)'
        BY <1>1, <2>4, OthersStay
    <2> QED
        BY <1>6, <2>2, <2>3, <2>5 DEF Inv
<1> QED
    BY <1>7, <1>8

\* What GenerateToken returns.
LEMMA TokenFacts ==
    ASSUME TypeOK, NEW id \in Ids, NEW role \in Roles
    PROVE  LET token == GenerateToken(id, role) IN
           /\ token \in Token /\ token # None
           /\ token.id = id /\ token.role = role /\ token.exp = token.iat + Lifetime
BY ConstantsAssumption, NoneAssumption DEF TypeOK, GenerateToken, Token

\* The accounts of dummyLogin are in the seed.
LEMMA DummyStep ==
    ASSUME Inv, NEW q \in Requests, LoginAsDummy(q)
    PROVE  Inv'
<1>1. Step(q) /\ users' = users /\ now' = now /\ row' = row
    BY DEF Step, LoginAsDummy
<1>2. TypeOK /\ RequestOf(q)
    BY DEF Inv
<1>3. PICK what \in DummyLogin :
          Ask(q, what) /\ Answer(q, 200, GenerateToken(DummyID(what.role), what.role))
    BY DEF LoginAsDummy
<1>4. what.role \in Roles /\ DummyID(what.role) \in Ids
    BY DEF DummyLogin, Roles, DummyID, Ids
<1> DEFINE token == GenerateToken(DummyID(what.role), what.role)
<1>5. /\ token \in Token /\ token # None /\ token.exp = token.iat + Lifetime
      /\ token.id = DummyID(what.role) /\ token.role = what.role
    BY <1>2, <1>4, TokenFacts
<1>6. \E x \in users : x.id = token.id /\ x.role = token.role
    BY <1>4, <1>5 DEF Inv, SeedStays, Seed, DummyID, Roles
<1> HIDE DEF token
<1>7. /\ pc'[q] = "done" /\ req'[q] = what
      /\ answer'[q] = [status |-> 200, token |-> token]
    BY <1>2, <1>3 DEF Ask, Answer, Goto, TypeOK, token
<1>8. TypeOK'
    BY <1>1, <1>2, <1>3, <1>5 DEF Ask, Answer, Goto, TypeOK, token
<1>9. RequestOf(q)'
    BY <1>1, <1>5, <1>6, <1>7, Kinds DEF RequestOf, ControlOf, KnownOf, RegistrationOf, LoginOf,
       TokenOf, CallOf
<1> QED
    BY <1>1, <1>8, <1>9, NoRowAdded

\* A login that arrives knows what has been acknowledged, and the rows of that
\* are there.
LEMMA LogInStep ==
    ASSUME Inv, NEW q \in Requests, LogIn(q)
    PROVE  Inv'
<1>1. Step(q) /\ users' = users /\ now' = now /\ row' = row /\ answer' = answer
    BY DEF Step, LogIn
<1>2. TypeOK /\ RequestOf(q) /\ pc[q] = "new"
    BY DEF Inv, LogIn
<1>3. PICK email \in Emails, password \in Passwords :
          Ask(q, [op |-> "login", email |-> email, password |-> password,
                  known |-> Acknowledged(email, password)])
    BY DEF LogIn
<1> DEFINE what == [op |-> "login", email |-> email, password |-> password,
                    known |-> Acknowledged(email, password)]
<1>4. what \in Login
    BY DEF Login, Acknowledged
<1>5. what.known => \E x \in users : x.email = what.email /\ x.password = what.password
    <2> SUFFICES ASSUME Acknowledged(email, password)
                 PROVE  \E x \in users : x.email = email /\ x.password = password
        OBVIOUS
    <2>1. PICK r \in Requests : /\ answer[r].status = 201
                                /\ req[r].email = email /\ req[r].password = password
        BY DEF Acknowledged
    <2>2. RegistrationOf(r)
        BY DEF Inv, RequestOf
    <2>3. NewRow(r) \in users
        BY <2>1, <2>2 DEF RegistrationOf
    <2>4. NewRow(r).email = email /\ NewRow(r).password = password
        BY <2>1 DEF NewRow
    <2> QED
        BY <2>3, <2>4
<1> HIDE DEF what
<1>6. pc'[q] = "read" /\ req'[q] = what /\ answer'[q] = NoAnswer
    BY <1>1, <1>2, <1>3 DEF Ask, Goto, LogIn, TypeOK, RequestOf, ControlOf, what
<1>7. TypeOK'
    BY <1>1, <1>2, <1>3, <1>4 DEF LogIn, Ask, Goto, TypeOK, what
<1>8. RequestOf(q)'
    BY <1>1, <1>4, <1>5, <1>6, Kinds DEF RequestOf, ControlOf, KnownOf, RegistrationOf, LoginOf,
       TokenOf, CallOf, NoAnswer
<1> QED
    BY <1>1, <1>7, <1>8, NoRowAdded

\* The row that is read is in the table; that there is none refutes an earlier
\* acknowledgement.
LEMMA ReadStep ==
    ASSUME Inv, NEW q \in Requests, GetUserByEmail(q)
    PROVE  Inv'
<1>1. Step(q) /\ users' = users /\ now' = now /\ req' = req /\ pc[q] = "read"
    BY DEF Step, GetUserByEmail
<1>2. TypeOK /\ RequestOf(q) /\ req[q] \in Login /\ answer[q] = NoAnswer
    BY <1>1 DEF Inv, RequestOf, ControlOf
<1>3. TypeOK'
    <2>1. CASE Answer(q, 401, None) /\ UNCHANGED row
        BY <1>1, <1>2, <2>1 DEF Answer, Goto, TypeOK
    <2>2. CASE /\ \E x \in users : row' = [row EXCEPT ![q] = x]
               /\ Goto(q, "compare") /\ UNCHANGED answer
        BY <1>1, <1>2, <2>2 DEF Goto, TypeOK
    <2> QED
        BY <2>1, <2>2 DEF GetUserByEmail
<1>4. RequestOf(q)'
    <2>1. CASE ~EmailTaken(req[q].email) /\ Answer(q, 401, None)
        <3>1. pc'[q] = "done" /\ answer'[q] = [status |-> 401, token |-> None]
            BY <1>2, <2>1 DEF Answer, Goto, TypeOK
        <3>2. ~req[q].known
            BY <1>2, <2>1 DEF RequestOf, KnownOf, EmailTaken
        <3> QED
            BY <1>1, <1>2, <3>1, <3>2, Kinds DEF RequestOf, ControlOf, KnownOf, RegistrationOf,
               LoginOf, TokenOf, CallOf
    <2>2. ASSUME NEW x \in users, x.email = req[q].email, row' = [row EXCEPT ![q] = x],
                 Goto(q, "compare"), UNCHANGED answer
          PROVE  RequestOf(q)'
        <3>1. pc'[q] = "compare" /\ row'[q] = x /\ answer'[q] = NoAnswer
            BY <1>2, <2>2 DEF Goto, TypeOK
        <3> QED
            BY <1>1, <1>2, <2>2, <3>1, Kinds DEF RequestOf, ControlOf, KnownOf, RegistrationOf,
               LoginOf, TokenOf, CallOf, NoAnswer
    <2> QED
        BY <2>1, <2>2 DEF GetUserByEmail
<1> QED
    BY <1>1, <1>3, <1>4, NoRowAdded

\* The row is the only one of its e-mail: if its password does not match, the
\* one the login named has never been acknowledged.
LEMMA CompareStep ==
    ASSUME Inv, NEW q \in Requests, Compare(q)
    PROVE  Inv'
<1>1. Step(q) /\ users' = users /\ now' = now /\ req' = req /\ row' = row /\ pc[q] = "compare"
    BY DEF Step, Compare
<1>2. /\ TypeOK /\ RequestOf(q) /\ OneAccountPerEmail
      /\ req[q] \in Login /\ row[q] \in users /\ row[q].email = req[q].email
    BY <1>1 DEF Inv, RequestOf, ControlOf
<1>3. row[q] \in Row /\ row[q].id \in Ids /\ row[q].role \in Roles
    BY <1>2 DEF TypeOK, Row
<1>4. CASE Matches(row[q], req[q].password)
    <2> DEFINE token == GenerateToken(row[q].id, row[q].role)
    <2>1. /\ token \in Token /\ token # None /\ token.exp = token.iat + Lifetime
          /\ token.id = row[q].id /\ token.role = row[q].role
        BY <1>2, <1>3, TokenFacts
    <2>2. row[q] = [id |-> token.id, email |-> req[q].email,
                    password |-> req[q].password, role |-> token.role]
        BY <1>2, <1>3, <1>4, <2>1 DEF Matches, Row
    <2> HIDE DEF token
    <2>3. pc'[q] = "done" /\ answer'[q] = [status |-> 200, token |-> token]
        BY <1>2, <1>4 DEF Compare, Answer, Goto, TypeOK, token
    <2>4. TypeOK'
        BY <1>2, <1>4, <2>1 DEF Compare, Answer, Goto, TypeOK, token
    <2>5. RequestOf(q)'
        BY <1>1, <1>2, <2>1, <2>2, <2>3, Kinds DEF RequestOf, ControlOf, KnownOf, RegistrationOf,
           LoginOf, TokenOf, CallOf
    <2> QED
        BY <1>1, <2>4, <2>5, NoRowAdded
<1>5. CASE ~Matches(row[q], req[q].password)
    <2>1. pc'[q] = "done" /\ answer'[q] = [status |-> 401, token |-> None]
        BY <1>2, <1>5 DEF Compare, Answer, Goto, TypeOK
    <2>2. TypeOK'
        BY <1>2, <1>5 DEF Compare, Answer, Goto, TypeOK
    <2>3. ~req[q].known
        BY <1>2, <1>3, <1>5, NoneAssumption
        DEF RequestOf, KnownOf, OneAccountPerEmail, Matches, Login
    <2>4. RequestOf(q)'
        BY <1>1, <1>2, <2>1, <2>3, Kinds DEF RequestOf, ControlOf, KnownOf, RegistrationOf,
           LoginOf, TokenOf, CallOf
    <2> QED
        BY <1>1, <2>2, <2>4, NoRowAdded
<1> QED
    BY <1>4, <1>5

\* A token that is not expired was given less than a lifetime ago, and carries
\* the role of its account.
LEMMA CallStep ==
    ASSUME Inv, NEW q \in Requests, CallEndpoint(q)
    PROVE  Inv'
<1>1. Step(q) /\ users' = users /\ now' = now /\ row' = row /\ pc[q] = "new"
    BY DEF Step, CallEndpoint
<1>2. TypeOK /\ RequestOf(q)
    BY DEF Inv
<1>3. PICK endpoint \in Endpoints, token \in Given \cup {None} :
          /\ Ask(q, [op |-> "call", endpoint |-> endpoint, token |-> token, at |-> now])
          /\ Answer(q, IF ~Valid(token) THEN 401
                       ELSE IF ~Allowed(endpoint, token.role) THEN 403 ELSE 200, None)
    BY DEF CallEndpoint
<1> DEFINE what == [op |-> "call", endpoint |-> endpoint, token |-> token, at |-> now]
<1>4. what \in Call
    BY <1>2 DEF Call, Given, TypeOK
<1>5. /\ pc'[q] = "done" /\ req'[q] = what
      /\ answer'[q].token = None
      /\ answer'[q].status \in {200, 401, 403}
      /\ answer'[q].status = 200 => Valid(token) /\ Allowed(endpoint, token.role)
    BY <1>2, <1>3 DEF Ask, Answer, Goto, TypeOK
<1>6. TypeOK'
    BY <1>1, <1>2, <1>3, <1>4 DEF Ask, Answer, Goto, TypeOK
<1>7. CallOf(q)'
    <2> SUFFICES ASSUME answer'[q].status = 200 PROVE CallOf(q)'
        BY DEF CallOf
    <2>1. token # None /\ now < token.exp /\ Allowed(endpoint, token.role)
        BY <1>5 DEF Valid
    <2>2. PICK l \in Requests : answer[l].token = token
        BY <2>1 DEF Given
    <2>3. PICK x \in users : /\ token.exp = token.iat + Lifetime
                             /\ x.id = token.id /\ x.role = token.role
        BY <2>1, <2>2 DEF Inv, RequestOf, TokenOf
    <2>4. l # q
        BY <1>1, <1>2, <2>1, <2>2 DEF RequestOf, ControlOf, NoAnswer
    <2>5. answer'[l].token = token
        BY <1>1, <1>2, <2>2, <2>4, StepFrame
    <2>6. /\ endpoint \in AdminEndpoints => x.role = "admin"
          /\ endpoint \in UserEndpoints => x.role = "user"
        BY <2>1, <2>3 DEF Allowed, AdminEndpoints, UserEndpoints, OpenEndpoints,
           NotificationEndpoints
    <2> QED
        BY <1>1, <1>5, <2>1, <2>3, <2>5, <2>6 DEF CallOf
<1>8. RequestOf(q)'
    BY <1>1, <1>4, <1>5, <1>7, Kinds DEF RequestOf, ControlOf, KnownOf, RegistrationOf, LoginOf,
       TokenOf
<1> QED
    BY <1>1, <1>6, <1>8, NoRowAdded

\* The clock changes nothing that is known of a request.
LEMMA QuietStep ==
    ASSUME Inv, Tick \/ UNCHANGED vars
    PROVE  Inv'
<1>1. /\ users' = users /\ pc' = pc /\ req' = req /\ row' = row /\ answer' = answer
    BY DEF Tick, vars
<1>2. TypeOK'
    BY <1>1 DEF Inv, TypeOK, Tick, vars
<1>3. SeedStays' /\ OneAccountPerEmail' /\ OwnRows'
    BY <1>1 DEF Inv, SeedStays, OneAccountPerEmail, OwnRows, NewRow
<1>4. ASSUME NEW r \in Requests PROVE RequestOf(r)'
    BY <1>1 DEF Inv, RequestOf, ControlOf, KnownOf, RegistrationOf, LoginOf, TokenOf, CallOf, NewRow
<1> QED
    BY <1>2, <1>3, <1>4 DEF Inv

-----------------------------------------------------------------------------
\* Inv is an invariant: registrations, logins and calls in any order and number
\* keep what is known of rows, tokens and requests.
THEOREM AccountsInvariance == Spec => []Inv
<1>1. Init => Inv
    BY InitInv
<1>2. Inv /\ [Next]_vars => Inv'
    <2> SUFFICES ASSUME Inv, [Next]_vars PROVE Inv'
        OBVIOUS
    <2>1. ASSUME NEW q \in Requests, Step(q) PROVE Inv'
        BY <2>1, PlainStep, CreateUserStep, DummyStep, LogInStep, ReadStep, CompareStep, CallStep
        DEF Step
    <2> QED
        BY <2>1, QuietStep DEF Next
<1> QED
    BY <1>1, <1>2, PTL DEF Spec

\* Type correctness of the accounts (handlers, service and repository of auth).
THEOREM AccountTypes == Spec => []TypeOK
<1>1. Inv => TypeOK
    BY DEF Inv
<1> QED
    BY <1>1, AccountsInvariance, PTL

\* Racing registrations: a 201 has the only account of its e-mail, a refusal is
\* somebody else's account (CreateUser and the UNIQUE column).
THEOREM RegistrationsHold == Spec => []RegistrationsAnswered
<1>1. Inv => RegistrationsAnswered
    <2> SUFFICES ASSUME Inv, NEW r \in Requests, pc[r] = "done", req[r] \in Registration
                 PROVE  /\ answer[r].status = 201 =>
                              {x \in users : x.email = req[r].email} = {NewRow(r)}
                        /\ answer[r].status = 400 =>
                              \E x \in users : x.email = req[r].email /\ x.id # r
        BY DEF RegistrationsAnswered
    <2>1. RegistrationOf(r) /\ OneAccountPerEmail
        BY DEF Inv, RequestOf
    <2>2. NewRow(r).email = req[r].email
        BY DEF NewRow
    <2> QED
        BY <2>1, <2>2 DEF RegistrationOf, OneAccountPerEmail
<1> QED
    BY <1>1, AccountsInvariance, PTL

\* Logins: a token of the account named by e-mail and password, and no refusal
\* after the registration has been acknowledged (Service.Login).
THEOREM LoginsHold == Spec => []LoginsAnswered
<1>1. Inv => LoginsAnswered
    BY DEF Inv, RequestOf, LoginOf, LoginsAnswered
<1> QED
    BY <1>1, AccountsInvariance, PTL

\* Every token names a row of users with its role: the foreign key of
\* bookings.user_id holds for whoever presents one.
THEOREM TokensHold == Spec => []TokensNameAccounts
<1>1. Inv => TokensNameAccounts
    BY DEF Inv, RequestOf, TokenOf, TokensNameAccounts, Given
<1> QED
    BY <1>1, AccountsInvariance, PTL

\* Calls reach a handler within the lifetime of a login of an account whose role
\* may use it (Auth and RequireRole).
THEOREM CallsHold == Spec => []CallsInRight
<1>1. Inv => CallsInRight
    BY DEF Inv, RequestOf, CallOf, CallsInRight
<1> QED
    BY <1>1, AccountsInvariance, PTL
=============================================================================

\* Four requests: two that race for an e-mail, a login and a call, or any other
\* four, with the two seeded accounts and one e-mail that is free.
CONSTANTS
    Requests = {r1, r2, r3, r4}
    Emails = {adminMail, userMail, mail}
    Passwords = {p1, p2}
    Endpoints = {"createRoom", "createBooking", "list"}
    None = None
    dummyAdminID = dummyAdminID
    dummyUserID = dummyUserID
    AdminEmail = adminMail
    UserEmail = userMail
    Lifetime = 2
    MaxTime = 2
SYMMETRY MCSymmetry
CHECK_DEADLOCK FALSE
SPECIFICATION Spec
INVARIANTS
    RegistrationsAnswered
    LoginsAnswered
    TokensNameAccounts
    CallsInRight

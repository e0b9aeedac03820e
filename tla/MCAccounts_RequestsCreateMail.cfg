\* One caller, and sessions that do not autoflush, as db/session.py makes them.
SPECIFICATION MCSpec
CONSTANTS
    Challenge = {x1, x2}
    Mailer = {m1}
    None = None
    MaxMails = 2
    MaxMailFaults = 1
    MaxRequests = 5
    Caller = {c1}
    Session = {s1, s2, s3}
    OAuthState = {o1, o2}
    Autoflush = FALSE
INVARIANTS
    RequestsCreateMail
CHECK_DEADLOCK FALSE

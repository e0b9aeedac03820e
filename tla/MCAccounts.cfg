\* Two callers and five calls, or two calls and a mailer that dies or is slow twice.
SPECIFICATION MCSpec
CONSTANTS
    Challenge = {x1, x2}
    Mailer = {m1}
    None = None
    MaxMails = 2
    MaxMailFaults = 2
    MaxRequests = 5
    Caller = {c1, c2}
    Session = {s1, s2, s3}
    OAuthState = {o1, o2}
    Autoflush = TRUE
INVARIANTS
    TypeOK
    AcceptedOnce
    MailsAccountedFor
PROPERTIES
    IdentityKeepsOwner
    RevokedStaysRevoked
    EveryMailSettles
CHECK_DEADLOCK FALSE

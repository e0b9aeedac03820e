------------------------------ MODULE Accounts ------------------------------
(***************************************************************************)
(* auth/service.py: sign-up, verification, login, recovery, sign-in with a *)
(* provider, sessions.  There is one e-mail address, an identity of        *)
(* provider email_password for it, and one identity of an outside provider *)
(* with the same verified address.                                         *)
(*                                                                         *)
(* A function is one transaction.  It is one action when what it reads is  *)
(* locked (FOR UPDATE) or decided by its last statement, and two when it   *)
(* reads without a lock what another transaction may change before it      *)
(* commits.                                                                *)
(***************************************************************************)
EXTENDS EmailOutbox

CONSTANTS
    Caller, Session, OAuthState,
    Autoflush,   \* whether a session writes what is pending before a SELECT
    MaxRequests  \* bound: calls that go on, in a behaviour

ASSUME AccountAssumption == Autoflush \in BOOLEAN /\ MaxRequests \in Nat

Provider == {"email_password", "google"}
\* Users are named after the identity they were created with.
User == Provider
Purpose == {"email_verification", "password_recovery"}

ChallengeRow == [purpose : Purpose, consumed : BOOLEAN, expired : BOOLEAN]
SessionRow == [user : User, revoked : BOOLEAN, idle : BOOLEAN]
StateRow == [consumed : BOOLEAN, expired : BOOLEAN, link : User \union {None}]

ASSUME NamesAssumption ==
    /\ Challenge \cap OAuthState = {}
    /\ None \notin User /\ None \notin ChallengeRow /\ None \notin SessionRow /\ None \notin StateRow

CallerState ==
    [phase : {"idle", "signup", "challenge", "login", "resolve", "resolved", "external"},
     purpose : Purpose \union {None}, open : SUBSET Challenge,
     user : User \union {None}, session : Session \union {None}, stale : BOOLEAN]
IdleCaller == [phase |-> "idle", purpose |-> None, open |-> {}, user |-> None,
               session |-> None, stale |-> FALSE]

VARIABLES
    owner,      \* identities: the user each belongs to
    verified,   \* email_verified_at of the address is set
    challenges, sessions, states,
    caller, requests,
    used,       \* history: how often a challenge or state was accepted
    failures    \* history: calls that ended in an exception nothing handles

accountVars == <<owner, verified, challenges, sessions, states, caller, requests, used, failures>>
vars == <<owner, verified, challenges, sessions, states, caller, requests, used, failures, mailVars>>

TypeOK ==
    /\ owner \in [Provider -> User \union {None}]
    /\ verified \in BOOLEAN
    /\ challenges \in [Challenge -> ChallengeRow \union {None}]
    /\ sessions \in [Session -> SessionRow \union {None}]
    /\ states \in [OAuthState -> StateRow \union {None}]
    /\ caller \in [Caller -> CallerState]
    /\ requests \in 0 .. MaxRequests
    /\ used \in [Challenge \union OAuthState -> Nat]
    /\ failures \in SUBSET {"signup", "challenge", "external"}
    /\ MailTypeOK

Init ==
    /\ owner = [p \in Provider |-> None]
    /\ verified = FALSE
    /\ challenges = [c \in Challenge |-> None]
    /\ sessions = [s \in Session |-> None]
    /\ states = [o \in OAuthState |-> None]
    /\ caller = [c \in Caller |-> IdleCaller]
    /\ requests \in 0 .. MaxRequests
    /\ used = [x \in Challenge \union OAuthState |-> 0]
    /\ failures = {}
    /\ MailInit

------------------------------------------------------------------------------
\* A caller begins a function that goes on; the function ends.
Begin(c, state) ==
    /\ caller[c].phase = "idle" /\ requests < MaxRequests
    /\ requests' = requests + 1
    /\ caller' = [caller EXCEPT ![c] = state]
\* A function of one action; the rows it uses up bound it.
AtOnce(c) == caller[c].phase = "idle" /\ UNCHANGED <<caller, requests>>
Goes(c, state) == caller' = [caller EXCEPT ![c] = state] /\ UNCHANGED requests
End(c) == Goes(c, IdleCaller)

Free(table) == {x \in DOMAIN table : table[x] = None}
NewSession(u) ==
    LET s == CHOOSE x \in Free(sessions) : TRUE IN
    /\ Free(sessions) # {}
    /\ sessions' = [sessions EXCEPT ![s] = [user |-> u, revoked |-> FALSE, idle |-> FALSE]]
Revoke(S) == sessions' = [s \in Session |-> IF s \in S THEN [sessions[s] EXCEPT !.revoked = TRUE]
                                            ELSE sessions[s]]
SessionsOf(u) == {s \in Session : sessions[s] # None /\ sessions[s].user = u}
Outstanding(purpose) ==
    {x \in Challenge : challenges[x] # None /\ challenges[x].purpose = purpose
                                            /\ ~challenges[x].consumed}

\* _challenge and _queue_email: older challenges are consumed, a new one and
\* its e-mail are added.  _queue_email needs the id of the new challenge and
\* looks it up by its token: without autoflush the row is not there yet, and
\* the function raises AttributeError.  The caller's transaction ends with it.
Challenges(purpose, older) ==
    LET x == CHOOSE y \in Free(challenges) : TRUE IN
    /\ Free(challenges) # {}
    /\ challenges' = [y \in Challenge |->
           IF y = x THEN [purpose |-> purpose, consumed |-> FALSE, expired |-> FALSE]
           ELSE IF y \in older THEN [challenges[y] EXCEPT !.consumed = TRUE]
           ELSE challenges[y]]
    /\ QueueEmail(x)
    /\ UNCHANGED <<mailer, mailFaults, delivered, failures>>

Raises(function) ==
    /\ failures' = failures \union {function}
    /\ UNCHANGED <<owner, verified, challenges, sessions, states, used, mailVars>>

------------------------------------------------------------------------------
(* Sign-up and challenges. *)

\* signup up to the first flush; an address that is taken is a 409.
SignupLooks(c) ==
    /\ owner["email_password"] = None
    /\ Begin(c, [IdleCaller EXCEPT !.phase = "signup"])
    /\ UNCHANGED <<owner, verified, challenges, sessions, states, used, failures, mailVars>>

\* The flush that inserts the identity is outside the try: when the unique
\* constraint refuses it, the exception is not handled.
SignupInserts(c) ==
    /\ caller[c].phase = "signup"
    /\ End(c)
    /\ IF owner["email_password"] # None \/ ~Autoflush
       THEN Raises("signup")
       ELSE /\ owner' = [owner EXCEPT !["email_password"] = "email_password"]
            /\ Challenges("email_verification", {})
            /\ UNCHANGED <<verified, sessions, states, used>>

\* resend_verification and request_password_recovery: the UPDATE that consumes
\* older challenges sees those that are committed when it starts.
ChallengeBegins(c, purpose) ==
    /\ owner["email_password"] # None
    /\ verified = (purpose = "password_recovery")
    /\ Begin(c, [IdleCaller EXCEPT !.phase = "challenge", !.purpose = purpose,
                                   !.open = Outstanding(purpose)])
    /\ UNCHANGED <<owner, verified, challenges, sessions, states, used, failures, mailVars>>

ChallengeCommits(c) ==
    /\ caller[c].phase = "challenge"
    /\ End(c)
    /\ IF Autoflush
       THEN /\ Challenges(caller[c].purpose, caller[c].open)
            /\ UNCHANGED <<owner, verified, sessions, states, used>>
       ELSE Raises("challenge")

\* The row of a challenge is locked by the transaction that is consuming it.
Locked(x) == \E c \in Caller : x \in caller[c].open

\* FOR UPDATE, and what is consumed or expired is refused.
Valid(x, purpose) ==
    /\ challenges[x] # None /\ ~Locked(x)
    /\ challenges[x].purpose = purpose
    /\ ~challenges[x].consumed /\ ~challenges[x].expired

Consume_Kept(x) ==
    /\ used' = [used EXCEPT ![x] = @ + 1]
    /\ UNCHANGED challenges

Consume(x) ==
    /\ challenges' = [challenges EXCEPT ![x].consumed = TRUE]
    /\ used' = [used EXCEPT ![x] = @ + 1]

VerifyEmail(c, x) ==
    /\ Valid(x, "email_verification")
    /\ AtOnce(c)
    /\ Consume(x)
    /\ verified' = TRUE
    /\ NewSession(owner["email_password"])
    /\ UNCHANGED <<owner, states, failures, mailVars>>

\* The new password ends every session of the user.
ResetPassword(c, x) ==
    /\ Valid(x, "password_recovery")
    /\ AtOnce(c)
    /\ Consume(x)
    /\ Revoke(SessionsOf(owner["email_password"]))
    /\ UNCHANGED <<owner, verified, states, failures, mailVars>>

ChallengeExpires(x) ==
    /\ challenges[x] # None /\ ~challenges[x].expired
    /\ challenges' = [challenges EXCEPT ![x].expired = TRUE]
    /\ UNCHANGED <<owner, verified, sessions, states, caller, requests, used, failures, mailVars>>

------------------------------------------------------------------------------
(* Sessions. *)

\* login reads identity and credential and verifies the password; the session
\* is committed later.
LoginReads(c) ==
    /\ owner["email_password"] # None /\ verified
    /\ Begin(c, [IdleCaller EXCEPT !.phase = "login", !.user = owner["email_password"]])
    /\ UNCHANGED <<owner, verified, challenges, sessions, states, used, failures, mailVars>>

LoginCommits(c) ==
    /\ caller[c].phase = "login"
    /\ End(c)
    /\ NewSession(caller[c].user)
    /\ UNCHANGED <<owner, verified, challenges, states, used, failures, mailVars>>

\* resolve_session reads the session without a lock; a revoked one is refused.
ResolveReads(c, s) ==
    /\ sessions[s] # None /\ ~sessions[s].revoked
    /\ Begin(c, [IdleCaller EXCEPT !.phase = "resolve", !.session = s,
                                   !.stale = sessions[s].idle])
    /\ UNCHANGED <<owner, verified, challenges, sessions, states, used, failures, mailVars>>

\* A session that has been idle too long is revoked.  Otherwise the commit
\* writes last_seen_at, and that column only; the request goes on.
ResolveWrites_Whole(c) ==
    LET s == caller[c].session IN
    /\ caller[c].phase = "resolve"
    /\ IF caller[c].stale THEN End(c) ELSE Goes(c, [caller[c] EXCEPT !.phase = "resolved"])
    /\ sessions' = [sessions EXCEPT ![s].idle = caller[c].stale,
                                    ![s].revoked = caller[c].stale]
    /\ UNCHANGED <<owner, verified, challenges, states, used, failures, mailVars>>

ResolveWrites(c) ==
    LET s == caller[c].session IN
    /\ caller[c].phase = "resolve"
    /\ IF caller[c].stale
       THEN End(c) /\ Revoke({s})
       ELSE /\ Goes(c, [caller[c] EXCEPT !.phase = "resolved"])
            /\ sessions' = [sessions EXCEPT ![s].idle = FALSE]
    /\ UNCHANGED <<owner, verified, challenges, states, used, failures, mailVars>>

\* With commit=False, as the consumer routes have it, it is the request's
\* transaction that ends: with a refusal or an error, and nothing is written.
ResolveRollsBack(c) ==
    /\ caller[c].phase = "resolve"
    /\ End(c)
    /\ UNCHANGED <<owner, verified, challenges, sessions, states, used, failures, mailVars>>

\* logout_current, rotate_session and logout_all act on the session that was
\* resolved, and do not look at it again.
ActsOn(c) == caller[c].phase = "resolved" /\ End(c)

OnlyResolves(c) ==
    /\ ActsOn(c)
    /\ UNCHANGED <<owner, verified, challenges, sessions, states, used, failures, mailVars>>

LogoutCurrent(c) ==
    /\ ActsOn(c)
    /\ Revoke({caller[c].session})
    /\ UNCHANGED <<owner, verified, challenges, states, used, failures, mailVars>>

RotateSession(c) ==
    LET s == caller[c].session
        new == CHOOSE x \in Free(sessions) : TRUE IN
    /\ ActsOn(c)
    /\ Free(sessions) # {}
    /\ sessions' = [sessions EXCEPT ![s].revoked = TRUE,
                                    ![new] = [user |-> sessions[s].user, revoked |-> FALSE,
                                              idle |-> FALSE]]
    /\ UNCHANGED <<owner, verified, challenges, states, used, failures, mailVars>>

LogoutAll(c) ==
    /\ ActsOn(c)
    /\ Revoke(SessionsOf(sessions[caller[c].session].user))
    /\ UNCHANGED <<owner, verified, challenges, states, used, failures, mailVars>>

SessionIdles(s) ==
    /\ sessions[s] # None /\ ~sessions[s].idle
    /\ sessions' = [sessions EXCEPT ![s].idle = TRUE]
    /\ UNCHANGED <<owner, verified, challenges, states, caller, requests, used, failures, mailVars>>

------------------------------------------------------------------------------
(* Signing in with a provider. *)

\* begin_oauth, for a visitor or for a user who links the provider.
BeginOAuth(c, link) ==
    LET o == CHOOSE x \in Free(states) : TRUE IN
    /\ Free(states) # {}
    /\ link # None => SessionsOf(link) # {}
    /\ Begin(c, IdleCaller)
    /\ states' = [states EXCEPT ![o] = [consumed |-> FALSE, expired |-> FALSE, link |-> link]]
    /\ UNCHANGED <<owner, verified, challenges, sessions, used, failures, mailVars>>

\* consume_oauth_state: FOR UPDATE; it stays consumed if the provider then
\* fails to verify the code.
ConsumeOAuthState(c, o) ==
    /\ states[o] # None /\ ~states[o].consumed /\ ~states[o].expired
    /\ Begin(c, [IdleCaller EXCEPT !.phase = "external", !.user = states[o].link])
    /\ states' = [states EXCEPT ![o].consumed = TRUE]
    /\ used' = [used EXCEPT ![o] = @ + 1]
    /\ UNCHANGED <<owner, verified, challenges, sessions, failures, mailVars>>

ProviderFails(c) ==
    /\ caller[c].phase = "external" /\ ~caller[c].stale
    /\ End(c)
    /\ UNCHANGED <<owner, verified, challenges, sessions, states, used, failures, mailVars>>

\* authenticate_external looks for the identity: a known one signs in.
ExternalSignsIn(c) ==
    /\ caller[c].phase = "external" /\ ~caller[c].stale
    /\ owner["google"] # None
    /\ End(c)
    /\ NewSession(owner["google"])
    /\ UNCHANGED <<owner, verified, challenges, states, used, failures, mailVars>>

\* The user that a new identity would belong to; an address that has a Cartel
\* account must be linked by that account's user.
Linkable(link) ==
    IF owner["email_password"] # None THEN link = owner["email_password"] ELSE TRUE
OwnerFor(link) == IF link = None THEN "google" ELSE link

\* stale: the look-ups have found no identity.
ExternalLooks(c) ==
    /\ caller[c].phase = "external" /\ ~caller[c].stale
    /\ owner["google"] = None
    /\ IF Linkable(caller[c].user)
       THEN Goes(c, [caller[c] EXCEPT !.stale = TRUE, !.user = OwnerFor(@)])
       ELSE End(c)
    /\ UNCHANGED <<owner, verified, challenges, sessions, states, used, failures, mailVars>>

\* The first flush inserts the identity, outside the try, as in signup.
ExternalInserts_Overwrites(c) ==
    /\ caller[c].phase = "external" /\ caller[c].stale
    /\ End(c)
    /\ owner' = [owner EXCEPT !["google"] = caller[c].user]
    /\ NewSession(caller[c].user)
    /\ UNCHANGED <<verified, challenges, states, used, failures, mailVars>>

ExternalInserts(c) ==
    /\ caller[c].phase = "external" /\ caller[c].stale
    /\ End(c)
    /\ IF owner["google"] # None
       THEN Raises("external")
       ELSE /\ owner' = [owner EXCEPT !["google"] = caller[c].user]
            /\ NewSession(caller[c].user)
            /\ UNCHANGED <<verified, challenges, states, used, failures, mailVars>>

------------------------------------------------------------------------------
AccountNext ==
    \/ \E c \in Caller :
          \/ SignupLooks(c) \/ SignupInserts(c)
          \/ \E purpose \in Purpose : ChallengeBegins(c, purpose)
          \/ ChallengeCommits(c)
          \/ \E x \in Challenge : VerifyEmail(c, x) \/ ResetPassword(c, x)
          \/ LoginReads(c) \/ LoginCommits(c)
          \/ \E s \in Session : ResolveReads(c, s)
          \/ ResolveWrites(c) \/ ResolveRollsBack(c) \/ OnlyResolves(c)
          \/ LogoutCurrent(c) \/ RotateSession(c) \/ LogoutAll(c)
          \/ \E link \in User \union {None} : BeginOAuth(c, link)
          \/ \E o \in OAuthState : ConsumeOAuthState(c, o)
          \/ ProviderFails(c) \/ ExternalSignsIn(c) \/ ExternalLooks(c) \/ ExternalInserts(c)
    \/ \E x \in Challenge : ChallengeExpires(x)
    \/ \E s \in Session : SessionIdles(s)

Next == AccountNext \/ (MailNext /\ UNCHANGED accountVars)

Spec == Init /\ [][Next]_vars
FairSpec == Spec /\ MailFairness

------------------------------------------------------------------------------
(* Properties. *)

\* A verification link, a recovery link and a provider's callback are accepted
\* once, however many requests present them at the same time.
AcceptedOnce == \A x \in Challenge \union OAuthState : used[x] <= 1

\* An identity belongs to the user it was created for: sign-ups, sign-ins and
\* links that race for it do not move it.
IdentityKeepsOwner ==
    [][\A p \in Provider : owner[p] # None => owner'[p] = owner[p]]_owner

\* A session that logout or a reset has revoked stays revoked, also when a
\* request that had resolved it before commits afterwards.
RevokedStaysRevoked ==
    [][\A s \in Session : sessions[s] # None /\ sessions[s].revoked => sessions'[s].revoked]_sessions

\* docs/background_jobs.md:19: verification and recovery requests create an
\* outbox row in the transaction of their challenge; so none ends in an
\* exception that nothing handles, not even when it has no other to race with.
RequestsCreateMail == failures = {}
=============================================================================

--------------------------- MODULE AccountsProofs ---------------------------
(***************************************************************************)
(* Proofs about Accounts with its EmailOutbox, for any number of callers,  *)
(* challenges, sessions, states of a provider and mailers, with and        *)
(* without autoflush.                                                      *)
(***************************************************************************)
EXTENDS Accounts, EmailOutboxProofs

-----------------------------------------------------------------------------
(* What a step may do to each table *)

Local == "email_password"

\* Identities keep their owners.
OwnerGo ==
    /\ owner' \in [Provider -> User \union {None}]
    /\ \A p \in Provider : owner[p] # None => owner'[p] = owner[p]

\* Sessions stay, and stay revoked.
SessionsGo ==
    /\ sessions' \in [Session -> SessionRow \union {None}]
    /\ \A s \in Session : sessions[s] # None => sessions'[s] # None /\ (sessions[s].revoked => sessions'[s].revoked)

\* Challenges stay, and stay consumed; accepting one consumes it.
ChallengeGo(x) ==
    /\ challenges[x] # None => challenges'[x] # None /\ (challenges[x].consumed => challenges'[x].consumed)
    /\ \/ used'[x] = used[x]
       \/ /\ challenges[x] # None /\ ~challenges[x].consumed /\ challenges'[x].consumed
          /\ used'[x] = used[x] + 1
    /\ (challenges[x] # None <=> outbox[x] # None) => (challenges'[x] # None <=> outbox'[x] # None)
    /\ challenges'[x] # None => challenges[x] # None \/ owner'[Local] # None
ChallengesGo ==
    /\ challenges' \in [Challenge -> ChallengeRow \union {None}]
    /\ \A x \in Challenge : ChallengeGo(x)

StateGo(o) ==
    /\ states[o] # None => states'[o] # None /\ (states[o].consumed => states'[o].consumed)
    /\ \/ used'[o] = used[o]
       \/ /\ states[o] # None /\ ~states[o].consumed /\ states'[o].consumed
          /\ used'[o] = used[o] + 1
StatesGo ==
    /\ states' \in [OAuthState -> StateRow \union {None}]
    /\ \A o \in OAuthState : StateGo(o)

\* What a caller that is in the middle of a function has found.
Informed(s) ==
    /\ s.phase = "challenge" => s.purpose \in Purpose /\ owner[Local] # None
    /\ \A x \in s.open : challenges[x] # None
    /\ s.phase = "login" => s.user \in User
    /\ s.phase \in {"resolve", "resolved"} => s.session \in Session /\ sessions[s.session] # None
    /\ s.phase = "external" /\ s.stale => s.user \in User
CallersGo ==
    /\ caller' \in [Caller -> CallerState]
    /\ \A c \in Caller : caller'[c] = caller[c] \/ \E s \in CallerState : caller'[c] = s /\ Informed(s)'

ScalarsGo ==
    /\ verified' \in BOOLEAN
    /\ requests' \in 0 .. MaxRequests
    /\ used' \in [Challenge \union OAuthState -> Nat]
    /\ failures' \in SUBSET {"signup", "challenge", "external"}

Go == OwnerGo /\ SessionsGo /\ ChallengesGo /\ StatesGo /\ CallersGo /\ ScalarsGo /\ MailInv'

\* A challenge has its e-mail, and an account.
Mailed == \A x \in Challenge : /\ challenges[x] # None <=> outbox[x] # None
                               /\ challenges[x] # None => owner[Local] # None

AccountTyped == TypeOK /\ MailInv /\ Mailed /\ \A c \in Caller : Informed(caller[c])

\* A challenge or state that was accepted is consumed.
Accepted ==
    /\ \A x \in Challenge : used[x] = 0 \/ (used[x] = 1 /\ challenges[x] # None /\ challenges[x].consumed)
    /\ \A o \in OAuthState : used[o] = 0 \/ (used[o] = 1 /\ states[o] # None /\ states[o].consumed)

\* Whatever goes so keeps the types and accepts nothing twice.
LEMMA GoTyped == ASSUME AccountTyped, Go PROVE AccountTyped'
<1>1. MailTypeOK'
  BY MailInvMeans DEF Go, MailInv, MailTyped
<1>2. TypeOK'
  BY <1>1 DEF Go, OwnerGo, SessionsGo, ChallengesGo, StatesGo, CallersGo, ScalarsGo, TypeOK
<1>3. owner[Local] # None => owner'[Local] # None
  BY DEF Go, OwnerGo, Provider, Local
<1>4. Mailed'
  BY <1>3 DEF Go, ChallengesGo, ChallengeGo, AccountTyped, Mailed
<1>5. ASSUME NEW s \in CallerState, Informed(s) PROVE Informed(s)'
  <2>1. \A x \in s.open : challenges'[x] # None
    BY <1>5 DEF Informed, CallerState, Go, ChallengesGo, ChallengeGo
  <2> QED BY <1>3, <1>5, <2>1 DEF Informed, Go, SessionsGo
<1>6. ASSUME NEW c \in Caller PROVE Informed(caller[c])'
  <2>1. ASSUME NEW s \in CallerState, caller'[c] = s, Informed(s)' PROVE Informed(caller[c])'
    BY <2>1 DEF Informed
  <2>2. CASE caller'[c] = caller[c]
    <3>1. caller[c] \in CallerState /\ Informed(caller[c])
      BY DEF AccountTyped, TypeOK
    <3>2. PICK s \in CallerState : s = caller[c]
      BY <3>1
    <3>3. Informed(s)'
      BY <1>5, <3>1, <3>2
    <3> QED BY <2>2, <3>2, <3>3 DEF Informed
  <2> QED BY <2>1, <2>2 DEF Go, CallersGo
<1> QED BY <1>2, <1>4, <1>6 DEF AccountTyped, Go

LEMMA GoAccepted == ASSUME AccountTyped, Accepted, Go PROVE Accepted'
<1>1. ASSUME NEW x \in Challenge
      PROVE  used'[x] = 0 \/ (used'[x] = 1 /\ challenges'[x] # None /\ challenges'[x].consumed)
  BY DEF Accepted, Go, ChallengesGo, ChallengeGo
<1>2. ASSUME NEW o \in OAuthState
      PROVE  used'[o] = 0 \/ (used'[o] = 1 /\ states'[o] # None /\ states'[o].consumed)
  BY DEF Accepted, Go, StatesGo, StateGo
<1> QED BY <1>1, <1>2 DEF Accepted

-----------------------------------------------------------------------------
(* Tables *)

LEMMA OwnerStays == ASSUME AccountTyped, UNCHANGED owner PROVE OwnerGo
BY DEF AccountTyped, TypeOK, OwnerGo

LEMMA SessionsStay == ASSUME AccountTyped, UNCHANGED sessions PROVE SessionsGo
BY DEF AccountTyped, TypeOK, SessionsGo

LEMMA ChallengesStay == ASSUME AccountTyped, UNCHANGED <<challenges, outbox>>, \A x \in Challenge : used'[x] = used[x]
                        PROVE  ChallengesGo
BY DEF AccountTyped, TypeOK, ChallengesGo, ChallengeGo

LEMMA StatesStay == ASSUME AccountTyped, UNCHANGED states, \A o \in OAuthState : used'[o] = used[o] PROVE StatesGo
BY DEF AccountTyped, TypeOK, StatesGo, StateGo

LEMMA MailStays == ASSUME AccountTyped, UNCHANGED mailVars PROVE MailInv'
BY MailStepInv DEF AccountTyped

LEMMA ScalarsStay ==
  ASSUME AccountTyped, UNCHANGED <<verified, requests, used, failures>> PROVE ScalarsGo
BY DEF AccountTyped, TypeOK, ScalarsGo

LEMMA CallersStay == ASSUME AccountTyped, UNCHANGED caller PROVE CallersGo
BY DEF AccountTyped, TypeOK, CallersGo

LEMMA CallerMoves ==
  ASSUME AccountTyped, NEW c \in Caller, NEW s \in CallerState,
         caller' = [caller EXCEPT ![c] = s], Informed(s)'
  PROVE  CallersGo
<1>1. caller \in [Caller -> CallerState]
  BY DEF AccountTyped, TypeOK
<1>2. caller' \in [Caller -> CallerState] /\ caller'[c] = s /\ \A d \in Caller \ {c} : caller'[d] = caller[d]
  BY <1>1
<1> QED BY <1>2 DEF CallersGo

LEMMA IdleTypedCaller ==
  /\ IdleCaller \in CallerState
  /\ IdleCaller.phase = "idle" /\ IdleCaller.open = {} /\ IdleCaller.user = None /\ IdleCaller.stale = FALSE
BY DEF IdleCaller, CallerState

LEMMA CallerEnds == ASSUME AccountTyped, NEW c \in Caller, End(c) PROVE CallersGo /\ UNCHANGED requests
<1>1. caller' = [caller EXCEPT ![c] = IdleCaller] /\ UNCHANGED requests
  BY DEF End, Goes
<1>2. Informed(IdleCaller)'
  BY IdleTypedCaller DEF Informed
<1> QED BY <1>1, <1>2, IdleTypedCaller, CallerMoves

\* A caller that begins or goes on, and leaves the tables as they are.
TablesStay == UNCHANGED <<owner, verified, challenges, sessions, states, used, failures, mailVars>>

LEMMA OnlyCaller ==
  ASSUME AccountTyped, TablesStay, CallersGo, requests' \in 0 .. MaxRequests PROVE Go
<1>1. UNCHANGED <<owner, verified, challenges, sessions, states, used, failures, mailVars>>
  BY DEF TablesStay
<1>2. UNCHANGED outbox
  BY <1>1 DEF mailVars
<1>3. ScalarsGo
  BY <1>1 DEF AccountTyped, TypeOK, ScalarsGo
<1> QED BY <1>1, <1>2, <1>3, OwnerStays, SessionsStay, ChallengesStay, StatesStay, MailStays DEF Go

LEMMA RequestsTyped ==
  ASSUME AccountTyped PROVE requests \in 0 .. MaxRequests /\ (requests < MaxRequests => requests + 1 \in 0 .. MaxRequests)
BY AccountAssumption DEF AccountTyped, TypeOK

LEMMA CallerBegins ==
  ASSUME AccountTyped, TablesStay, NEW c \in Caller, NEW s \in CallerState, Begin(c, s), Informed(s)
  PROVE  Go
<1>1. caller' = [caller EXCEPT ![c] = s] /\ requests' \in 0 .. MaxRequests
  BY RequestsTyped DEF Begin
<1>2. Informed(s)'
  BY DEF TablesStay, Informed
<1> QED BY <1>1, <1>2, CallerMoves, OnlyCaller

LEMMA OwnerParts ==
  ASSUME AccountTyped
  PROVE  /\ \A p \in Provider : owner[p] # None => owner[p] \in User
         /\ Local \in Provider /\ "google" \in Provider
         /\ None \notin User
BY NamesAssumption DEF AccountTyped, TypeOK, Provider, Local

\* The first halves.
LEMMA GoBegin ==
  ASSUME AccountTyped, NEW c \in Caller,
         \/ SignupLooks(c)
         \/ \E purpose \in Purpose : ChallengeBegins(c, purpose)
         \/ LoginReads(c)
         \/ \E s \in Session : ResolveReads(c, s)
  PROVE  Go
<1>1. CASE SignupLooks(c)
  <2> DEFINE s == [IdleCaller EXCEPT !.phase = "signup"]
  <2>1. s \in CallerState /\ s.phase = "signup" /\ s.open = {}
    BY DEF IdleCaller, CallerState
  <2>2. Begin(c, s) /\ TablesStay
    BY <1>1 DEF SignupLooks, TablesStay
  <2> HIDE DEF s
  <2>3. Informed(s)
    BY <2>1 DEF Informed
  <2> QED BY <2>1, <2>2, <2>3, CallerBegins
<1>2. ASSUME NEW purpose \in Purpose, ChallengeBegins(c, purpose) PROVE Go
  <2> DEFINE s == [IdleCaller EXCEPT !.phase = "challenge", !.purpose = purpose, !.open = Outstanding(purpose)]
  <2>1. Outstanding(purpose) \subseteq Challenge /\ \A x \in Outstanding(purpose) : challenges[x] # None
    BY DEF Outstanding
  <2>2. s \in CallerState /\ s.phase = "challenge" /\ s.purpose = purpose /\ s.open = Outstanding(purpose)
    BY <2>1 DEF IdleCaller, CallerState
  <2>3. Begin(c, s) /\ TablesStay /\ owner[Local] # None
    BY <1>2 DEF ChallengeBegins, TablesStay, Local
  <2> HIDE DEF s
  <2>4. Informed(s)
    BY <2>1, <2>2, <2>3 DEF Informed
  <2> QED BY <2>2, <2>3, <2>4, CallerBegins
<1>3. CASE LoginReads(c)
  <2> DEFINE s == [IdleCaller EXCEPT !.phase = "login", !.user = owner["email_password"]]
  <2>1. owner["email_password"] \in User
    BY <1>3, OwnerParts DEF LoginReads, Local
  <2>2. s \in CallerState /\ s.phase = "login" /\ s.open = {} /\ s.user = owner["email_password"]
    BY <2>1 DEF IdleCaller, CallerState
  <2>3. Begin(c, s) /\ TablesStay
    BY <1>3 DEF LoginReads, TablesStay
  <2> HIDE DEF s
  <2>4. Informed(s)
    BY <2>1, <2>2 DEF Informed
  <2> QED BY <2>2, <2>3, <2>4, CallerBegins
<1>4. ASSUME NEW x \in Session, ResolveReads(c, x) PROVE Go
  <2> DEFINE s == [IdleCaller EXCEPT !.phase = "resolve", !.session = x, !.stale = sessions[x].idle]
  <2>1. sessions[x] # None /\ sessions[x].idle \in BOOLEAN
    BY <1>4 DEF ResolveReads, AccountTyped, TypeOK, SessionRow
  <2>2. s \in CallerState
    BY <2>1 DEF IdleCaller, CallerState
  <2>3. s.phase = "resolve" /\ s.open = {} /\ s.session = x
    BY DEF IdleCaller
  <2>4. Begin(c, s) /\ TablesStay
    BY <1>4 DEF ResolveReads, TablesStay
  <2> HIDE DEF s
  <2>5. Informed(s)
    BY <2>1, <2>3 DEF Informed
  <2> QED BY <2>2, <2>4, <2>5, CallerBegins
<1> QED BY <1>1, <1>2, <1>3, <1>4

\* The ends that leave everything as it is.
LEMMA GoEnd ==
  ASSUME AccountTyped, NEW c \in Caller, ResolveRollsBack(c) \/ OnlyResolves(c) \/ ProviderFails(c)
  PROVE  Go
<1>1. End(c) /\ TablesStay
  BY DEF ResolveRollsBack, OnlyResolves, ProviderFails, ActsOn, TablesStay
<1> QED BY <1>1, CallerEnds, OnlyCaller, RequestsTyped

LEMMA GoLooks == ASSUME AccountTyped, NEW c \in Caller, ExternalLooks(c) PROVE Go
<1> DEFINE s == [caller[c] EXCEPT !.stale = TRUE, !.user = OwnerFor(@)]
<1>1. /\ TablesStay /\ caller[c].phase = "external" /\ caller[c] \in CallerState
      /\ End(c) \/ Goes(c, s)
  BY DEF ExternalLooks, TablesStay, AccountTyped, TypeOK
<1>2. caller[c].user \in User \union {None}
  BY <1>1 DEF CallerState
<1>3. OwnerFor(caller[c].user) \in User
  BY <1>2 DEF OwnerFor, User, Provider
<1>4. CASE End(c)
  BY <1>1, <1>4, CallerEnds, OnlyCaller, RequestsTyped
<1>5. CASE Goes(c, s)
  <2>1. s \in CallerState /\ s.phase = "external" /\ s.user \in User /\ s.open = caller[c].open
    BY <1>1, <1>3 DEF CallerState
  <2>2. caller' = [caller EXCEPT ![c] = s] /\ UNCHANGED requests
    BY <1>5 DEF Goes
  <2> HIDE DEF s
  <2>3. PICK z \in CallerState : z = s
    BY <2>1
  <2>4. \A x \in z.open : challenges[x] # None
    BY <1>1, <2>1, <2>3 DEF Informed, AccountTyped
  <2>5. Informed(z)'
    BY <1>1, <2>1, <2>3, <2>4 DEF Informed, TablesStay
  <2>6. caller' = [caller EXCEPT ![c] = z] /\ requests' \in 0 .. MaxRequests
    BY <2>2, <2>3, RequestsTyped
  <2>7. CallersGo
    BY <2>5, <2>6, CallerMoves
  <2> QED BY <1>1, <2>6, <2>7, OnlyCaller
<1> QED BY <1>1, <1>4, <1>5

-----------------------------------------------------------------------------
(* Sessions *)

LEMMA SessionParts ==
  ASSUME AccountTyped, NEW s \in Session, sessions[s] # None
  PROVE  /\ sessions[s] \in SessionRow /\ sessions[s].user \in User
         /\ [sessions[s] EXCEPT !.revoked = TRUE] \in SessionRow
         /\ [sessions[s] EXCEPT !.revoked = TRUE].revoked = TRUE
         /\ [sessions[s] EXCEPT !.revoked = TRUE] # None
         /\ \A b \in BOOLEAN : /\ [sessions[s] EXCEPT !.idle = b] \in SessionRow
                               /\ [sessions[s] EXCEPT !.idle = b].revoked = sessions[s].revoked
                               /\ [sessions[s] EXCEPT !.idle = b] # None
<1>1. sessions[s] \in SessionRow
  BY DEF AccountTyped, TypeOK
<1>2. /\ [sessions[s] EXCEPT !.revoked = TRUE] \in SessionRow
      /\ [sessions[s] EXCEPT !.revoked = TRUE].revoked = TRUE
      /\ sessions[s].user \in User
  BY <1>1 DEF SessionRow
<1>3. ASSUME NEW b \in BOOLEAN
      PROVE  /\ [sessions[s] EXCEPT !.idle = b] \in SessionRow
             /\ [sessions[s] EXCEPT !.idle = b].revoked = sessions[s].revoked
  BY <1>1 DEF SessionRow
<1> QED BY <1>1, <1>2, <1>3, NamesAssumption

LEMMA NewSessionGo ==
  ASSUME AccountTyped, NEW u \in User, NewSession(u) PROVE SessionsGo
<1> DEFINE s == CHOOSE x \in Free(sessions) : TRUE
           row == [user |-> u, revoked |-> FALSE, idle |-> FALSE]
<1>1. s \in Session /\ sessions[s] = None
  BY DEF NewSession, Free, AccountTyped, TypeOK
<1>2. sessions' = [sessions EXCEPT ![s] = row]
  BY DEF NewSession
<1>3. row \in SessionRow
  BY DEF SessionRow
<1> HIDE DEF s, row
<1> QED BY <1>1, <1>2, <1>3 DEF SessionsGo, AccountTyped, TypeOK

LEMMA RevokeGo ==
  ASSUME AccountTyped, NEW S, \A s \in S : s \in Session => sessions[s] # None, Revoke(S) PROVE SessionsGo
<1>1. ASSUME NEW s \in Session
      PROVE  /\ sessions'[s] \in SessionRow \union {None}
             /\ sessions[s] # None => sessions'[s] # None /\ (sessions[s].revoked => sessions'[s].revoked)
  <2>1. CASE s \in S
    <3>1. sessions[s] # None /\ sessions'[s] = [sessions[s] EXCEPT !.revoked = TRUE]
      BY <2>1 DEF Revoke
    <3> QED BY <3>1, SessionParts
  <2>2. CASE s \notin S
    BY <2>2 DEF Revoke, AccountTyped, TypeOK
  <2> QED BY <2>1, <2>2
<1>2. sessions' = [s \in Session |-> sessions'[s]]
  BY DEF Revoke
<1> QED BY <1>1, <1>2 DEF SessionsGo

LEMMA SessionsOfExist == \A u : \A s \in SessionsOf(u) : sessions[s] # None
BY DEF SessionsOf

LEMMA IdleGo ==
  ASSUME AccountTyped, NEW s \in Session, sessions[s] # None, NEW b \in BOOLEAN,
         sessions' = [sessions EXCEPT ![s].idle = b]
  PROVE  SessionsGo
<1>1. sessions \in [Session -> SessionRow \union {None}]
  BY DEF AccountTyped, TypeOK
<1> DEFINE row == [sessions[s] EXCEPT !.idle = b]
<1>2. row \in SessionRow /\ row.revoked = sessions[s].revoked /\ row # None
  BY SessionParts
<1>3. sessions' = [sessions EXCEPT ![s] = row]
  BY <1>1
<1> HIDE DEF row
<1> QED BY <1>1, <1>2, <1>3 DEF SessionsGo

\* A step that writes sessions only.
SessionTables == UNCHANGED <<owner, verified, challenges, states, used, failures, mailVars>>

LEMMA OnlySessions ==
  ASSUME AccountTyped, SessionTables, SessionsGo, CallersGo, UNCHANGED requests PROVE Go
<1>1. UNCHANGED <<owner, verified, challenges, states, used, failures, mailVars>>
  BY DEF SessionTables
<1>2. UNCHANGED outbox
  BY <1>1 DEF mailVars
<1> QED BY <1>1, <1>2, OwnerStays, ChallengesStay, StatesStay, MailStays, ScalarsStay DEF Go

LEMMA ResolvedParts ==
  ASSUME AccountTyped, NEW c \in Caller, caller[c].phase \in {"resolve", "resolved"}
  PROVE  /\ caller[c].session \in Session /\ sessions[caller[c].session] # None
         /\ sessions[caller[c].session].user \in User
BY SessionParts DEF AccountTyped, Informed

LEMMA GoSessionEnd ==
  ASSUME AccountTyped, NEW c \in Caller,
         LoginCommits(c) \/ ExternalSignsIn(c) \/ LogoutCurrent(c) \/ LogoutAll(c)
  PROVE  Go
<1>1. End(c) /\ SessionTables
  BY DEF LoginCommits, ExternalSignsIn, LogoutCurrent, LogoutAll, ActsOn, SessionTables
<1>2. CASE LoginCommits(c)
  <2>1. caller[c].user \in User
    BY <1>2 DEF LoginCommits, AccountTyped, Informed
  <2> QED BY <1>1, <1>2, <2>1, NewSessionGo, CallerEnds, OnlySessions DEF LoginCommits
<1>3. CASE ExternalSignsIn(c)
  <2>1. owner["google"] \in User
    BY <1>3, OwnerParts DEF ExternalSignsIn
  <2> QED BY <1>1, <1>3, <2>1, NewSessionGo, CallerEnds, OnlySessions DEF ExternalSignsIn
<1>4. CASE LogoutCurrent(c)
  <2>1. sessions[caller[c].session] # None
    BY <1>4, ResolvedParts DEF LogoutCurrent, ActsOn
  <2>2. SessionsGo
    BY <1>4, <2>1, RevokeGo DEF LogoutCurrent
  <2> QED BY <1>1, <2>2, CallerEnds, OnlySessions
<1>5. CASE LogoutAll(c)
  <2>1. SessionsGo
    BY <1>5, SessionsOfExist, RevokeGo DEF LogoutAll
  <2> QED BY <1>1, <2>1, CallerEnds, OnlySessions
<1> QED BY <1>2, <1>3, <1>4, <1>5

LEMMA GoRotate == ASSUME AccountTyped, NEW c \in Caller, RotateSession(c) PROVE Go
<1> DEFINE s == caller[c].session
           n == CHOOSE x \in Free(sessions) : TRUE
           row == [user |-> sessions[s].user, revoked |-> FALSE, idle |-> FALSE]
           old == [sessions[s] EXCEPT !.revoked = TRUE]
<1>1. End(c) /\ SessionTables /\ s \in Session /\ sessions[s] # None /\ sessions[s].user \in User
  BY ResolvedParts DEF RotateSession, ActsOn, SessionTables
<1>2. n \in Session /\ sessions[n] = None
  BY DEF RotateSession, Free, AccountTyped, TypeOK
<1>3. sessions \in [Session -> SessionRow \union {None}]
  BY DEF AccountTyped, TypeOK
<1>4. sessions' = [sessions EXCEPT ![s] = old, ![n] = row]
  BY <1>1, <1>3 DEF RotateSession
<1>5. row \in SessionRow
  BY <1>1 DEF SessionRow
<1>6. old \in SessionRow /\ old.revoked /\ old # None
  BY <1>1, SessionParts
<1> HIDE DEF s, n, row, old
<1>7. SessionsGo
  BY <1>1, <1>2, <1>3, <1>4, <1>5, <1>6 DEF SessionsGo
<1> QED BY <1>1, <1>7, CallerEnds, OnlySessions

LEMMA GoResolve == ASSUME AccountTyped, NEW c \in Caller, ResolveWrites(c) PROVE Go
<1> DEFINE s == caller[c].session
           state == [caller[c] EXCEPT !.phase = "resolved"]
<1>1. SessionTables /\ s \in Session /\ sessions[s] # None /\ caller[c].phase = "resolve"
  BY ResolvedParts DEF ResolveWrites, SessionTables
<1>2. CASE caller[c].stale
  <2>1. End(c) /\ Revoke({s})
    BY <1>2 DEF ResolveWrites
  <2>2. SessionsGo
    BY <1>1, <2>1, RevokeGo
  <2> QED BY <1>1, <2>1, <2>2, CallerEnds, OnlySessions
<1>3. CASE ~caller[c].stale
  <2>1. Goes(c, state) /\ sessions' = [sessions EXCEPT ![s].idle = FALSE]
    BY <1>3 DEF ResolveWrites
  <2>2. SessionsGo
    BY <1>1, <2>1, IdleGo
  <2>3. caller[c] \in CallerState /\ \A x \in caller[c].open : challenges[x] # None
    BY DEF AccountTyped, TypeOK, Informed
  <2>4. state \in CallerState /\ state.phase = "resolved" /\ state.session = s /\ state.open = caller[c].open
    BY <2>3 DEF CallerState
  <2> HIDE DEF state
  <2>5. PICK z \in CallerState : z = state
    BY <2>4
  <2>6. Informed(z)'
    BY <1>1, <2>2, <2>3, <2>4, <2>5 DEF Informed, SessionTables, SessionsGo
  <2>7. CallersGo /\ UNCHANGED requests
    BY <2>1, <2>5, <2>6, CallerMoves DEF Goes
  <2> QED BY <1>1, <2>2, <2>7, OnlySessions
<1> QED BY <1>2, <1>3

LEMMA GoIdles == ASSUME AccountTyped, NEW s \in Session, SessionIdles(s) PROVE Go
<1>1. SessionTables /\ UNCHANGED <<caller, requests>> /\ sessions[s] # None
      /\ sessions' = [sessions EXCEPT ![s].idle = TRUE]
  BY DEF SessionIdles, SessionTables
<1> QED BY <1>1, IdleGo, CallersStay, OnlySessions

-----------------------------------------------------------------------------
(* Challenges *)

LEMMA ChallengeRows ==
  ASSUME AccountTyped, NEW x \in Challenge, challenges[x] # None
  PROVE  /\ challenges[x] \in ChallengeRow
         /\ [challenges[x] EXCEPT !.consumed = TRUE] \in ChallengeRow
         /\ [challenges[x] EXCEPT !.consumed = TRUE].consumed = TRUE
         /\ [challenges[x] EXCEPT !.consumed = TRUE] # None
         /\ [challenges[x] EXCEPT !.expired = TRUE] \in ChallengeRow
         /\ [challenges[x] EXCEPT !.expired = TRUE].consumed = challenges[x].consumed
         /\ [challenges[x] EXCEPT !.expired = TRUE] # None
<1>1. challenges[x] \in ChallengeRow
  BY DEF AccountTyped, TypeOK
<1>2. /\ [challenges[x] EXCEPT !.consumed = TRUE] \in ChallengeRow
      /\ [challenges[x] EXCEPT !.consumed = TRUE].consumed = TRUE
  BY <1>1 DEF ChallengeRow
<1>3. /\ [challenges[x] EXCEPT !.expired = TRUE] \in ChallengeRow
      /\ [challenges[x] EXCEPT !.expired = TRUE].consumed = challenges[x].consumed
  BY <1>1 DEF ChallengeRow
<1> QED BY <1>1, <1>2, <1>3, NamesAssumption

\* The new challenge has its e-mail; the older ones are consumed.
LEMMA ChallengesAdd ==
  ASSUME AccountTyped, NEW purpose \in Purpose, NEW older, \A x \in older : challenges[x] # None,
         Challenges(purpose, older), UNCHANGED used, owner'[Local] # None
  PROVE  ChallengesGo /\ MailInv' /\ UNCHANGED failures
<1> DEFINE n == CHOOSE y \in Free(challenges) : TRUE
           row == [purpose |-> purpose, consumed |-> FALSE, expired |-> FALSE]
<1>1. n \in Challenge /\ challenges[n] = None
  BY DEF Challenges, Free, AccountTyped, TypeOK
<1>2. /\ challenges' = [y \in Challenge |-> IF y = n THEN row
                                            ELSE IF y \in older THEN [challenges[y] EXCEPT !.consumed = TRUE]
                                            ELSE challenges[y]]
      /\ QueueEmail(n) /\ UNCHANGED <<mailer, mailFaults, delivered, failures>>
  BY DEF Challenges
<1>3. row \in ChallengeRow
  BY DEF ChallengeRow
<1> HIDE DEF n, row
<1>4. outbox[n] = None
  BY <1>1 DEF AccountTyped, Mailed
<1>5. /\ outbox'[n] # None /\ \A y \in Challenge \ {n} : outbox'[y] = outbox[y]
      /\ MailInv'
  BY <1>1, <1>2, <1>4, QueueInv, QueueTyped DEF AccountTyped, MailInv
<1>6. ASSUME NEW y \in Challenge
      PROVE  challenges'[y] \in ChallengeRow \union {None} /\ ChallengeGo(y)
  <2>1. CASE y = n
    BY <1>1, <1>2, <1>3, <1>5, <2>1, NamesAssumption DEF ChallengeGo
  <2>2. CASE y # n /\ y \in older
    <3>1. challenges[y] # None /\ challenges'[y] = [challenges[y] EXCEPT !.consumed = TRUE] /\ outbox'[y] = outbox[y]
      BY <1>2, <1>5, <2>2
    <3> QED BY <3>1, ChallengeRows DEF ChallengeGo
  <2>3. CASE y # n /\ y \notin older
    <3>1. challenges'[y] = challenges[y] /\ outbox'[y] = outbox[y]
      BY <1>2, <1>5, <2>3
    <3> QED BY <3>1 DEF ChallengeGo, AccountTyped, TypeOK
  <2> QED BY <2>1, <2>2, <2>3
<1>7. challenges' = [y \in Challenge |-> challenges'[y]]
  BY <1>2
<1> QED BY <1>2, <1>5, <1>6, <1>7 DEF ChallengesGo

\* An exception that nothing handles leaves everything as it was.
LEMMA RaisesGo ==
  ASSUME AccountTyped, NEW c \in Caller, End(c),
         NEW f \in {"signup", "challenge", "external"}, Raises(f)
  PROVE  Go
<1>1. UNCHANGED <<owner, verified, challenges, sessions, states, used, mailVars>> /\ failures' = failures \union {f}
  BY DEF Raises
<1>2. UNCHANGED outbox
  BY <1>1 DEF mailVars
<1>3. CallersGo /\ UNCHANGED requests
  BY CallerEnds
<1>4. ScalarsGo
  BY <1>1, <1>3 DEF AccountTyped, TypeOK, ScalarsGo
<1> QED BY <1>1, <1>2, <1>3, <1>4, OwnerStays, SessionsStay, ChallengesStay, StatesStay, MailStays DEF Go

LEMMA GoSignup == ASSUME AccountTyped, NEW c \in Caller, SignupInserts(c) PROVE Go
<1>1. End(c)
  BY DEF SignupInserts
<1>2. CASE owner["email_password"] # None \/ ~Autoflush
  BY <1>1, <1>2, RaisesGo DEF SignupInserts
<1>3. CASE ~(owner["email_password"] # None \/ ~Autoflush)
  <2>1. /\ owner[Local] = None
        /\ owner' = [owner EXCEPT ![Local] = Local]
        /\ Challenges("email_verification", {})
        /\ UNCHANGED <<verified, sessions, states, used>>
    BY <1>3 DEF SignupInserts, Local
  <2>2. OwnerGo /\ owner'[Local] # None
    BY <2>1, OwnerParts DEF OwnerGo, AccountTyped, TypeOK, User
  <2>3. ChallengesGo /\ MailInv' /\ UNCHANGED failures
    BY <2>1, <2>2, ChallengesAdd DEF Purpose
  <2>4. CallersGo /\ UNCHANGED requests
    BY <1>1, CallerEnds
  <2> QED BY <2>1, <2>2, <2>3, <2>4, SessionsStay, StatesStay, ScalarsStay DEF Go
<1> QED BY <1>2, <1>3

LEMMA GoChallenge == ASSUME AccountTyped, NEW c \in Caller, ChallengeCommits(c) PROVE Go
<1>1. End(c) /\ caller[c].phase = "challenge"
  BY DEF ChallengeCommits
<1>2. CASE ~Autoflush
  BY <1>1, <1>2, RaisesGo DEF ChallengeCommits
<1>3. CASE Autoflush
  <2>1. /\ Challenges(caller[c].purpose, caller[c].open)
        /\ UNCHANGED <<owner, verified, sessions, states, used>>
    BY <1>3 DEF ChallengeCommits
  <2>2. caller[c].purpose \in Purpose /\ owner[Local] # None /\ \A x \in caller[c].open : challenges[x] # None
    BY <1>1 DEF AccountTyped, Informed
  <2>3. ChallengesGo /\ MailInv' /\ UNCHANGED failures
    BY <2>1, <2>2, ChallengesAdd
  <2>4. CallersGo /\ UNCHANGED requests
    BY <1>1, CallerEnds
  <2> QED BY <2>1, <2>3, <2>4, OwnerStays, SessionsStay, StatesStay, ScalarsStay DEF Go
<1> QED BY <1>2, <1>3

\* Accepting a challenge consumes it.
LEMMA ConsumeGo ==
  ASSUME AccountTyped, NEW x \in Challenge, NEW purpose, Valid(x, purpose), Consume(x), UNCHANGED outbox
  PROVE  /\ ChallengesGo /\ used' \in [Challenge \union OAuthState -> Nat]
         /\ \A o \in OAuthState : used'[o] = used[o]
<1> DEFINE row == [challenges[x] EXCEPT !.consumed = TRUE]
<1>1. challenges[x] # None /\ ~challenges[x].consumed
  BY DEF Valid
<1>2. challenges' = [challenges EXCEPT ![x] = row] /\ used' = [used EXCEPT ![x] = @ + 1]
  BY DEF Consume, AccountTyped, TypeOK
<1>3. row \in ChallengeRow /\ row.consumed = TRUE /\ row # None
  BY <1>1, ChallengeRows
<1> HIDE DEF row
<1>4. used \in [Challenge \union OAuthState -> Nat] /\ challenges \in [Challenge -> ChallengeRow \union {None}]
  BY DEF AccountTyped, TypeOK
<1>5. /\ used' \in [Challenge \union OAuthState -> Nat] /\ used'[x] = used[x] + 1
      /\ \A y \in (Challenge \union OAuthState) \ {x} : used'[y] = used[y]
  BY <1>2, <1>4
<1>6. \A o \in OAuthState : used'[o] = used[o]
  BY <1>5, NamesAssumption
<1>7. ASSUME NEW y \in Challenge PROVE ChallengeGo(y)
  <2>1. CASE y = x
    BY <1>1, <1>2, <1>3, <1>4, <1>5, <2>1 DEF ChallengeGo
  <2>2. CASE y # x
    BY <1>2, <1>4, <1>5, <2>2 DEF ChallengeGo
  <2> QED BY <2>1, <2>2
<1> QED BY <1>2, <1>3, <1>4, <1>5, <1>6, <1>7 DEF ChallengesGo

LEMMA GoAccept ==
  ASSUME AccountTyped, NEW c \in Caller, NEW x \in Challenge, VerifyEmail(c, x) \/ ResetPassword(c, x) PROVE Go
<1>1. /\ \E purpose : Valid(x, purpose)
      /\ Consume(x) /\ UNCHANGED <<caller, requests, owner, states, failures, mailVars>>
  BY DEF VerifyEmail, ResetPassword, AtOnce
<1>2. UNCHANGED outbox
  BY <1>1 DEF mailVars
<1>3. /\ ChallengesGo /\ used' \in [Challenge \union OAuthState -> Nat]
      /\ \A o \in OAuthState : used'[o] = used[o]
  BY <1>1, <1>2, ConsumeGo
<1>4. verified' \in BOOLEAN
  BY DEF VerifyEmail, ResetPassword, AccountTyped, TypeOK
<1>5. SessionsGo
  <2>1. CASE VerifyEmail(c, x)
    <3>1. owner["email_password"] \in User
      BY <2>1, OwnerParts DEF VerifyEmail, Valid, AccountTyped, Mailed, Local
    <3> QED BY <2>1, <3>1, NewSessionGo DEF VerifyEmail
  <2>2. CASE ResetPassword(c, x)
    BY <2>2, SessionsOfExist, RevokeGo DEF ResetPassword
  <2> QED BY <2>1, <2>2
<1>6. ScalarsGo
  BY <1>1, <1>3, <1>4 DEF AccountTyped, TypeOK, ScalarsGo
<1> QED BY <1>1, <1>3, <1>5, <1>6, OwnerStays, StatesStay, MailStays, CallersStay DEF Go

LEMMA GoExpires == ASSUME AccountTyped, NEW x \in Challenge, ChallengeExpires(x) PROVE Go
<1> DEFINE row == [challenges[x] EXCEPT !.expired = TRUE]
<1>1. /\ challenges[x] # None
      /\ UNCHANGED <<owner, verified, sessions, states, caller, requests, used, failures, mailVars>>
  BY DEF ChallengeExpires
<1>2. challenges' = [challenges EXCEPT ![x] = row]
  BY DEF ChallengeExpires, AccountTyped, TypeOK
<1>3. row \in ChallengeRow /\ row.consumed = challenges[x].consumed /\ row # None
  BY <1>1, ChallengeRows
<1> HIDE DEF row
<1>4. UNCHANGED outbox
  BY <1>1 DEF mailVars
<1>5. ChallengesGo
  BY <1>1, <1>2, <1>3, <1>4 DEF ChallengesGo, ChallengeGo, AccountTyped, TypeOK
<1> QED BY <1>1, <1>5, OwnerStays, SessionsStay, StatesStay, MailStays, CallersStay, ScalarsStay DEF Go

-----------------------------------------------------------------------------
(* Signing in with a provider *)

LEMMA GoBeginOAuth ==
  ASSUME AccountTyped, NEW c \in Caller, NEW link \in User \union {None}, BeginOAuth(c, link) PROVE Go
<1> DEFINE n == CHOOSE x \in Free(states) : TRUE
           row == [consumed |-> FALSE, expired |-> FALSE, link |-> link]
<1>1. n \in OAuthState /\ states[n] = None
  BY DEF BeginOAuth, Free, AccountTyped, TypeOK
<1>2. /\ states' = [states EXCEPT ![n] = row] /\ Begin(c, IdleCaller)
      /\ UNCHANGED <<owner, verified, challenges, sessions, used, failures, mailVars>>
  BY DEF BeginOAuth
<1>3. row \in StateRow
  BY DEF StateRow
<1> HIDE DEF n, row
<1>4. StatesGo
  BY <1>1, <1>2, <1>3, NamesAssumption DEF StatesGo, StateGo, AccountTyped, TypeOK
<1>5. UNCHANGED outbox
  BY <1>2 DEF mailVars
<1>6. CallersGo /\ requests' \in 0 .. MaxRequests
  <2>1. Informed(IdleCaller)'
    BY IdleTypedCaller DEF Informed
  <2> QED BY <1>2, <2>1, IdleTypedCaller, CallerMoves, RequestsTyped DEF Begin
<1>7. ScalarsGo
  BY <1>2, <1>6 DEF AccountTyped, TypeOK, ScalarsGo
<1> QED BY <1>2, <1>4, <1>5, <1>6, <1>7, OwnerStays, SessionsStay, ChallengesStay, MailStays DEF Go

LEMMA GoConsumeState ==
  ASSUME AccountTyped, NEW c \in Caller, NEW o \in OAuthState, ConsumeOAuthState(c, o) PROVE Go
<1> DEFINE row == [states[o] EXCEPT !.consumed = TRUE]
           s == [IdleCaller EXCEPT !.phase = "external", !.user = states[o].link]
<1>1. /\ states[o] # None /\ ~states[o].consumed
      /\ Begin(c, s) /\ used' = [used EXCEPT ![o] = @ + 1]
      /\ UNCHANGED <<owner, verified, challenges, sessions, failures, mailVars>>
  BY DEF ConsumeOAuthState
<1>2. states' = [states EXCEPT ![o] = row]
  BY DEF ConsumeOAuthState, AccountTyped, TypeOK
<1>3. states[o] \in StateRow /\ states[o].link \in User \union {None}
  BY <1>1 DEF AccountTyped, TypeOK, StateRow
<1>4. row \in StateRow /\ row.consumed = TRUE
  BY <1>3 DEF StateRow
<1>5. s \in CallerState /\ s.phase = "external" /\ s.open = {} /\ s.stale = FALSE
  BY <1>3 DEF IdleCaller, CallerState
<1> HIDE DEF row, s
<1>6. used \in [Challenge \union OAuthState -> Nat] /\ states \in [OAuthState -> StateRow \union {None}]
  BY DEF AccountTyped, TypeOK
<1>7. /\ used' \in [Challenge \union OAuthState -> Nat] /\ used'[o] = used[o] + 1
      /\ \A y \in (Challenge \union OAuthState) \ {o} : used'[y] = used[y]
  BY <1>1, <1>6
<1>8. \A x \in Challenge : used'[x] = used[x]
  BY <1>7, NamesAssumption
<1>9. StatesGo
  <2>1. ASSUME NEW y \in OAuthState PROVE StateGo(y)
    <3>1. CASE y = o
      BY <1>1, <1>2, <1>4, <1>6, <1>7, <3>1, NamesAssumption DEF StateGo
    <3>2. CASE y # o
      BY <1>2, <1>6, <1>7, <3>2 DEF StateGo
    <3> QED BY <3>1, <3>2
  <2> QED BY <1>2, <1>4, <1>6, <2>1 DEF StatesGo
<1>10. CallersGo /\ requests' \in 0 .. MaxRequests
  <2>1. PICK z \in CallerState : z = s
    BY <1>5
  <2>2. Informed(z)'
    BY <1>5, <2>1 DEF Informed
  <2>3. caller' = [caller EXCEPT ![c] = z]
    BY <1>1, <2>1 DEF Begin
  <2> QED BY <1>1, <2>2, <2>3, CallerMoves, RequestsTyped DEF Begin
<1>11. ScalarsGo
  BY <1>1, <1>7, <1>10 DEF AccountTyped, TypeOK, ScalarsGo
<1>12. UNCHANGED outbox
  BY <1>1 DEF mailVars
<1> QED BY <1>1, <1>8, <1>9, <1>10, <1>11, <1>12, OwnerStays, SessionsStay, ChallengesStay, MailStays DEF Go

LEMMA GoInserts == ASSUME AccountTyped, NEW c \in Caller, ExternalInserts(c) PROVE Go
<1>1. End(c) /\ caller[c].phase = "external" /\ caller[c].stale
  BY DEF ExternalInserts
<1>2. CASE owner["google"] # None
  BY <1>1, <1>2, RaisesGo DEF ExternalInserts
<1>3. CASE owner["google"] = None
  <2>1. /\ owner' = [owner EXCEPT !["google"] = caller[c].user] /\ NewSession(caller[c].user)
        /\ UNCHANGED <<verified, challenges, states, used, failures, mailVars>>
    BY <1>3 DEF ExternalInserts
  <2>2. caller[c].user \in User
    BY <1>1 DEF AccountTyped, Informed
  <2>3. OwnerGo
    BY <1>3, <2>1, <2>2 DEF OwnerGo, AccountTyped, TypeOK
  <2>4. SessionsGo
    BY <2>1, <2>2, NewSessionGo
  <2>5. CallersGo /\ UNCHANGED requests
    BY <1>1, CallerEnds
  <2>6. UNCHANGED outbox
    BY <2>1 DEF mailVars
  <2> QED BY <2>1, <2>3, <2>4, <2>5, <2>6, ChallengesStay, StatesStay, MailStays, ScalarsStay DEF Go
<1> QED BY <1>2, <1>3

-----------------------------------------------------------------------------
(* Every step *)

\* The outbox goes on by itself: challenges keep their e-mails.
LEMMA MailsRemain == ASSUME MailTyped, [MailNext]_mailVars, NEW e \in Challenge
                     PROVE  outbox'[e] # None <=> outbox[e] # None
<1>1. CASE UNCHANGED mailVars
  BY <1>1 DEF mailVars
<1>2. ASSUME NEW m \in Mailer, NEW x \in Challenge, ClaimMail(m, x) PROVE outbox'[e] # None <=> outbox[e] # None
  BY <1>2, ClaimEffect, ReturnedParts, NoMailAssumption
<1>3. ASSUME NEW m \in Mailer, WriteMail(m) PROVE outbox'[e] # None <=> outbox[e] # None
  BY <1>3, WriteEffect
<1>4. ASSUME NEW m \in Mailer, Send(m) \/ ReadMail(m) \/ SentRaises(m) \/ MailerCrash(m) \/ MailerStart(m)
      PROVE  outbox'[e] # None <=> outbox[e] # None
  BY <1>4 DEF Send, ReadMail, SentRaises, MailerCrash, MailerStart
<1>5. ASSUME NEW t \in Challenge, LoseLease(t) PROVE outbox'[e] # None <=> outbox[e] # None
  BY <1>5, LoseEffect
<1>6. ASSUME NEW t \in Challenge, MailBackoffElapses(t) PROVE outbox'[e] # None <=> outbox[e] # None
  <2>1. outbox[t] # None
    BY <1>6 DEF MailBackoffElapses
  <2> QED BY <1>6, <2>1, BackoffEffect
<1> QED BY <1>1, <1>2, <1>3, <1>4, <1>5, <1>6
        DEF MailNext, RunMailer, MailTime, AbandonedMailExpires, OutlivedMailExpires

LEMMA GoMail == ASSUME AccountTyped, [MailNext]_mailVars, UNCHANGED accountVars PROVE Go
<1>1. UNCHANGED <<owner, verified, challenges, sessions, states, caller, requests, used, failures>>
  BY DEF accountVars
<1>2. MailInv'
  BY MailStepInv DEF AccountTyped
<1>3. \A x \in Challenge : outbox'[x] # None <=> outbox[x] # None
  BY MailsRemain DEF AccountTyped, MailInv
<1>4. ChallengesGo
  BY <1>1, <1>3 DEF ChallengesGo, ChallengeGo, AccountTyped, TypeOK
<1> QED BY <1>1, <1>2, <1>4, OwnerStays, SessionsStay, StatesStay, CallersStay, ScalarsStay DEF Go

LEMMA EveryStepGoes == ASSUME AccountTyped, [Next]_vars PROVE Go
<1>1. CASE AccountNext
  <2>1. ASSUME NEW c \in Caller, SignupLooks(c) \/ (\E purpose \in Purpose : ChallengeBegins(c, purpose))
                                 \/ LoginReads(c) \/ \E s \in Session : ResolveReads(c, s)
        PROVE  Go
    BY <2>1, GoBegin
  <2>2. ASSUME NEW c \in Caller, SignupInserts(c) \/ ChallengeCommits(c)
                                 \/ \E x \in Challenge : VerifyEmail(c, x) \/ ResetPassword(c, x)
        PROVE  Go
    BY <2>2, GoSignup, GoChallenge, GoAccept
  <2>3. ASSUME NEW c \in Caller, LoginCommits(c) \/ ResolveWrites(c) \/ ResolveRollsBack(c) \/ OnlyResolves(c)
                                 \/ LogoutCurrent(c) \/ RotateSession(c) \/ LogoutAll(c)
        PROVE  Go
    BY <2>3, GoSessionEnd, GoResolve, GoEnd, GoRotate
  <2>4. ASSUME NEW c \in Caller, (\E link \in User \union {None} : BeginOAuth(c, link))
                                 \/ (\E o \in OAuthState : ConsumeOAuthState(c, o))
                                 \/ ProviderFails(c) \/ ExternalSignsIn(c) \/ ExternalLooks(c) \/ ExternalInserts(c)
        PROVE  Go
    BY <2>4, GoBeginOAuth, GoConsumeState, GoEnd, GoSessionEnd, GoLooks, GoInserts
  <2> QED BY <1>1, <2>1, <2>2, <2>3, <2>4, GoExpires, GoIdles DEF AccountNext
<1>2. CASE MailNext /\ UNCHANGED accountVars
  BY <1>2, GoMail
<1>3. CASE UNCHANGED vars
  BY <1>3, GoMail DEF vars, accountVars, mailVars
<1> QED BY <1>1, <1>2, <1>3 DEF Next

LEMMA AccountInit == Init => AccountTyped /\ Accepted
<1> SUFFICES ASSUME Init PROVE AccountTyped /\ Accepted
  OBVIOUS
<1>1. MailInv /\ MailTypeOK
  BY MailInitInv, MailInvMeans DEF Init
<1>2. TypeOK
  BY <1>1, IdleTypedCaller DEF Init, TypeOK
<1>3. Mailed
  BY DEF Init, MailInit, Mailed
<1>4. \A c \in Caller : Informed(caller[c])
  BY IdleTypedCaller DEF Init, Informed
<1>5. Accepted
  BY DEF Init, Accepted
<1> QED BY <1>1, <1>2, <1>3, <1>4, <1>5 DEF AccountTyped

LEMMA AccountNextTyped == AccountTyped /\ [Next]_vars => AccountTyped'
BY EveryStepGoes, GoTyped

LEMMA AccountNextAccepted == AccountTyped /\ Accepted /\ [Next]_vars => Accepted'
BY EveryStepGoes, GoAccepted

LEMMA AccountAlways == Spec => [](AccountTyped /\ Accepted)
BY AccountInit, AccountNextTyped, AccountNextAccepted, PTL DEF Spec

(* Every reachable state of the account tables, of the calls in progress and *)
(* of the outbox has its type.                                               *)
THEOREM AccountsTypeCorrect == Spec => []TypeOK
<1>1. AccountTyped => TypeOK
  BY DEF AccountTyped
<1> QED BY <1>1, AccountAlways, PTL

(* A link and a provider's callback are accepted once: accepting consumes,   *)
(* and nothing that runs beside it takes that back.                          *)
THEOREM LinksAreAcceptedOnce == Spec => []AcceptedOnce
<1>1. Accepted => AcceptedOnce
  BY DEF Accepted, AcceptedOnce
<1> QED BY <1>1, AccountAlways, PTL

(* What is recorded as sent was taken by the server, and beyond max_attempts *)
(* an e-mail is tried at most once for each mailer that died with its row or *)
(* outlived its lease, also when mailers that lost the row write it again.   *)
THEOREM AttemptsAreAccountedFor == Spec => []MailsAccountedFor
<1>1. AccountTyped => MailsAccountedFor
  BY MailInvMeans DEF AccountTyped
<1> QED BY <1>1, AccountAlways, PTL

(* Sign-ups, sign-ins and links that race for an identity do not move it.    *)
THEOREM IdentitiesKeepOwners == Spec => IdentityKeepsOwner
<1>1. AccountTyped /\ [Next]_vars => [\A p \in Provider : owner[p] # None => owner'[p] = owner[p]]_owner
  BY EveryStepGoes DEF Go, OwnerGo
<1> QED BY <1>1, AccountAlways, PTL DEF Spec, IdentityKeepsOwner

(* What logout or a reset has revoked stays revoked, whatever a request that *)
(* had resolved the session before still writes.                             *)
THEOREM RevokedSessionsStay == Spec => RevokedStaysRevoked
<1>1. AccountTyped /\ [Next]_vars
      => [\A s \in Session : sessions[s] # None /\ sessions[s].revoked => sessions'[s].revoked]_sessions
  BY EveryStepGoes DEF Go, SessionsGo
<1> QED BY <1>1, AccountAlways, PTL DEF Spec, RevokedStaysRevoked
=============================================================================

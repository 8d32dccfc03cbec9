------------------------- MODULE HttpSession_proofs -------------------------
(***************************************************************************)
(* Theorems about HttpSession, for any calls, tabs and numbers of logins     *)
(* and expired tokens.                                                       *)
(*                                                                         *)
(* A csrf token is refused only if something came between its cookie and its *)
(* call; so the invariant says which cookie a call that nothing disturbed has *)
(* at each stage.  The other cookies are gone or those of the last login that *)
(* brought a refresh token.                                                   *)
(***************************************************************************)
EXTENDS HttpSession, TLAPS

\* Two mutations are in progress at once only if both are disturbed.
OverlapDisturbs ==
  \A c, d \in Writes :
    pc[c] \in Open /\ pc[d] \in Open /\ c # d => c \in disturbed

Undisturbed(c) == c \notin disturbed \cup aged

\* The token of a call that nothing disturbed is in the jar while the call has it
\* in hand, and in the call's cookies once it was sent.
TokenInPlace ==
  \A c \in Writes :
    Undisturbed(c) => /\ pc[c] = "holding" => jar.csrf = c
                      /\ pc[c] \in {"sent", "orphaned"} => cookies[c].csrf = c

\* The refresh cookie is that of the last login which brought one, or it is gone.
LastSession ==
  /\ jar.refresh \in 0..logins /\ jar.access \in 0..Len(owner)
  /\ jar.refresh # 0 => \A s \in 1..logins : s > jar.refresh => s \in bare
  /\ RefreshHasAccess
  /\ \A c \in Calls : cookies[c].refresh \in 0..logins /\ cookies[c].access \in 0..Len(owner)

\* Until a session ends there are cookies, in the jar and on the way; the refresh
\* token is missing only where a session came without.
SessionLives ==
  ~ended => /\ revoked = {} /\ jar.access # 0 /\ (jar.refresh # 0 \/ bare # {})
            /\ \A c \in Calls : pc[c] \in {"sent", "orphaned"} =>
                 cookies[c].access # 0 /\ (cookies[c].refresh # 0 \/ bare # {})

\* Why authenticate() may refuse a call.
LoginCause == ended \/ outages # {} \/ (bare # {} /\ expired > 0)

\* What a call may be answered, and why.
AnswersHaveCauses ==
  \A c \in Calls :
    /\ answer[c].outcome \in Refusals => c \in Writes /\ ~Undisturbed(c)
    /\ answer[c].outcome = "forbidden" => guests # {}
    /\ answer[c].outcome = "unauthenticated" => LoginCause

\* A read makes no exchange.
ReadsSkip == \A c \in Calls : pc[c] \in {"fetching", "issued", "holding"} => c \in Writes

SessionInv == /\ TypeOK /\ ReadsSkip /\ OverlapDisturbs /\ TokenInPlace /\ LastSession /\ SessionLives
              /\ AnswersHaveCauses /\ NoNeedlessLogin

-----------------------------------------------------------------------------
LEMMA OwnerGrows ==
  ASSUME logins \in Nat, owner \in Seq(1..logins), NEW n \in Nat, n >= logins,
         NEW s \in 1..n, owner' = Append(owner, s)
  PROVE  /\ owner' \in Seq(1..n) /\ Len(owner') = Len(owner) + 1 /\ Len(owner) \in Nat
         /\ owner'[Len(owner')] = s
         /\ \A i \in 1..Len(owner) : owner'[i] = owner[i]
  <1>1. Len(owner) \in Nat /\ \A i \in 1..Len(owner) : owner[i] \in 1..n
    OBVIOUS
  <1>2. owner \in Seq(1..n)
    BY <1>1
  <1> QED BY <1>1, <1>2

LEMMA InvTypes ==
  TypeOK => /\ Len(owner) \in Nat /\ logins \in Nat /\ logins >= 1 /\ expired \in Nat
            /\ \A i \in 1..Len(owner) : owner[i] \in 1..logins
            /\ jar \in Jar /\ pc \in [Calls -> Stages] /\ cookies \in [Calls -> Jar]
            /\ answer \in [Calls -> [outcome : Outcomes, access : 0..Len(owner)]]
  BY BoundsAssumption DEF TypeOK

LEMMA Moves ==
  ASSUME pc \in [Calls -> Stages], NEW c \in Calls, NEW s \in Stages, Goto(c, s)
  PROVE  /\ pc' \in [Calls -> Stages] /\ pc'[c] = s
         /\ \A d \in Calls : d # c => pc'[d] = pc[d]
  BY DEF Goto

LEMMA Abandons ==
  ASSUME pc \in [Calls -> Stages], NEW t \in Tabs
  PROVE  /\ Abandoned(t) \in [Calls -> Stages]
         /\ \A d \in Calls : \/ Abandoned(t)[d] = pc[d]
                             \/ Abandoned(t)[d] = "orphaned" /\ pc[d] = "sent"
                             \/ Abandoned(t)[d] = "gone"
  BY DEF Abandoned, Stages, Open
-----------------------------------------------------------------------------
LEMMA SessionStarts == Init => SessionInv
  <1> SUFFICES ASSUME Init PROVE SessionInv
    OBVIOUS
  <1> USE CallsAssumption, BoundsAssumption DEF Init
  <1>1. /\ Len(owner) = 1 /\ owner[1] = 1 /\ logins = 1 /\ owner \in Seq(1..logins)
        /\ jar.csrf = NoToken /\ jar.access = 1
        /\ jar.refresh = IF bare = {} THEN 1 ELSE 0
    <2>1. bare = {} \/ bare = {1}
      OBVIOUS
    <2> QED BY <2>1
  <1>2. jar \in Jar /\ expired \in 0..Len(owner) /\ logins \in 1..MaxLogins
    BY <1>1 DEF Jar
  <1>3. cookies \in [Calls -> Jar] /\ pc \in [Calls -> Stages]
    BY DEF Jar, NoCookies, Stages
  <1>4. answer \in [Calls -> [outcome : Outcomes, access : 0..Len(owner)]]
    BY <1>1 DEF NoAnswer, Outcomes
  <1>5. logout \in [stage : {"none", "sent", "answered"}, from : SUBSET Tabs, refresh : 0..logins]
    BY <1>1 DEF NoLogout
  <1>6. TypeOK
    <2>1. /\ aged \subseteq Writes /\ revoked \subseteq 1..logins /\ handled \subseteq Calls
          /\ disturbed \subseteq Writes
      OBVIOUS
    <2>2. tab \in [Tabs -> {"app", "login"}] /\ ended \in BOOLEAN
      OBVIOUS
    <2>3. guests \subseteq {1} /\ bare \subseteq {1} /\ 1 \in 1..logins /\ outages \subseteq Calls
      BY <1>1
    <2> QED BY <1>1, <1>2, <1>3, <1>4, <1>5, <2>1, <2>2, <2>3 DEF TypeOK
  <1>7. ReadsSkip /\ OverlapDisturbs /\ TokenInPlace
    BY DEF ReadsSkip, OverlapDisturbs, TokenInPlace, Open, Writes
  <1>8. LastSession /\ SessionLives
    BY <1>1 DEF LastSession, SessionLives, RefreshHasAccess, NoCookies
  <1>9. AnswersHaveCauses /\ NoNeedlessLogin
    BY DEF AnswersHaveCauses, NoNeedlessLogin, NoAnswer, Refusals
  <1> QED BY <1>6, <1>7, <1>8, <1>9 DEF SessionInv

-----------------------------------------------------------------------------
(* Type correctness.                                                        *)

LEMMA OutcomeTypes ==
  ASSUME NEW c \in Calls, NEW does PROVE Outcome(c, does) \in Outcomes \ {"none", "lost"}
  BY DEF Outcome, CsrfOutcome, Outcomes, Refusals

\* Cognito mints for the session of the cookies, which lives.
LEMMA MintsForItsSession ==
  ASSUME TypeOK, LastSession, NEW c \in Calls, NEW does \in Cognito, Mints(cookies[c], does)
  PROVE  cookies[c].refresh \in (1..logins) \ revoked
  <1>1. cookies[c].refresh \in 0..logins /\ logins \in Nat
    BY BoundsAssumption DEF LastSession, TypeOK
  <1>2. cookies[c].refresh # 0 /\ cookies[c].refresh \notin revoked
    BY DEF Mints, Unauthenticated
  <1> QED BY <1>1, <1>2

LEMMA TypesStayRight == SessionInv /\ [Next]_vars => TypeOK'
  <1> SUFFICES ASSUME TypeOK, LastSession, [Next]_vars PROVE TypeOK'
    BY DEF SessionInv
  <1> USE CallsAssumption, BoundsAssumption DEF TypeOK
  <1>1. ASSUME NEW c \in Calls, StartWrite(c) PROVE TypeOK'
    BY <1>1, Moves DEF StartWrite, Stages, Open, InProgress, authServer, Writes
  <1>2. ASSUME NEW c \in Calls, IssueToken(c) PROVE TypeOK'
    BY <1>2, Moves DEF IssueToken, Stages, Open, authServer, history
  <1>3. ASSUME NEW c \in Calls, ReceiveToken(c) PROVE TypeOK'
    BY <1>3, Moves DEF ReceiveToken, Stages, Open, authServer, history, StoreToken, Jar
  <1>4. ASSUME NEW c \in Calls, Send(c) PROVE TypeOK'
    BY <1>4, Moves DEF Send, Stages, Open, authServer, history
  <1>5. ASSUME NEW c \in Calls, Serve(c) PROVE TypeOK'
    <2>0. PICK does \in Cognito : ServeWhile(c, does)
      BY <1>5 DEF Serve
    <2>1. pc' \in [Calls -> Stages] /\ cookies' \in [Calls -> Jar] /\ handled' \subseteq Calls
          /\ outages' \subseteq Calls
      BY <2>0, Moves DEF ServeWhile, Stages, Open, Jar, NoCookies
    <2>2. /\ owner' \in Seq(1..logins) /\ Len(owner') \in Nat /\ Len(owner') >= Len(owner)
          /\ \A b \in BOOLEAN :
               (IF Refreshes(cookies[c], does) /\ b THEN Len(owner) + 1 ELSE 0) \in 0..Len(owner')
      <3>1. CASE Mints(cookies[c], does)
        <4>1. cookies[c].refresh \in 1..logins /\ logins \in Nat
          BY <3>1, MintsForItsSession
        <4>2. owner' = Append(owner, cookies[c].refresh)
          BY <2>0, <3>1 DEF ServeWhile
        <4>3. owner' \in Seq(1..logins) /\ Len(owner') = Len(owner) + 1 /\ Len(owner) \in Nat
          BY <4>1, <4>2, OwnerGrows
        <4> QED BY <4>3
      <3>2. CASE ~Mints(cookies[c], does)
        BY <2>0, <3>2 DEF ServeWhile, Refreshes
      <3> QED BY <3>1, <3>2
    <2>3. answer' \in [Calls -> [outcome : Outcomes, access : 0..Len(owner')]]
      <3>1. \A d \in Calls : answer[d] \in [outcome : Outcomes, access : 0..Len(owner')]
        BY <2>2
      <3>2. (pc[c] = "sent") \in BOOLEAN /\ Outcome(c, does) \in Outcomes
        BY OutcomeTypes
      <3> QED BY <2>0, <2>2, <3>1, <3>2 DEF ServeWhile
    <2>4. expired' \in 0..Len(owner')
      BY <2>0, <2>2 DEF ServeWhile
    <2> QED BY <2>0, <2>1, <2>2, <2>3, <2>4 DEF ServeWhile
  <1>6. ASSUME NEW c \in Calls, ReceiveAnswer(c) PROVE TypeOK'
    <2>1. jar' \in Jar
      <3>1. answer[c].access \in Nat /\ jar.access \in Nat /\ jar.csrf \in Calls \cup {NoToken}
        <4>1. answer[c] \in [outcome : Outcomes, access : 0..Len(owner)]
          OBVIOUS
        <4> QED BY <4>1 DEF Jar
      <3> DEFINE access == IF answer[c].access = 0 THEN jar.access ELSE answer[c].access
                 csrf == IF answer[c].outcome = "csrf_mismatch" THEN NoToken ELSE jar.csrf
      <3>2. jar' = [jar EXCEPT !.access = access, !.csrf = csrf]
        BY <1>6 DEF ReceiveAnswer, ApplyCookies, Jar
      <3>3. access \in Nat /\ csrf \in Calls \cup {NoToken}
        BY <3>1
      <3> QED BY <3>2, <3>3 DEF Jar
    <2>2. pc' \in [Calls -> Stages]
      BY <1>6, Moves, Abandons DEF ReceiveAnswer, Stages
    <2>3. /\ tab' \in [Tabs -> {"app", "login"}]
          /\ logout' \in [stage : {"none", "sent", "answered"}, from : SUBSET Tabs, refresh : 0..logins]
      <3>1. NoLogout \in [stage : {"none", "sent", "answered"}, from : SUBSET Tabs, refresh : 0..logins]
        BY DEF NoLogout
      <3>2. logout' \in {NoLogout, logout} /\ tab' \in {tab, [tab EXCEPT ![TabOf[c]] = "login"]}
        BY <1>6 DEF ReceiveAnswer
      <3> QED BY <3>1, <3>2
    <2>4. answer' \in [Calls -> [outcome : Outcomes, access : 0..Len(owner)]]
      <3> HIDE DEF TypeOK
      <3>1. answer \in [Calls -> [outcome : Outcomes, access : 0..Len(owner)]] /\ Len(owner) \in Nat
        BY InvTypes
      <3>2. answer' = [answer EXCEPT ![c].access = 0]
        BY <1>6 DEF ReceiveAnswer
      <3> QED BY <3>1, <3>2
    <2> QED BY <1>6, <2>1, <2>2, <2>3, <2>4 DEF ReceiveAnswer, authServer, history
  <1>7. ASSUME NEW c \in Calls, Lose(c) PROVE TypeOK'
    BY <1>7, Moves DEF Lose, Stages, Outcomes, authServer, history, NoCookies, Jar
  <1>8. ASSUME NEW c \in Calls, AgeToken(c) PROVE TypeOK'
    BY <1>8 DEF AgeToken, authServer, history
  <1>9. ASSUME NEW t \in Tabs, RequestLogout(t) PROVE TypeOK'
    BY <1>9 DEF RequestLogout, authServer, history, LastSession
  <1>10. ASSUME NEW t \in Tabs, CompleteLogout(t) PROVE TypeOK'
    BY <1>10, Abandons DEF CompleteLogout, authServer, NoLogout, NoCookies, Jar, InProgress, Writes
  <1>11. ASSUME NEW t \in Tabs, Login(t) PROVE TypeOK'
    <2>1. logins' = logins + 1 /\ logins' \in 1..MaxLogins /\ logins \in Nat
      BY <1>11 DEF Login
    <2>2. owner' \in Seq(1..logins') /\ Len(owner') = Len(owner) + 1 /\ Len(owner) \in Nat
      <3>1. owner' = Append(owner, logins + 1) /\ logins + 1 \in 1..logins'
        BY <1>11, <2>1 DEF Login
      <3> QED BY <2>1, <3>1, OwnerGrows
    <2>3. jar' \in Jar
      <3>1. Len(owner) + 1 \in Nat /\ logins + 1 \in Nat
        BY <2>1, <2>2
      <3>2. PICK refresh \in {0, logins + 1} : LoginCookies(Len(owner) + 1, refresh)
        BY <1>11 DEF Login
      <3> HIDE DEF TypeOK
      <3>3. jar \in Jar
        BY DEF TypeOK
      <3> QED BY <3>1, <3>2, <3>3 DEF Jar, LoginCookies
    <2>4. /\ expired' \in 0..Len(owner')
          /\ answer' \in [Calls -> [outcome : Outcomes, access : 0..Len(owner')]]
      BY <1>11, <2>2 DEF Login
    <2>5. /\ revoked' \subseteq 1..logins' /\ guests' \subseteq 1..logins'
          /\ bare' \subseteq 1..logins'
          /\ logout' \in [stage : {"none", "sent", "answered"}, from : SUBSET Tabs, refresh : 0..logins']
      BY <1>11, <2>1 DEF Login
    <2> QED BY <1>11, <2>1, <2>2, <2>3, <2>4, <2>5 DEF Login, history
  <1>12. CASE ServeLogout
    <2>1. logout' \in [stage : {"none", "sent", "answered"}, from : SUBSET Tabs, refresh : 0..logins]
      BY <1>12 DEF ServeLogout
    <2>2. revoked' \subseteq 1..logins
      BY <1>12 DEF ServeLogout
    <2> QED BY <1>12, <2>1, <2>2 DEF ServeLogout
  <1>13. CASE DropCookie
    BY <1>13 DEF DropCookie, authServer, history, Jar
  <1>14. CASE ExpireAccess
    BY <1>14 DEF ExpireAccess, history
  <1>15. ASSUME NEW s \in 1..logins, EndSession(s) PROVE TypeOK'
    BY <1>15 DEF EndSession
  <1>16. CASE UNCHANGED vars
    BY <1>16 DEF vars, authServer, history
  <1> QED BY <1>1, <1>2, <1>3, <1>4, <1>5, <1>6, <1>7, <1>8, <1>9, <1>10, <1>11, <1>12, <1>13,
             <1>14, <1>15, <1>16 DEF Next, CallStep

-----------------------------------------------------------------------------
(* The exchanges.                                                           *)

\* A call opens by the first step of its own; no other step moves it back.
LEMMA OnlyItsOwnStepOpens ==
  ASSUME TypeOK, [Next]_vars, NEW d \in Calls
  PROVE  /\ pc'[d] \in Open => pc[d] \in Open \/ StartWrite(d) \/ (Send(d) /\ d \in Reads)
         /\ pc'[d] = "fetching" => pc[d] = "fetching" \/ StartWrite(d)
         /\ pc'[d] = "issued" => pc[d] = "issued" \/ pc[d] = "fetching"
         /\ pc'[d] = "holding" => pc[d] = "holding" \/ ReceiveToken(d)
         /\ pc'[d] = "sent" => pc[d] = "sent" \/ Send(d)
         /\ pc'[d] = "orphaned" => pc[d] \in {"orphaned", "sent"}
  <1> DEFINE Goal ==
        /\ pc'[d] \in Open => pc[d] \in Open \/ StartWrite(d) \/ (Send(d) /\ d \in Reads)
        /\ pc'[d] = "fetching" => pc[d] = "fetching" \/ StartWrite(d)
        /\ pc'[d] = "issued" => pc[d] = "issued" \/ pc[d] = "fetching"
        /\ pc'[d] = "holding" => pc[d] = "holding" \/ ReceiveToken(d)
        /\ pc'[d] = "sent" => pc[d] = "sent" \/ Send(d)
        /\ pc'[d] = "orphaned" => pc[d] \in {"orphaned", "sent"}
  <1>0. pc \in [Calls -> Stages]
    BY DEF TypeOK
  <1>1. ASSUME pc' = pc PROVE Goal
    BY <1>1
  <1>2. ASSUME NEW c \in Calls, StartWrite(c) PROVE Goal
    BY <1>0, <1>2, Moves DEF StartWrite, Stages, Open
  <1>3. ASSUME NEW c \in Calls, IssueToken(c) PROVE Goal
    BY <1>0, <1>3, Moves DEF IssueToken, Stages, Open
  <1>4. ASSUME NEW c \in Calls, ReceiveToken(c) PROVE Goal
    <2>1. pc[c] = "issued" /\ pc'[c] = "holding" /\ \A e \in Calls : e # c => pc'[e] = pc[e]
      BY <1>0, <1>4, Moves DEF ReceiveToken, Stages, Open
    <2> QED BY <1>4, <2>1 DEF Open
  <1>5. ASSUME NEW c \in Calls, Send(c) PROVE Goal
    <2>1. /\ pc[c] = "holding" \/ c \in Reads
          /\ pc'[c] = "sent" /\ \A e \in Calls : e # c => pc'[e] = pc[e]
      BY <1>0, <1>5, Moves DEF Send, Stages, Open
    <2> QED BY <1>5, <2>1 DEF Open
  <1>6. ASSUME NEW c \in Calls, Serve(c) PROVE Goal
    BY <1>0, <1>6, Moves DEF Serve, ServeWhile, Stages, Open
  <1>7. ASSUME NEW c \in Calls, ReceiveAnswer(c) PROVE Goal
    <2>1. /\ pc'[c] = "done"
          /\ \A e \in Calls : e # c => \/ pc'[e] \in {pc[e], "gone"}
                                       \/ pc'[e] = "orphaned" /\ pc[e] = "sent"
      <3>1. CASE Redirects(c)
        <4>1. pc' = [Abandoned(TabOf[c]) EXCEPT ![c] = "done"]
          BY <1>7, <3>1 DEF ReceiveAnswer
        <4> QED BY <1>0, <4>1, Abandons, CallsAssumption
      <3>2. CASE ~Redirects(c)
        BY <1>0, <1>7, <3>2, Moves DEF ReceiveAnswer, Stages
      <3> QED BY <3>1, <3>2
    <2> QED BY <2>1 DEF Open
  <1>8. ASSUME NEW c \in Calls, Lose(c) PROVE Goal
    BY <1>0, <1>8, Moves DEF Lose, Stages, Open
  <1>9. ASSUME NEW t \in Tabs, CompleteLogout(t) PROVE Goal
    BY <1>0, <1>9, Abandons DEF CompleteLogout, Open
  <1>10. \/ pc' = pc \/ \E c \in Calls : CallStep(c) \/ StartWrite(c) \/ Send(c) \/ Lose(c)
         \/ \E t \in Tabs : CompleteLogout(t)
    BY DEF Next, AgeToken, RequestLogout, Login, ServeLogout, DropCookie, ExpireAccess, EndSession,
           vars
  <1> HIDE DEF Goal
  <1>11. Goal
    BY <1>1, <1>2, <1>3, <1>4, <1>5, <1>6, <1>7, <1>8, <1>9, <1>10 DEF CallStep
  <1> QED BY <1>11 DEF Goal

\* No disturbance is forgotten.
LEMMA DisturbancesGrow ==
  [Next]_vars => /\ disturbed \subseteq disturbed' /\ aged \subseteq aged' /\ guests \subseteq guests'
                 /\ ended => ended'
                 /\ outages \subseteq outages' /\ bare \subseteq bare'
  BY DEF Next, CallStep, StartWrite, IssueToken, ReceiveToken, Send, Serve, ServeWhile, ReceiveAnswer, Lose,
         AgeToken, RequestLogout, CompleteLogout, Login, ServeLogout, DropCookie, ExpireAccess,
         EndSession, vars, authServer, history

LEMMA CausesStay == TypeOK /\ [Next]_vars => (LoginCause => LoginCause')
  <1> SUFFICES ASSUME TypeOK, [Next]_vars PROVE LoginCause => LoginCause'
    OBVIOUS
  <1>1. expired' = expired \/ expired' = expired + 1
    BY DEF Next, CallStep, StartWrite, IssueToken, ReceiveToken, Send, Serve, ServeWhile, ReceiveAnswer,
           Lose, AgeToken, RequestLogout, CompleteLogout, Login, ServeLogout, DropCookie, ExpireAccess,
           EndSession, vars, authServer
  <1>2. expired \in Nat
    BY InvTypes
  <1>3. expired > 0 => expired' > 0
    BY <1>1, <1>2
  <1> QED BY <1>3, DisturbancesGrow DEF LoginCause

LEMMA OverlapsAreDisturbed == SessionInv /\ [Next]_vars => (ReadsSkip /\ OverlapDisturbs)'
  <1> SUFFICES ASSUME TypeOK, ReadsSkip, OverlapDisturbs, [Next]_vars
               PROVE  (ReadsSkip /\ OverlapDisturbs)'
    BY DEF SessionInv
  <1>1. ReadsSkip'
    BY OnlyItsOwnStepOpens DEF ReadsSkip, StartWrite, ReceiveToken
  <1>2. ASSUME NEW c \in Writes, NEW d \in Writes, pc'[c] \in Open, pc'[d] \in Open, c # d
        PROVE  c \in disturbed'
    <2>1. c \in Calls /\ d \in Calls /\ c \notin Reads /\ d \notin Reads
      BY DEF Writes
    <2>2. CASE pc[c] \in Open /\ pc[d] \in Open
      BY <1>2, <2>2, DisturbancesGrow DEF OverlapDisturbs
    <2>3. CASE StartWrite(c)
      <3>1. pc[d] \in Open
        BY <1>2, <2>1, <2>3, Moves DEF StartWrite, TypeOK, Stages, Open
      <3> QED BY <2>3, <3>1 DEF StartWrite, InProgress
    <2>4. CASE StartWrite(d)
      <3>1. pc[c] \in Open
        BY <1>2, <2>1, <2>4, Moves DEF StartWrite, TypeOK, Stages, Open
      <3> QED BY <2>4, <3>1 DEF StartWrite, InProgress
    <2> QED BY <1>2, <2>1, <2>2, <2>3, <2>4, OnlyItsOwnStepOpens
  <1> QED BY <1>1, <1>2 DEF OverlapDisturbs

\* What a step that is none of the calls' own steps does to the jar's csrf cookie.
LEMMA WhoseCookie ==
  ASSUME TypeOK, [Next]_vars
  PROVE  \/ jar'.csrf = jar.csrf
         \/ \E c \in Calls : ReceiveToken(c) /\ jar'.csrf = c
         \/ \E c \in Calls : ReceiveAnswer(c) /\ answer[c].outcome = "csrf_mismatch"
         \/ \E t \in Tabs : CompleteLogout(t)
         \/ DropCookie
  <1> DEFINE Goal ==
         \/ jar'.csrf = jar.csrf
         \/ \E c \in Calls : ReceiveToken(c) /\ jar'.csrf = c
         \/ \E c \in Calls : ReceiveAnswer(c) /\ answer[c].outcome = "csrf_mismatch"
         \/ \E t \in Tabs : CompleteLogout(t)
         \/ DropCookie
  <1>0. jar \in Jar
    BY DEF TypeOK
  <1>1. ASSUME NEW c \in Calls, ReceiveToken(c) PROVE Goal
    BY <1>0, <1>1 DEF ReceiveToken, StoreToken, Jar
  <1>2. ASSUME NEW c \in Calls, ReceiveAnswer(c) PROVE Goal
    BY <1>0, <1>2 DEF ReceiveAnswer, ApplyCookies, Jar
  <1>3. ASSUME NEW t \in Tabs, Login(t) PROVE Goal
    BY <1>0, <1>3 DEF Login, LoginCookies, Jar
  <1>4. \/ jar' = jar \/ \E c \in Calls : ReceiveToken(c) \/ ReceiveAnswer(c)
        \/ \E t \in Tabs : CompleteLogout(t) \/ Login(t)
        \/ DropCookie
    BY DEF Next, CallStep, StartWrite, IssueToken, Send, Serve, ServeWhile, Lose, AgeToken, RequestLogout,
           ServeLogout, ExpireAccess, EndSession, vars
  <1> QED BY <1>1, <1>2, <1>3, <1>4

\* The cookies a call carries change only when it is sent, served or lost.
LEMMA WhoseCookies ==
  ASSUME TypeOK, [Next]_vars, NEW d \in Calls
  PROVE  \/ cookies'[d] = cookies[d]
         \/ Send(d) /\ cookies'[d] = jar
         \/ (Serve(d) \/ Lose(d)) /\ cookies'[d] = NoCookies
  <1>0. cookies \in [Calls -> Jar]
    BY DEF TypeOK
  <1>1. \/ cookies' = cookies \/ \E c \in Calls : Send(c) \/ Serve(c) \/ Lose(c)
    BY DEF Next, CallStep, StartWrite, IssueToken, ReceiveToken, ReceiveAnswer, AgeToken,
           RequestLogout, CompleteLogout, Login, ServeLogout, DropCookie, ExpireAccess, EndSession,
           vars
  <1> QED BY <1>0, <1>1 DEF Send, Serve, ServeWhile, Lose

LEMMA TokensStayInPlace == SessionInv /\ [Next]_vars => TokenInPlace'
  <1> SUFFICES ASSUME SessionInv, [Next]_vars PROVE TokenInPlace'
    OBVIOUS
  <1> TypeOK /\ ReadsSkip /\ OverlapDisturbs /\ TokenInPlace /\ AnswersHaveCauses
    BY DEF SessionInv
  <1>0. pc \in [Calls -> Stages] /\ jar \in Jar
    BY DEF TypeOK
  <1>1. ASSUME NEW d \in Writes, Undisturbed(d)' PROVE pc'[d] = "holding" => jar'.csrf = d
    <2> SUFFICES ASSUME pc'[d] = "holding" PROVE jar'.csrf = d
      OBVIOUS
    <2>1. d \in Calls /\ Undisturbed(d)
      BY <1>1, DisturbancesGrow DEF Undisturbed, Writes
    <2>2. CASE ReceiveToken(d)
      BY <1>0, <2>1, <2>2 DEF ReceiveToken, StoreToken, Jar
    <2>3. CASE pc[d] = "holding" /\ ~ReceiveToken(d)
      <3>1. jar.csrf = d
        BY <2>1, <2>3 DEF TokenInPlace
      <3>2. \A c \in Writes : pc[c] \in Open => c = d
        BY <2>1, <2>3 DEF OverlapDisturbs, Undisturbed, Open
      <3>3. ASSUME NEW c \in Calls, ReceiveToken(c) PROVE FALSE
        BY <2>3, <3>2, <3>3 DEF ReceiveToken, ReadsSkip, Open
      <3>4. ASSUME NEW c \in Calls, ReceiveAnswer(c), answer[c].outcome = "csrf_mismatch" PROVE FALSE
        BY <2>3, <3>2, <3>4 DEF ReceiveAnswer, AnswersHaveCauses, Refusals, Open
      <3>5. ASSUME NEW t \in Tabs, CompleteLogout(t) PROVE FALSE
        BY <1>1, <2>3, <3>5 DEF CompleteLogout, InProgress, Undisturbed, Open
      <3>6. CASE DropCookie
        BY <2>1, <3>1, <3>6 DEF DropCookie, Undisturbed
      <3> QED BY <3>1, <3>3, <3>4, <3>5, <3>6, WhoseCookie
    <2> QED BY <2>1, <2>2, <2>3, OnlyItsOwnStepOpens
  <1>2. ASSUME NEW d \in Writes, Undisturbed(d)'
        PROVE  pc'[d] \in {"sent", "orphaned"} => cookies'[d].csrf = d
    <2> SUFFICES ASSUME pc'[d] \in {"sent", "orphaned"} PROVE cookies'[d].csrf = d
      OBVIOUS
    <2>1. d \in Calls /\ d \notin Reads /\ Undisturbed(d)
      BY <1>2, DisturbancesGrow DEF Undisturbed, Writes
    <2>2. CASE Send(d)
      <3>1. pc[d] = "holding" /\ cookies'[d] = jar
        BY <2>1, <2>2 DEF Send, TypeOK
      <3> QED BY <2>1, <3>1 DEF TokenInPlace
    <2>3. CASE pc[d] \in {"sent", "orphaned"} /\ ~Send(d)
      <3>1. ~Serve(d) /\ ~Lose(d)
        BY <1>0, <2>1, Moves DEF Serve, ServeWhile, Lose, Stages, Open
      <3> QED BY <2>1, <2>3, <3>1, WhoseCookies DEF TokenInPlace
    <2> QED BY <2>1, <2>2, <2>3, OnlyItsOwnStepOpens
  <1> QED BY <1>1, <1>2 DEF TokenInPlace, Undisturbed

-----------------------------------------------------------------------------
(* The sessions.                                                            *)

\* The numbers only grow, and a login is the one step that opens a session.
LEMMA NumbersGrow ==
  ASSUME SessionInv, [Next]_vars
  PROVE  /\ Len(owner') >= Len(owner) /\ logins' >= logins
         /\ logins' = logins \/ \E t \in Tabs : Login(t)
  <1> TypeOK /\ LastSession
    BY DEF SessionInv
  <1>0. Len(owner) \in Nat /\ logins \in Nat
    BY InvTypes
  <1>1. ASSUME NEW c \in Calls, Serve(c)
        PROVE  Len(owner') >= Len(owner) /\ logins' = logins
    BY <1>0, <1>1 DEF Serve, ServeWhile, TypeOK
  <1>2. ASSUME NEW t \in Tabs, Login(t)
        PROVE  Len(owner') >= Len(owner) /\ logins' >= logins
    BY <1>0, <1>2 DEF Login, TypeOK
  <1>3. \/ owner' = owner /\ logins' = logins
        \/ \E c \in Calls : Serve(c)
        \/ \E t \in Tabs : Login(t)
    BY DEF Next, CallStep, StartWrite, IssueToken, ReceiveToken, Send, ReceiveAnswer, Lose, AgeToken,
           RequestLogout, CompleteLogout, ServeLogout, DropCookie, ExpireAccess, EndSession, vars,
           authServer
  <1> QED BY <1>0, <1>1, <1>2, <1>3

\* What a step does to the cookies of the session in the jar.
LEMMA JarOfSession ==
  ASSUME TypeOK, [Next]_vars
  PROVE  \/ jar'.refresh = jar.refresh /\ jar'.access = jar.access /\ logins' = logins
         \/ \E c \in Calls : /\ jar'.refresh = jar.refresh /\ logins' = logins
                             /\ jar'.access = answer[c].access /\ answer[c].access # 0
         \/ jar'.refresh = 0 /\ jar'.access = 0 /\ ended' /\ logins' = logins
         \/ /\ logins' = logins + 1 /\ jar'.access = Len(owner') /\ Len(owner') = Len(owner) + 1
            /\ \/ jar'.refresh = logins'
               \/ jar'.refresh = jar.refresh /\ logins' \in bare'
  <1> DEFINE Goal ==
         \/ jar'.refresh = jar.refresh /\ jar'.access = jar.access /\ logins' = logins
         \/ \E c \in Calls : /\ jar'.refresh = jar.refresh /\ logins' = logins
                             /\ jar'.access = answer[c].access /\ answer[c].access # 0
         \/ jar'.refresh = 0 /\ jar'.access = 0 /\ ended' /\ logins' = logins
         \/ /\ logins' = logins + 1 /\ jar'.access = Len(owner') /\ Len(owner') = Len(owner) + 1
            /\ \/ jar'.refresh = logins'
               \/ jar'.refresh = jar.refresh /\ logins' \in bare'
  <1>0. jar \in Jar /\ Len(owner) \in Nat /\ logins \in Nat
    BY InvTypes
  <1>1. ASSUME NEW c \in Calls, ReceiveToken(c) PROVE Goal
    BY <1>0, <1>1 DEF ReceiveToken, StoreToken, Jar, authServer
  <1>2. ASSUME NEW c \in Calls, ReceiveAnswer(c) PROVE Goal
    <2>1. logins' = logins
      BY <1>2 DEF ReceiveAnswer, authServer
    <2>2. /\ jar'.refresh = jar.refresh
          /\ jar'.access = IF answer[c].access = 0 THEN jar.access ELSE answer[c].access
      BY <1>0, <1>2 DEF ReceiveAnswer, ApplyCookies, Jar
    <2> QED BY <2>1, <2>2
  <1>3. ASSUME NEW t \in Tabs, Login(t) PROVE Goal
    <2>1. PICK refresh \in {0, logins + 1} :
            /\ LoginCookies(Len(owner) + 1, refresh)
            /\ bare' = IF refresh = 0 THEN bare \cup {logins + 1} ELSE bare
      BY <1>3 DEF Login
    <2>2. logins' = logins + 1 /\ owner' = Append(owner, logins + 1)
      BY <1>3 DEF Login
    <2>3. Len(owner') = Len(owner) + 1
      BY <2>2, <1>0, OwnerGrows DEF TypeOK
    <2>4. /\ jar'.access = Len(owner) + 1
          /\ jar'.refresh = IF refresh = 0 THEN jar.refresh ELSE refresh
      BY <1>0, <2>1 DEF Jar, LoginCookies
    <2> QED BY <1>0, <2>1, <2>2, <2>3, <2>4
  <1>4. ASSUME NEW t \in Tabs, CompleteLogout(t) PROVE Goal
    BY <1>4 DEF CompleteLogout, NoCookies, authServer
  <1>5. ASSUME DropCookie PROVE Goal
    <2>1. jar' = [jar EXCEPT !.csrf = NoToken] /\ logins' = logins
      BY <1>5 DEF DropCookie, authServer
    <2>2. jar'.refresh = jar.refresh /\ jar'.access = jar.access
      BY <1>0, <2>1 DEF Jar
    <2> QED BY <2>1, <2>2
  <1>6. \/ jar' = jar /\ logins' = logins
        \/ \E c \in Calls : ReceiveToken(c) \/ ReceiveAnswer(c)
        \/ \E t \in Tabs : CompleteLogout(t) \/ Login(t)
        \/ DropCookie
    BY DEF Next, CallStep, StartWrite, IssueToken, Send, Serve, ServeWhile, Lose, AgeToken, RequestLogout,
           ServeLogout, ExpireAccess, EndSession, vars, authServer
  <1>7. ASSUME jar' = jar, logins' = logins PROVE Goal
    BY <1>7
  <1> HIDE DEF Goal
  <1>8. Goal
    BY <1>1, <1>2, <1>3, <1>4, <1>5, <1>6, <1>7
  <1> QED BY <1>8 DEF Goal

LEMMA LastSessionStays == SessionInv /\ [Next]_vars => LastSession'
  <1> SUFFICES ASSUME SessionInv, [Next]_vars PROVE LastSession'
    OBVIOUS
  <1> TypeOK /\ LastSession
    BY DEF SessionInv
  <1>0. /\ Len(owner) \in Nat /\ Len(owner') \in Nat /\ logins \in Nat /\ logins' \in Nat
        /\ logins >= 1 /\ Len(owner') >= Len(owner) /\ logins' >= logins
    <2>1. TypeOK'
      BY TypesStayRight
    <2>2. Len(owner') \in Nat /\ logins' \in Nat
      BY <2>1, BoundsAssumption DEF TypeOK
    <2> QED BY <2>2, NumbersGrow, InvTypes
  <1>1. \A c \in Calls : answer[c].access \in 0..Len(owner)
    BY DEF TypeOK
  <1>2. jar'.refresh \in 0..logins'
    BY <1>0, JarOfSession DEF LastSession
  <1>6. ASSUME jar'.refresh # 0, NEW s \in 1..logins', s > jar'.refresh PROVE s \in bare'
    <2>1. CASE jar'.refresh = jar.refresh /\ logins' = logins
      BY <1>6, <2>1, DisturbancesGrow DEF LastSession
    <2>2. CASE logins' = logins + 1 /\ jar'.refresh = jar.refresh /\ logins' \in bare'
      <3>1. s \in 1..logins \/ s = logins'
        BY <1>0, <2>2
      <3> QED BY <1>6, <2>2, <3>1, DisturbancesGrow DEF LastSession
    <2>3. CASE jar'.refresh = logins'
      BY <1>0, <1>6, <2>3
    <2> QED BY <1>6, <2>1, <2>2, <2>3, JarOfSession
  <1>3. jar'.access \in 0..Len(owner')
    BY <1>0, <1>1, JarOfSession DEF LastSession
  <1>4. RefreshHasAccess'
    BY <1>0, JarOfSession DEF LastSession, RefreshHasAccess
  <1>5. ASSUME NEW d \in Calls
        PROVE  cookies'[d].refresh \in 0..logins' /\ cookies'[d].access \in 0..Len(owner')
    <2>1. cookies[d].refresh \in 0..logins /\ cookies[d].access \in 0..Len(owner)
      BY DEF LastSession
    <2>2. jar.refresh \in 0..logins /\ jar.access \in 0..Len(owner)
      BY <1>0 DEF LastSession
    <2>3. NoCookies.refresh = 0 /\ NoCookies.access = 0
      BY DEF NoCookies
    <2>4. cookies'[d] \in {cookies[d], jar, NoCookies}
      BY WhoseCookies
    <2> QED BY <1>0, <2>1, <2>2, <2>3, <2>4
  <1> QED BY <1>2, <1>3, <1>4, <1>5, <1>6 DEF LastSession

LEMMA SessionsLiveOn == SessionInv /\ [Next]_vars => SessionLives'
  <1> SUFFICES ASSUME SessionInv, [Next]_vars PROVE SessionLives'
    OBVIOUS
  <1> SUFFICES ASSUME ended' = FALSE PROVE SessionLives'
    <2>1. TypeOK'
      BY TypesStayRight
    <2>2. ended' \in BOOLEAN
      BY <2>1 DEF TypeOK
    <2> QED BY <2>2 DEF SessionLives
  <1> TypeOK /\ SessionLives
    BY DEF SessionInv
  <1>0. pc \in [Calls -> Stages] /\ logins \in Nat /\ Len(owner) \in Nat
    BY InvTypes
  <1>1. ~ended
    BY DisturbancesGrow
  <1>2. revoked' = revoked
    BY DEF Next, CallStep, StartWrite, IssueToken, ReceiveToken, Send, Serve, ServeWhile, ReceiveAnswer, Lose,
           AgeToken, RequestLogout, CompleteLogout, Login, ServeLogout, DropCookie, ExpireAccess,
           EndSession, vars, authServer
  <1>3. /\ jar.access # 0 /\ (jar.refresh # 0 \/ bare # {}) /\ revoked = {}
        /\ bare # {} => bare' # {}
    BY <1>1, DisturbancesGrow DEF SessionLives
  <1>4. jar'.access # 0 /\ (jar'.refresh # 0 \/ bare' # {})
    BY <1>0, <1>3, JarOfSession
  <1>5. ASSUME NEW d \in Calls, pc'[d] \in {"sent", "orphaned"}
        PROVE  cookies'[d].access # 0 /\ (cookies'[d].refresh # 0 \/ bare' # {})
    <2>1. CASE Send(d)
      BY <1>3, <2>1 DEF Send, TypeOK
    <2>2. CASE ~Send(d)
      <3>1. pc[d] \in {"sent", "orphaned"}
        BY <1>5, <2>2, OnlyItsOwnStepOpens
      <3>2. ~Serve(d) /\ ~Lose(d)
        BY <1>0, <1>5, Moves DEF Serve, ServeWhile, Lose, Stages, Open
      <3> QED BY <1>1, <1>3, <2>2, <3>1, <3>2, WhoseCookies DEF SessionLives
    <2> QED BY <2>1, <2>2
  <1> QED BY <1>2, <1>3, <1>4, <1>5 DEF SessionLives

-----------------------------------------------------------------------------
(* The answers, and the pages.                                              *)

LEMMA AnswersKeepCauses == SessionInv /\ [Next]_vars => AnswersHaveCauses'
  <1> SUFFICES ASSUME SessionInv, [Next]_vars, NEW d \in Calls
               PROVE  /\ answer'[d].outcome \in Refusals => d \in Writes /\ ~Undisturbed(d)'
                      /\ answer'[d].outcome = "forbidden" => guests' # {}
                      /\ answer'[d].outcome = "unauthenticated" => LoginCause'
    BY DEF AnswersHaveCauses, Undisturbed
  <1> DEFINE o == answer'[d].outcome
  <1> TypeOK /\ TokenInPlace /\ SessionLives /\ AnswersHaveCauses /\ LastSession
    BY DEF SessionInv
  <1>0. answer \in [Calls -> [outcome : Outcomes, access : 0..Len(owner)]]
    BY DEF TypeOK
  <1>1. CASE answer'[d].outcome = answer[d].outcome
    BY <1>1, DisturbancesGrow, CausesStay DEF AnswersHaveCauses, Undisturbed
  <1>2. CASE Lose(d)
    BY <1>0, <1>2 DEF Lose, Refusals
  <1>3. CASE Serve(d)
    <2>0. PICK does \in Cognito : ServeWhile(d, does)
      BY <1>3 DEF Serve
    <2>1. o = Outcome(d, does) /\ pc[d] \in {"sent", "orphaned"}
      BY <1>0, <2>0 DEF ServeWhile
    <2>2. disturbed' = disturbed /\ aged' = aged /\ guests' = guests /\ ended' = ended
      BY <2>0 DEF ServeWhile
    <2>3. ASSUME o \in Refusals PROVE d \in Writes /\ ~Undisturbed(d)
      <3>1. CsrfOutcome(d) \in Refusals
        BY <2>1, <2>3 DEF Outcome, Refusals
      <3>2. d \in Writes
        BY <3>1 DEF CsrfOutcome, Refusals, Writes
      <3>3. ASSUME Undisturbed(d) PROVE FALSE
        <4>1. cookies[d].csrf = d /\ d \notin aged /\ d # NoToken
          BY <2>1, <3>2, <3>3, CallsAssumption DEF TokenInPlace, Undisturbed
        <4> QED BY <3>1, <3>2, <4>1 DEF CsrfOutcome, Refusals, Writes
      <3> QED BY <3>2, <3>3
    <2>4. ASSUME o = "forbidden" PROVE guests # {}
      <3>1. Subject(cookies[d], does) \in guests
        BY <2>1, <2>4 DEF Outcome, CsrfOutcome
      <3> QED BY <3>1
    <2>5. ASSUME o = "unauthenticated" PROVE LoginCause'
      <3>1. Unauthenticated(cookies[d], does)
        BY <2>1, <2>5 DEF Outcome, CsrfOutcome
      <3>2. CASE ~Unauthenticated(cookies[d], "serves")
        <4>1. d \in outages'
          BY <2>0, <3>1, <3>2 DEF ServeWhile
        <4> QED BY <4>1 DEF LoginCause
      <3>3. CASE Unauthenticated(cookies[d], "serves")
        <4>1. /\ cookies[d].access \in 0..Len(owner) /\ Len(owner) \in Nat /\ expired \in Nat
          BY InvTypes DEF LastSession
        <4>2. ended \/ (cookies[d].access # 0 /\ Expired(cookies[d].access) /\ bare # {})
          BY <2>1, <3>3 DEF Unauthenticated, SessionLives
        <4>3. ended \/ (bare # {} /\ expired > 0)
          BY <4>1, <4>2 DEF Expired
        <4> QED BY <2>0, <4>3 DEF LoginCause, ServeWhile
      <3> QED BY <3>2, <3>3
    <2> QED BY <2>2, <2>3, <2>4, <2>5 DEF Undisturbed
  <1>4. answer' = answer \/ \E c \in Calls : Serve(c) \/ Lose(c) \/ ReceiveAnswer(c)
    BY DEF Next, CallStep, StartWrite, IssueToken, ReceiveToken, Send, AgeToken,
           RequestLogout, CompleteLogout, Login, ServeLogout, DropCookie, ExpireAccess, EndSession,
           vars
  <1>5. answer'[d].outcome = answer[d].outcome \/ Serve(d) \/ Lose(d)
    BY <1>0, <1>4 DEF Serve, ServeWhile, Lose, ReceiveAnswer
  <1> QED BY <1>1, <1>2, <1>3, <1>5

LEMMA LoginsStayNeeded == SessionInv /\ [Next]_vars => NoNeedlessLogin'
  <1> SUFFICES ASSUME SessionInv, [Next]_vars, NEW t \in Tabs, tab'[t] = "login"
               PROVE  LoginCause' \/ guests' # {} \/ disturbed' \cup aged' # {}
    BY DEF NoNeedlessLogin, LoginCause
  <1> TypeOK /\ AnswersHaveCauses /\ NoNeedlessLogin
    BY DEF SessionInv
  <1>1. CASE tab[t] = "login"
    BY <1>1, DisturbancesGrow, CausesStay DEF NoNeedlessLogin, LoginCause
  <1>2. ASSUME NEW c \in Calls, ReceiveAnswer(c), Redirects(c)
        PROVE  LoginCause' \/ guests' # {} \/ disturbed' \cup aged' # {}
    BY <1>2, DisturbancesGrow, CausesStay DEF Redirects, AnswersHaveCauses, Refusals, Undisturbed
  <1>3. ASSUME NEW u \in Tabs, CompleteLogout(u)
        PROVE  LoginCause'
    BY <1>3 DEF CompleteLogout, LoginCause
  <1>4. \/ tab' = tab \/ \E c \in Calls : ReceiveAnswer(c) /\ Redirects(c)
        \/ \E u \in Tabs : CompleteLogout(u) \/ Login(u)
    BY DEF Next, CallStep, StartWrite, IssueToken, ReceiveToken, Send, Serve, ServeWhile, ReceiveAnswer, Lose,
           AgeToken, RequestLogout, ServeLogout, DropCookie, ExpireAccess, EndSession, vars
  <1>5. ASSUME NEW u \in Tabs, Login(u) PROVE tab[t] = "login"
    BY <1>5 DEF Login, TypeOK
  <1> QED BY <1>1, <1>2, <1>3, <1>4, <1>5

-----------------------------------------------------------------------------
LEMMA SessionInductive == Spec => []SessionInv
  <1>1. SessionInv /\ [Next]_vars => SessionInv'
    BY TypesStayRight, OverlapsAreDisturbed, TokensStayInPlace, LastSessionStays, SessionsLiveOn,
       AnswersKeepCauses, LoginsStayNeeded DEF SessionInv
  <1> QED BY SessionStarts, <1>1, PTL DEF Spec

\* Types: whatever the calls, the tabs and the tokens that expire, every cookie,
\* answer and number of a session is one the code can produce.
THEOREM SessionTypes == Spec => []TypeOK
  <1>1. SessionInv => TypeOK
    BY DEF SessionInv
  <1> QED BY SessionInductive, <1>1, PTL

\* csrf_needed refuses a call only if another exchange or a logout overlapped its
\* own, or its token grew too old on the way.
THEOREM RefusalsHaveCauses == Spec => []RefusedOnlyWhenDisturbed
  <1>1. SessionInv => RefusedOnlyWhenDisturbed
    BY DEF SessionInv, AnswersHaveCauses, RefusedOnlyWhenDisturbed, Undisturbed, Writes
  <1> QED BY SessionInductive, <1>1, PTL

\* handleNotAuthorizedErrors throws a page away only when a session ended, the user
\* is no admin, an exchange was disturbed, Cognito failed a call or a token of a session
\* without refresh token expired; never because other tokens expired.
THEOREM LoginsAreNeeded == Spec => []NoNeedlessLogin
  <1>1. SessionInv => NoNeedlessLogin
    BY DEF SessionInv
  <1> QED BY SessionInductive, <1>1, PTL

\* add_cookies and logout leave cookies that fit each other, in whatever order the
\* answers arrive: no refresh token alone, and no access token of a later session but
\* of one that came without a refresh token and left the old one beside it.
THEOREM JarStaysFit == Spec => []CookiesFit
  <1>1. SessionInv => CookiesFit
    <2> SUFFICES ASSUME SessionInv PROVE CookiesFit
      OBVIOUS
    <2>1. /\ Len(owner) \in Nat /\ logins \in Nat /\ jar.refresh \in 0..logins
          /\ jar.refresh # 0 => \A s \in 1..logins : s > jar.refresh => s \in bare
          /\ jar.access \in 0..Len(owner) /\ RefreshHasAccess
          /\ \A i \in 1..Len(owner) : owner[i] \in 1..logins
      BY InvTypes DEF SessionInv, LastSession
    <2>2. TokenNotAheadOfSession
      <3> SUFFICES ASSUME jar.access # 0, jar.refresh # 0
                   PROVE  owner[jar.access] <= jar.refresh \/ owner[jar.access] \in bare
        BY DEF TokenNotAheadOfSession
      <3>1. owner[jar.access] \in 1..logins
        BY <2>1
      <3> QED BY <2>1, <3>1
    <2> QED BY <2>1, <2>2 DEF CookiesFit, SessionInv
  <1> QED BY SessionInductive, <1>1, PTL

\* authenticate() mints no access token for a session that was ended before: a step
\* that mints one mints it for a session Cognito has not revoked.
MintsForLiveSessions ==
  [][Len(owner') > Len(owner) => owner'[Len(owner')] \notin revoked]_vars

THEOREM NothingMintedAfterTheEnd == Spec => MintsForLiveSessions
  <1> DEFINE Alive == Len(owner') > Len(owner) => owner'[Len(owner')] \notin revoked
  <1>1. SessionInv /\ [Next]_vars => [Alive]_vars
    <2> SUFFICES ASSUME SessionInv, [Next]_vars PROVE Alive
      OBVIOUS
    <2> TypeOK /\ LastSession
      BY DEF SessionInv
    <2>0. /\ Len(owner) \in Nat /\ logins \in Nat /\ owner \in Seq(1..logins)
          /\ revoked \subseteq 1..logins
      BY InvTypes DEF TypeOK
    <2>1. ASSUME NEW c \in Calls, NEW does \in Cognito, ServeWhile(c, does), Mints(cookies[c], does)
          PROVE  Alive
      <3>1. cookies[c].refresh \in 1..logins /\ cookies[c].refresh \notin revoked
        BY <2>1, MintsForItsSession
      <3>2. owner' = Append(owner, cookies[c].refresh)
        BY <2>1 DEF ServeWhile
      <3> QED BY <2>0, <3>1, <3>2, OwnerGrows
    <2>2. ASSUME NEW t \in Tabs, Login(t) PROVE Alive
      <3>1. owner' = Append(owner, logins + 1) /\ logins + 1 \notin revoked
        BY <2>0, <2>2 DEF Login
      <3> QED BY <2>0, <3>1, OwnerGrows
    <2>3. CASE owner' = owner
      BY <2>0, <2>3
    <2>4. \/ owner' = owner
          \/ \E c \in Calls, does \in Cognito : ServeWhile(c, does) /\ Mints(cookies[c], does)
          \/ \E t \in Tabs : Login(t)
      BY DEF Next, CallStep, StartWrite, IssueToken, ReceiveToken, Send, Serve, ServeWhile, ReceiveAnswer, Lose,
             AgeToken, RequestLogout, CompleteLogout, ServeLogout, DropCookie, ExpireAccess,
             EndSession, vars, authServer
    <2> QED BY <2>1, <2>2, <2>3, <2>4
  <1> QED BY SessionInductive, <1>1, PTL DEF Spec, MintsForLiveSessions

-----------------------------------------------------------------------------
(* Refinement: what HttpSession promises, in the terms of ProtectedApi.      *)

\* A call moves by a step of its own, or goes away with its page.
LEMMA CallMoves ==
  ASSUME TypeOK, [Next]_vars, NEW d \in Calls
  PROVE  \/ pc'[d] = pc[d]
         \/ pc[d] \in Open /\ (pc'[d] = "gone" \/ (pc'[d] = "orphaned" /\ pc[d] = "sent"))
         \/ StartWrite(d) \/ CallStep(d) \/ Send(d) \/ Lose(d)
  <1> DEFINE Away == pc[d] \in Open /\ (pc'[d] = "gone" \/ (pc'[d] = "orphaned" /\ pc[d] = "sent"))
             Goal == pc'[d] = pc[d] \/ Away \/ StartWrite(d) \/ CallStep(d) \/ Send(d) \/ Lose(d)
  <1>0. pc \in [Calls -> Stages]
    BY DEF TypeOK
  <1>1. ASSUME NEW c \in Calls, NEW s \in Stages, Goto(c, s), c # d PROVE pc'[d] = pc[d]
    BY <1>0, <1>1, Moves
  <1>2. ASSUME NEW t \in Tabs PROVE \/ Abandoned(t)[d] = pc[d]
                                   \/ /\ pc[d] \in Open
                                      /\ \/ Abandoned(t)[d] = "gone"
                                         \/ Abandoned(t)[d] = "orphaned" /\ pc[d] = "sent"
    BY DEF Abandoned
  <1>3. ASSUME NEW c \in Calls, CallStep(c) \/ StartWrite(c) \/ Send(c) \/ Lose(c), c # d
        PROVE  pc'[d] = pc[d] \/ Away
    <2>1. CASE ReceiveAnswer(c) /\ Redirects(c)
      <3>1. pc' = [Abandoned(TabOf[c]) EXCEPT ![c] = "done"]
        BY <2>1 DEF ReceiveAnswer
      <3>2. pc'[d] = Abandoned(TabOf[c])[d]
        BY <1>0, <1>3, <3>1, Abandons, CallsAssumption
      <3> QED BY <1>2, <3>2, CallsAssumption
    <2>2. CASE ~(ReceiveAnswer(c) /\ Redirects(c))
      <3>1. \E s \in Stages : Goto(c, s)
        BY <1>3, <2>2 DEF CallStep, StartWrite, Send, Lose, IssueToken, ReceiveToken, Serve,
                          ServeWhile, ReceiveAnswer, Stages, Open
      <3> QED BY <1>1, <1>3, <3>1
    <2> QED BY <2>1, <2>2
  <1>4. ASSUME NEW t \in Tabs, CompleteLogout(t) PROVE pc'[d] = pc[d] \/ Away
    BY <1>2, <1>4 DEF CompleteLogout
  <1>5. \/ pc' = pc \/ \E c \in Calls : CallStep(c) \/ StartWrite(c) \/ Send(c) \/ Lose(c)
        \/ \E t \in Tabs : CompleteLogout(t)
    BY DEF Next, AgeToken, RequestLogout, Login, ServeLogout, DropCookie, ExpireAccess, EndSession,
           vars
  <1> HIDE DEF Away
  <1>6. Goal
    BY <1>3, <1>4, <1>5
  <1> QED BY <1>6 DEF Away

\* The handler of a call runs only when it is served, and the answer on its way
\* says whether it did.
Early == {"idle", "fetching", "issued", "holding", "sent", "orphaned"}
AnswersAreTrue ==
  \A c \in Calls :
    /\ pc[c] \in Early => c \notin handled
    /\ pc[c] = "served" => /\ answer[c].outcome \notin {"none", "lost"}
                           /\ answer[c].outcome = "ok" <=> c \in handled

LEMMA ServedWith ==
  ASSUME TypeOK, NEW c \in Calls, NEW does \in Cognito, ServeWhile(c, does)
  PROVE  /\ answer'[c].outcome = Outcome(c, does) /\ Outcome(c, does) \notin {"none", "lost"}
         /\ handled' = IF Outcome(c, does) = "ok" THEN handled \cup {c} ELSE handled
         /\ pc[c] \in {"sent", "orphaned"} /\ pc'[c] \in {"served", "gone"}
         /\ \A d \in Calls : d # c => pc'[d] = pc[d] /\ answer'[d] = answer[d]
  <1>1. Outcome(c, does) \notin {"none", "lost"}
    BY OutcomeTypes
  <1>2. answer \in [Calls -> [outcome : Outcomes, access : 0..Len(owner)]]
    BY DEF TypeOK
  <1>3. /\ pc'[c] \in {"served", "gone"} /\ \A d \in Calls : d # c => pc'[d] = pc[d]
    BY Moves DEF ServeWhile, TypeOK, Stages, Open
  <1>4. /\ answer'[c].outcome = Outcome(c, does)
        /\ \A d \in Calls : d # c => answer'[d] = answer[d]
    BY <1>2 DEF ServeWhile
  <1> QED BY <1>1, <1>3, <1>4 DEF ServeWhile

\* A call whose answer arrives is done; what it was answered stays.
LEMMA Received ==
  ASSUME TypeOK, NEW c \in Calls, ReceiveAnswer(c)
  PROVE  /\ pc'[c] = "done" /\ \A d \in Calls : d # c => (pc'[d] = "done" <=> pc[d] = "done")
         /\ \A d \in Calls : answer'[d].outcome = answer[d].outcome
  <1>1. pc \in [Calls -> Stages] /\ answer \in [Calls -> [outcome : Outcomes, access : 0..Len(owner)]]
    BY DEF TypeOK
  <1>2. \A d \in Calls : answer'[d].outcome = answer[d].outcome
    BY <1>1 DEF ReceiveAnswer
  <1>3. CASE Redirects(c)
    <2>1. pc' = [Abandoned(TabOf[c]) EXCEPT ![c] = "done"] /\ TabOf[c] \in Tabs
      BY <1>3, CallsAssumption DEF ReceiveAnswer
    <2>2. \A d \in Calls : Abandoned(TabOf[c])[d] = "done" <=> pc[d] = "done"
      BY DEF Abandoned, Open
    <2> QED BY <1>1, <1>2, <2>1, <2>2, Abandons
  <1>4. CASE ~Redirects(c)
    BY <1>1, <1>2, <1>4, Moves DEF ReceiveAnswer, Stages
  <1> QED BY <1>3, <1>4

LEMMA AnswersStayTrue == SessionInv /\ AnswersAreTrue /\ [Next]_vars => AnswersAreTrue'
  <1> SUFFICES ASSUME TypeOK, AnswersAreTrue, [Next]_vars, NEW d \in Calls
               PROVE  /\ pc'[d] \in Early => d \notin handled'
                      /\ pc'[d] = "served" => /\ answer'[d].outcome \notin {"none", "lost"}
                                              /\ answer'[d].outcome = "ok" <=> d \in handled'
    BY DEF SessionInv, AnswersAreTrue
  <1>0. pc \in [Calls -> Stages]
    BY DEF TypeOK
  <1>1. CASE Serve(d)
    BY <1>1, ServedWith DEF Serve, Early, AnswersAreTrue
  <1>2. CASE ~Serve(d)
    <2>1. d \in handled' <=> d \in handled
      <3>1. \/ handled' = handled \/ \E c \in Calls : Serve(c)
        BY DEF Next, CallStep, StartWrite, IssueToken, ReceiveToken, Send, ReceiveAnswer, Lose,
               AgeToken, RequestLogout, CompleteLogout, Login, ServeLogout, DropCookie,
               ExpireAccess, EndSession, vars, history
      <3>2. ASSUME NEW c \in Calls, Serve(c) PROVE d \in handled' <=> d \in handled
        BY <1>2, <3>2, ServedWith DEF Serve
      <3> QED BY <3>1, <3>2
    <2>2. pc'[d] \in Early => pc[d] \in Early
      <3>1. StartWrite(d) \/ IssueToken(d) \/ ReceiveToken(d) \/ Send(d) => pc[d] \in Early
        BY DEF StartWrite, IssueToken, ReceiveToken, Send, Early
      <3>2. Lose(d) => pc'[d] = "done"
        BY <1>0, Moves DEF Lose, Stages
      <3>3. ReceiveAnswer(d) => pc'[d] = "done"
        BY Received
      <3> QED BY <1>2, <3>1, <3>2, <3>3, CallMoves DEF CallStep, Early
    <2>3. pc'[d] = "served" => pc[d] = "served"
      <3>1. StartWrite(d) => pc'[d] = "fetching"
        BY <1>0, Moves DEF StartWrite, Stages, Open
      <3>2. IssueToken(d) => pc'[d] = "issued"
        BY <1>0, Moves DEF IssueToken, Stages, Open
      <3>3. ReceiveToken(d) => pc'[d] = "holding"
        BY <1>0, Moves DEF ReceiveToken, Stages, Open
      <3>4. Send(d) => pc'[d] = "sent"
        BY <1>0, Moves DEF Send, Stages, Open
      <3>5. ReceiveAnswer(d) => pc[d] = "served"
        BY DEF ReceiveAnswer
      <3>6. Lose(d) => pc'[d] = "done"
        BY <1>0, Moves DEF Lose, Stages, Open
      <3> QED BY <1>2, <3>1, <3>2, <3>3, <3>4, <3>5, <3>6, CallMoves DEF CallStep
    <2>4. pc'[d] = "served" => answer'[d] = answer[d]
      <3>1. answer' = answer \/ \E c \in Calls : Serve(c) \/ Lose(c) \/ ReceiveAnswer(c)
        BY DEF Next, CallStep, StartWrite, IssueToken, ReceiveToken, Send, AgeToken,
               RequestLogout, CompleteLogout, Login, ServeLogout, DropCookie, ExpireAccess,
               EndSession, vars
      <3>2. ASSUME NEW c \in Calls, Serve(c) PROVE answer'[d] = answer[d]
        BY <1>2, <3>2, ServedWith DEF Serve
      <3>3. ASSUME NEW c \in Calls, Lose(c), pc'[d] = "served" PROVE answer'[d] = answer[d]
        <4>1. c # d
          BY <1>0, <3>3, Moves DEF Lose, Stages, Open
        <4> QED BY <3>3, <4>1 DEF Lose, TypeOK
      <3>4. ASSUME NEW c \in Calls, ReceiveAnswer(c), pc'[d] = "served" PROVE answer'[d] = answer[d]
        <4>1. pc'[c] = "done"
          BY <3>4, Received
        <4> QED BY <3>4, <4>1 DEF ReceiveAnswer, TypeOK
      <3> QED BY <3>1, <3>2, <3>3, <3>4
    <2> QED BY <2>1, <2>2, <2>3, <2>4 DEF AnswersAreTrue
  <1> QED BY <1>1, <1>2

\* What the callers were told: nothing until their call is done.
Told == [c \in Calls |-> IF pc[c] = "done" THEN Word(answer[c].outcome) ELSE "nothing"]

LEMMA ToldStays ==
  ASSUME \A d \in Calls : /\ pc'[d] = "done" <=> pc[d] = "done"
                          /\ pc[d] = "done" => answer'[d].outcome = answer[d].outcome
  PROVE  Told' = Told
  BY DEF Told

LEMMA ToldOne ==
  ASSUME NEW c \in Calls, pc[c] # "done", pc'[c] = "done",
         \A d \in Calls : d # c => /\ pc'[d] = "done" <=> pc[d] = "done"
                                   /\ pc[d] = "done" => answer'[d].outcome = answer[d].outcome
  PROVE  /\ Told[c] = "nothing"
         /\ Told' = [Told EXCEPT ![c] = Word(answer'[c].outcome)]
  BY DEF Told

\* The abstract steps, with what the callers were told by name.
LEMMA ApiVars ==
  /\ Api!vars = <<logins, guests, revoked, owner, expired, handled, Told>>
  /\ \A c, w : Api!Tell(c, w) <=>
       /\ Told[c] = "nothing" /\ (w = "done" => c \in handled) /\ (w = "refused" => c \notin handled)
       /\ Told' = [Told EXCEPT ![c] = w]
       /\ UNCHANGED <<logins, guests, revoked, owner, expired, handled>>
  BY DEF Api!vars, Api!Tell, Told

LEMMA ServeIsServe ==
  ASSUME SessionInv, AnswersAreTrue, NEW c \in Calls, Serve(c)
  PROVE  Api!Serve(c)
  <1> DEFINE k == cookies[c]
  <1>0. /\ TypeOK /\ Len(owner) \in Nat /\ logins \in Nat /\ expired \in 0..Len(owner)
        /\ owner \in Seq(1..logins) /\ k.refresh \in 0..logins /\ k.access \in 0..Len(owner)
    BY InvTypes DEF SessionInv, LastSession, TypeOK
  <1>d. PICK does \in Cognito : ServeWhile(c, does)
    BY DEF Serve
  <1>1. /\ pc[c] \in {"sent", "orphaned"} /\ c \notin handled
        /\ handled' = IF Outcome(c, does) = "ok" THEN handled \cup {c} ELSE handled
        /\ UNCHANGED <<logins, guests, revoked, expired>>
    BY <1>0, <1>d, ServedWith DEF ServeWhile, AnswersAreTrue, Early
  <1>2. Told' = Told /\ Told[c] = "nothing"
    <2>1. Told' = Told
      BY <1>0, <1>d, ServedWith, ToldStays
    <2> QED BY <1>1, <2>1 DEF Told
  <1>3. CASE Mints(k, does)
    <2>1. k.refresh \in (1..logins) \ revoked
      BY <1>0, <1>3, MintsForItsSession DEF SessionInv
    <2>2. owner' = Append(owner, k.refresh)
      BY <1>d, <1>3 DEF ServeWhile
    <2>3. /\ Len(owner') = Len(owner) + 1 /\ owner'[Len(owner')] = k.refresh
      BY <1>0, <2>1, <2>2, OwnerGrows
    <2>4. Len(owner') \in (expired + 1)..Len(owner')
      BY <1>0, <2>3
    <2>5. Outcome(c, does) = "ok" => owner'[Len(owner')] \notin guests
      <3> SUFFICES ASSUME Outcome(c, does) = "ok" PROVE owner'[Len(owner')] \notin guests
        OBVIOUS
      <3>1. ~Fails(k, does) /\ Subject(k, does) \notin guests
        BY DEF Outcome
      <3>2. Refreshes(k, does)
        BY <1>3, <3>1 DEF Mints, Refreshes, Fails
      <3> QED BY <2>3, <3>1, <3>2 DEF Subject
    <2> QED BY <1>1, <1>2, <2>1, <2>2, <2>4, <2>5 DEF Api!Serve, Api!Sessions, Told
  <1>4. CASE ~Mints(k, does)
    <2>1. owner' = owner
      BY <1>d, <1>4 DEF ServeWhile
    <2>2. ASSUME Outcome(c, does) = "ok"
          PROVE  k.access \in (expired + 1)..Len(owner) /\ owner[k.access] \notin guests
      <3>1. ~Unauthenticated(k, does) /\ ~Fails(k, does) /\ Subject(k, does) \notin guests
        BY <2>2 DEF Outcome
      <3>2. k.access # 0 /\ ~(k.access <= expired)
        BY <1>4, <3>1 DEF Unauthenticated, Mints, Fails, Expired
      <3> QED BY <1>0, <1>4, <3>1, <3>2 DEF Subject, Refreshes
    <2> QED BY <1>1, <1>2, <2>1, <2>2 DEF Api!Serve, Told
  <1> QED BY <1>3, <1>4

LEMMA AnswerIsTold ==
  ASSUME SessionInv, AnswersAreTrue, NEW c \in Calls, ReceiveAnswer(c)
  PROVE  \E w \in {"done", "refused", "lost"} : Api!Tell(c, w)
  <1>1. TypeOK /\ pc[c] = "served"
    BY DEF SessionInv, ReceiveAnswer
  <1>2. /\ pc'[c] = "done"
        /\ \A d \in Calls : d # c => (pc'[d] = "done" <=> pc[d] = "done")
        /\ \A d \in Calls : answer'[d].outcome = answer[d].outcome
    BY <1>1, Received
  <1>3. Told[c] = "nothing" /\ Told' = [Told EXCEPT ![c] = Word(answer'[c].outcome)]
    BY <1>1, <1>2, ToldOne
  <1>4. /\ answer[c].outcome \notin {"none", "lost"}
        /\ answer[c].outcome = "ok" <=> c \in handled
    BY <1>1 DEF AnswersAreTrue
  <1>5. Word(answer[c].outcome) = IF c \in handled THEN "done" ELSE "refused"
    BY <1>4 DEF Word
  <1>6. UNCHANGED <<logins, guests, revoked, owner, expired, handled>>
    BY DEF ReceiveAnswer, authServer, history
  <1> QED BY <1>1, <1>2, <1>3, <1>5, <1>6, ApiVars

LEMMA LossIsTold ==
  ASSUME SessionInv, NEW c \in Calls, Lose(c)
  PROVE  Api!Tell(c, "lost")
  <1>1. TypeOK /\ pc \in [Calls -> Stages] /\ pc[c] # "done"
    BY DEF SessionInv, TypeOK, Lose
  <1>2. /\ pc'[c] = "done" /\ answer'[c].outcome = "lost"
        /\ \A d \in Calls : d # c => pc'[d] = pc[d] /\ answer'[d] = answer[d]
    BY <1>1, Moves DEF Lose, Stages, TypeOK
  <1>3. Told[c] = "nothing" /\ Told' = [Told EXCEPT ![c] = Word(answer'[c].outcome)]
    BY <1>1, <1>2, ToldOne
  <1>4. Word("lost") = "lost"
    BY DEF Word
  <1>5. UNCHANGED <<logins, guests, revoked, owner, expired, handled>>
    BY DEF Lose, authServer, history
  <1> QED BY <1>2, <1>3, <1>4, <1>5, ApiVars

LEMMA ApiStep == SessionInv /\ AnswersAreTrue /\ [Next]_vars => [Api!Next]_(Api!vars)
  <1> SUFFICES ASSUME SessionInv, AnswersAreTrue, [Next]_vars
               PROVE  [Api!Next]_(Api!vars)
    OBVIOUS
  <1> TypeOK /\ pc \in [Calls -> Stages] /\ Len(owner) \in Nat
    BY InvTypes DEF SessionInv, TypeOK
  <1>1. ASSUME UNCHANGED <<logins, guests, revoked, owner, expired, handled, answer>>,
               \A d \in Calls : pc'[d] = "done" <=> pc[d] = "done"
        PROVE  UNCHANGED Api!vars
    BY <1>1, ToldStays, ApiVars DEF Api!vars, Told
  <1>2. ASSUME NEW c \in Calls, StartWrite(c) \/ IssueToken(c) \/ ReceiveToken(c) \/ Send(c)
        PROVE  UNCHANGED Api!vars
    <2>1. PICK s \in {"fetching", "issued", "holding", "sent"} : Goto(c, s) /\ pc[c] # "done"
      BY <1>2 DEF StartWrite, IssueToken, ReceiveToken, Send
    <2>2. \A d \in Calls : pc'[d] = "done" <=> pc[d] = "done"
      BY <2>1, Moves DEF Stages, Open
    <2>3. UNCHANGED <<logins, guests, revoked, owner, expired, handled, answer>>
      BY <1>2 DEF StartWrite, IssueToken, ReceiveToken, Send, authServer, history
    <2> QED BY <1>1, <2>2, <2>3
  <1>3. ASSUME NEW t \in Tabs, CompleteLogout(t) PROVE UNCHANGED Api!vars
    <2>1. \A d \in Calls : pc'[d] = "done" <=> pc[d] = "done"
      BY <1>3 DEF CompleteLogout, Abandoned, Open
    <2>2. UNCHANGED <<logins, guests, revoked, owner, expired, handled, answer>>
      BY <1>3 DEF CompleteLogout, authServer
    <2> QED BY <1>1, <2>1, <2>2
  <1>4. ASSUME \/ \E c \in Calls : AgeToken(c)
               \/ \E t \in Tabs : RequestLogout(t)
               \/ DropCookie \/ UNCHANGED vars
        PROVE  UNCHANGED Api!vars
    <2>1. UNCHANGED <<logins, guests, revoked, owner, expired, handled, answer, pc>>
      BY <1>4 DEF AgeToken, RequestLogout, DropCookie, vars, authServer, history
    <2> QED BY <1>1, <2>1
  <1>5. ASSUME UNCHANGED <<pc, answer>> PROVE Told' = Told
    BY <1>5, ToldStays
  <1>6. ASSUME NEW s \in 1..logins, revoked' = revoked \cup {s}, UNCHANGED <<pc, answer>>,
               UNCHANGED <<logins, guests, owner, expired, handled>>
        PROVE  Api!Next
    BY <1>5, <1>6 DEF Api!End, Api!Sessions, Api!Next, Told
  <1>7. CASE ServeLogout
    <2>1. UNCHANGED <<logins, guests, owner, expired, handled, pc, answer>>
      BY <1>7 DEF ServeLogout
    <2>2. CASE UNCHANGED revoked
      BY <1>1, <2>1, <2>2
    <2>3. CASE revoked' = revoked \cup ({logout.refresh} \ {0})
      <3>1. logout.refresh \in 0..logins
        BY DEF TypeOK
      <3>2. CASE logout.refresh = 0
        BY <2>2, <2>3, <3>2
      <3>3. CASE logout.refresh # 0
        <4>1. logout.refresh \in 1..logins /\ revoked' = revoked \cup {logout.refresh}
          BY <2>3, <3>1, <3>3, InvTypes
        <4> QED BY <1>6, <2>1, <4>1
      <3> QED BY <3>2, <3>3
    <2> QED BY <1>7, <2>2, <2>3 DEF ServeLogout
  <1>8. ASSUME NEW s \in 1..logins, EndSession(s) PROVE Api!Next
    BY <1>6, <1>8 DEF EndSession
  <1>9. ASSUME NEW t \in Tabs, Login(t) PROVE Api!Next
    <2>1. Told' = Told
      BY <1>5, <1>9 DEF Login
    <2> QED BY <1>9, <2>1 DEF Login, history, Api!Open, Api!Next, Told
  <1>10. CASE ExpireAccess
    <2>1. Told' = Told
      BY <1>5, <1>10 DEF ExpireAccess
    <2> QED BY <1>10, <2>1 DEF ExpireAccess, history, Api!Lapse, Api!Next, Told
  <1>11. ASSUME NEW c \in Calls, Serve(c) \/ ReceiveAnswer(c) \/ Lose(c) PROVE Api!Next
    BY <1>11, ServeIsServe, AnswerIsTold, LossIsTold DEF Api!Next
  <1>12. \/ \E c \in Calls : StartWrite(c) \/ IssueToken(c) \/ ReceiveToken(c) \/ Send(c)
         \/ \E c \in Calls : Serve(c) \/ ReceiveAnswer(c) \/ Lose(c)
         \/ \E c \in Calls : AgeToken(c)
         \/ \E t \in Tabs : RequestLogout(t) \/ CompleteLogout(t) \/ Login(t)
         \/ ServeLogout \/ DropCookie \/ ExpireAccess \/ UNCHANGED vars
         \/ \E s \in 1..logins : EndSession(s)
    BY DEF Next, CallStep
  <1> QED BY <1>2, <1>3, <1>4, <1>7, <1>8, <1>9, <1>10, <1>11, <1>12

\* authenticated and csrf_needed (PclusterApiHandler.py, csrf.py) implement what the
\* handlers and the callers rely on, through every overlap of exchanges, refreshes in
\* passing, logouts and losses: a handler runs once, for an administrator with a token
\* that has not expired, and nobody is told that a call was refused that ran.
THEOREM SessionImplementsApi == Spec => ImplementsApi
  <1>1. Init => AnswersAreTrue /\ Api!Init
    <2> SUFFICES ASSUME Init PROVE AnswersAreTrue /\ Api!Init
      OBVIOUS
    <2>1. AnswersAreTrue
      BY DEF Init, AnswersAreTrue
    <2>2. Told = [c \in Calls |-> "nothing"]
      BY DEF Init, Told
    <2> QED BY <2>1, <2>2 DEF Init, Api!Init, Told
  <1>2. SessionInv /\ AnswersAreTrue /\ [Next]_vars => AnswersAreTrue'
    BY AnswersStayTrue
  <1> QED BY <1>1, <1>2, SessionInductive, ApiStep, PTL DEF Spec, ImplementsApi, Api!Spec
=============================================================================

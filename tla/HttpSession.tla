----------------------------- MODULE HttpSession -----------------------------
(***************************************************************************)
(* One browser session against the Flask backend: the cookie jar the tabs  *)
(* share, the two-request exchange executeRequest makes for every mutation *)
(* (frontend/src/http/csrf.ts: GET /csrf, then the call with the token in  *)
(* a header), and what the server's decorators do with it (authenticated,  *)
(* csrf_needed: api/PclusterApiHandler.py, api/security/csrf/csrf.py).     *)
(*                                                                         *)
(* The jar holds one csrf cookie.  Every GET /csrf overwrites it, so two   *)
(* exchanges in progress at once disturb each other; a refused exchange    *)
(* also deletes the cookie.  Access tokens expire and are refreshed in     *)
(* passing by whichever call meets the expired one; logout revokes.        *)
(*                                                                         *)
(* A call of executeRequest is named c and happens once.  A csrf token is  *)
(* named by the call whose GET /csrf issued it.  Access tokens are         *)
(* numbered in the order they are minted, sessions (refresh tokens) in the *)
(* order of the logins; 0 stands for an absent cookie.                     *)
(*                                                                         *)
(* A definition named Bug... is a plausible mistake in the definition that *)
(* follows it; no behaviour of Spec uses it.                               *)
(***************************************************************************)
EXTENDS Naturals, Sequences

CONSTANTS Calls,      \* the calls of executeRequest of one run
          Reads,      \* those with method get: no csrf token, no exchange
          LogPosts,   \* those the remote logger makes, without appConfig
          Tabs,       \* the browser's tabs, each with one page
          TabOf,      \* the tab that makes a call
          NoToken,    \* no csrf cookie
          MaxExpired, \* bound: access tokens that expire
          MaxLogins   \* bound: sessions opened

ASSUME CallsAssumption == /\ Reads \subseteq Calls
                          /\ LogPosts \subseteq Calls \ Reads
                          /\ TabOf \in [Calls -> Tabs]
                          /\ NoToken \notin Calls
ASSUME BoundsAssumption == MaxExpired \in Nat /\ MaxLogins \in Nat \ {0}

VARIABLES jar,        \* the cookies: csrf, access (with id), refresh
          aged,       \* csrf tokens older than CSRF_DEFAULT_MAX_AGE
          owner,      \* owner[t]: the session access token t was minted for
          expired,    \* access tokens 1..expired have expired
          logins,     \* sessions opened so far
          revoked,    \* sessions whose refresh token Cognito no longer takes
          guests,     \* sessions whose user is not in the admin group
          bare,       \* sessions Cognito opened without a refresh token
          pc,         \* where each call is
          cookies,    \* the cookies its main request carries to the server
          answer,     \* what the server answered it, its token until the jar has it
          tab,        \* what each tab shows: the app or the login page
          logout,     \* the logout in progress: its stage, tab and cookie
          handled,    \* history: calls whose handler ran
          disturbed,  \* history: mutations another exchange or a logout overlapped
          ended,      \* history: some session was ended
          outages     \* history: calls refused only because Cognito failed them

authServer == <<owner, expired, logins, revoked, guests, bare>>
history == <<handled, disturbed, ended, outages>>
vars == <<jar, aged, authServer, pc, cookies, answer, tab, logout, history>>

Writes == Calls \ Reads

\* A call's stages.  gone: its page went away before the request left, or
\* nobody waits for the answer; orphaned: its page went away, the request is
\* still on its way to the server.
Open == {"fetching", "issued", "holding", "sent", "served"}
Stages == Open \cup {"idle", "done", "gone", "orphaned"}

\* What a call ended with; csrf_mismatch and forbidden are both status 403, failed
\* is the 400 of an error authenticate() does not catch.
Refusals == {"csrf_missing", "csrf_mismatch"}
Outcomes == Refusals \cup {"none", "ok", "unauthenticated", "forbidden", "failed", "lost"}

Jar == [csrf : Calls \cup {NoToken}, access : Nat, refresh : Nat]
NoCookies == [csrf |-> NoToken, access |-> 0, refresh |-> 0]
NoAnswer == [outcome |-> "none", access |-> 0]
NoLogout == [stage |-> "none", from |-> {}, refresh |-> 0]

Init == /\ bare \in SUBSET {1}
        /\ jar = [csrf |-> NoToken, access |-> 1, refresh |-> IF 1 \in bare THEN 0 ELSE 1]
        /\ aged = {}
        /\ owner = <<1>>
        /\ expired = 0
        /\ logins = 1
        /\ revoked = {}
        /\ guests \in SUBSET {1}
        /\ pc = [c \in Calls |-> "idle"]
        /\ cookies = [c \in Calls |-> NoCookies]
        /\ answer = [c \in Calls |-> NoAnswer]
        /\ tab = [t \in Tabs |-> "app"]
        /\ logout = NoLogout
        /\ handled = {}
        /\ disturbed = {}
        /\ ended = FALSE
        /\ outages = {}
-----------------------------------------------------------------------------
(* The browser.                                                            *)

Goto(c, stage) == pc' = [pc EXCEPT ![c] = stage]

InProgress == {d \in Writes : pc[d] \in Open}

\* A mutation starts: GET /csrf leaves.
StartWrite(c) ==
    /\ c \in Writes
    /\ pc[c] = "idle"
    /\ tab[TabOf[c]] = "app"
    /\ Goto(c, "fetching")
    /\ disturbed' = IF InProgress = {} THEN disturbed
                                       ELSE disturbed \cup InProgress \cup {c}
    /\ UNCHANGED <<jar, aged, authServer, cookies, answer, tab, logout, handled,
                   ended, outages>>

\* The browser stores the cookie GET /csrf answered; the promise is pending.
BugStoreToken(c) == jar' = [jar EXCEPT !.csrf = IF @ = NoToken THEN c ELSE @]
StoreToken(c) == jar' = [jar EXCEPT !.csrf = c]
ReceiveToken(c) ==
    /\ pc[c] = "issued"
    /\ Goto(c, "holding")
    /\ StoreToken(c)
    /\ UNCHANGED <<aged, authServer, cookies, answer, tab, logout, history>>

\* The call itself leaves, with the cookies the jar holds by now.
Send(c) ==
    /\ \/ c \in Writes /\ pc[c] = "holding"
       \/ c \in Reads /\ pc[c] = "idle" /\ tab[TabOf[c]] = "app"
    /\ Goto(c, "sent")
    /\ cookies' = [cookies EXCEPT ![c] = jar]
    /\ UNCHANGED <<jar, aged, authServer, answer, tab, logout, history>>

\* What becomes of the calls of a tab whose page goes away.
Abandoned(t) ==
    [c \in Calls |-> IF TabOf[c] # t \/ pc[c] \notin Open THEN pc[c]
                     ELSE IF pc[c] = "sent" THEN "orphaned" ELSE "gone"]

\* handleNotAuthorizedErrors, installed for the calls made with appConfig.
Redirects(c) == /\ c \notin LogPosts
                /\ answer[c].outcome \in {"unauthenticated", "forbidden",
                                          "csrf_mismatch"}

\* The Set-Cookie headers of an answer: refreshed tokens (add_auth_cookies),
\* and the csrf cookie's removal (csrf_error_handler).
BugApplyCookies(c) ==
    jar' = [jar EXCEPT
              !.access = answer[c].access,
              !.csrf = IF answer[c].outcome = "csrf_mismatch" THEN NoToken ELSE @]
ApplyCookies(c) ==
    jar' = [jar EXCEPT
              !.access = IF answer[c].access = 0 THEN @ ELSE answer[c].access,
              !.csrf = IF answer[c].outcome = "csrf_mismatch" THEN NoToken ELSE @]

ReceiveAnswer(c) ==
    /\ pc[c] = "served"
    /\ ApplyCookies(c)
    /\ IF Redirects(c)
         THEN /\ tab' = [tab EXCEPT ![TabOf[c]] = "login"]
              /\ pc' = [Abandoned(TabOf[c]) EXCEPT ![c] = "done"]
              /\ logout' = IF logout.from = {TabOf[c]} THEN NoLogout ELSE logout
         ELSE Goto(c, "done") /\ UNCHANGED <<tab, logout>>
    /\ answer' = [answer EXCEPT ![c].access = 0]
    /\ UNCHANGED <<aged, authServer, cookies, history>>

\* The network fails either request of a call or its answer.
Lose(c) ==
    /\ pc[c] \in {"fetching", "issued", "sent", "served"}
    /\ Goto(c, "done")
    /\ answer' = [answer EXCEPT ![c] = [outcome |-> "lost", access |-> 0]]
    /\ cookies' = [cookies EXCEPT ![c] = NoCookies]
    /\ UNCHANGED <<jar, aged, authServer, tab, logout, history>>

\* The csrf cookie reaches its own max_age, after the token in it has.
DropCookie ==
    /\ jar.csrf \in aged
    /\ jar' = [jar EXCEPT !.csrf = NoToken]
    /\ UNCHANGED <<aged, authServer, pc, cookies, answer, tab, logout, history>>

\* The user picks "sign out" in the top bar: a navigation to /logout.
RequestLogout(t) ==
    /\ tab[t] = "app"
    /\ logout.stage = "none"
    /\ logout' = [stage |-> "sent", from |-> {t}, refresh |-> jar.refresh]
    /\ UNCHANGED <<jar, aged, authServer, pc, cookies, answer, tab, history>>

\* The redirect that clears the cookies arrives and replaces the page.
CompleteLogout(t) ==
    /\ logout.stage = "answered"
    /\ logout.from = {t}
    /\ logout' = NoLogout
    /\ jar' = NoCookies
    /\ tab' = [tab EXCEPT ![t] = "login"]
    /\ pc' = Abandoned(t)
    /\ disturbed' = disturbed \cup InProgress
    /\ ended' = TRUE
    /\ UNCHANGED <<aged, authServer, cookies, answer, handled, outages>>
-----------------------------------------------------------------------------
(* The server: authenticated, then csrf_needed, then the handler.          *)

\* get_and_set_csrf_token: a fresh token, in the body and in a cookie.
IssueToken(c) ==
    /\ pc[c] = "fetching"
    /\ Goto(c, "issued")
    /\ UNCHANGED <<jar, aged, authServer, cookies, answer, tab, logout, history>>

Expired(t) == t <= expired

\* What Cognito does to one call's authenticate(), which asks it for its keys before
\* each jwt_decode and for a token in between.  no_keys: the first fetch of the keys
\* fails; refuses: the token endpoint answers other than 200, whatever the session;
\* breaks: it does not answer; keys_lost: the keys' second fetch fails.
Cognito == {"serves", "no_keys", "refuses", "breaks", "keys_lost"}

\* authenticate() when there is no access token, it cannot be decoded, or it has
\* expired and is not refreshed: no refresh cookie, or RefreshTokenError.
BugUnauthenticated(k, does) == k.access = 0 \/ does = "no_keys" \/ Expired(k.access)
Unauthenticated(k, does) ==
    \/ k.access = 0
    \/ does = "no_keys"
    \/ /\ Expired(k.access)
       /\ \/ k.refresh = 0
          \/ does = "refuses"
          \/ does # "breaks" /\ k.refresh \in revoked

\* Cognito mints a fresh token in place of an expired one; authenticate() loses it if
\* it cannot decode it, for nothing catches the second jwt_decode.
BugMints(k, does) == Expired(k.access) /\ does # "breaks"
Mints(k, does) == ~Unauthenticated(k, does) /\ Expired(k.access) /\ does # "breaks"
Refreshes(k, does) == Mints(k, does) /\ does # "keys_lost"
Fails(k, does) == /\ ~Unauthenticated(k, does) /\ Expired(k.access)
                  /\ does \in {"breaks", "keys_lost"}

\* The session whose groups decide: that of the token that was decoded.
Subject(k, does) == IF Refreshes(k, does) THEN k.refresh ELSE owner[k.access]

\* csrf_needed for call c, whose header carries the token c.
CsrfOutcome(c) ==
    CASE c \in Reads -> "ok"
      [] c \in Writes /\ cookies[c].csrf = NoToken -> "csrf_missing"
      [] c \in Writes /\ cookies[c].csrf = c /\ c \notin aged -> "ok"
      [] OTHER -> "csrf_mismatch"

\* The decorators in the order they run; "ok" means that the handler ran.
Outcome(c, does) ==
    CASE Unauthenticated(cookies[c], does) -> "unauthenticated"
      [] Fails(cookies[c], does) -> "failed"
      [] Subject(cookies[c], does) \in guests -> "forbidden"
      [] OTHER -> CsrfOutcome(c)

\* A refreshed token is set even on the answer of a call refused afterwards.
ServeWhile(c, does) ==
    /\ pc[c] \in {"sent", "orphaned"}
    /\ Goto(c, IF pc[c] = "sent" THEN "served" ELSE "gone")
    /\ owner' = IF Mints(cookies[c], does) THEN Append(owner, cookies[c].refresh)
                                           ELSE owner
    /\ answer' = [answer EXCEPT ![c] =
                    [outcome |-> Outcome(c, does),
                     access |-> IF Refreshes(cookies[c], does) /\ pc[c] = "sent" THEN Len(owner) + 1 ELSE 0]]
    /\ cookies' = [cookies EXCEPT ![c] = NoCookies]
    /\ handled' = IF Outcome(c, does) = "ok" THEN handled \cup {c} ELSE handled
    /\ outages' = IF Unauthenticated(cookies[c], does) /\ ~Unauthenticated(cookies[c], "serves")
                    THEN outages \cup {c} ELSE outages
    /\ UNCHANGED <<jar, aged, expired, logins, revoked, guests, bare, tab, logout,
                   disturbed, ended>>
Serve(c) == \E does \in Cognito : ServeWhile(c, does)

\* logout(): revocation is attempted; a failure is only logged.
ServeLogout ==
    /\ logout.stage = "sent"
    /\ logout' = [logout EXCEPT !.stage = "answered"]
    /\ \/ revoked' = revoked \cup ({logout.refresh} \ {0})
       \/ UNCHANGED revoked
    /\ ended' = TRUE
    /\ UNCHANGED <<jar, aged, owner, expired, logins, guests, bare, pc, cookies, answer,
                   tab, handled, disturbed, outages>>

\* The cookies of a login's answer; without a refresh token the old one stays.
LoginCookies(access, refresh) ==
    jar' = [jar EXCEPT !.access = access,
                       !.refresh = IF refresh = 0 THEN @ ELSE refresh]

\* login(): the authorization code of a user who may lack the admin group is
\* exchanged for a new session, and the app is loaded again.
Login(t) ==
    /\ tab[t] = "login"
    /\ logins < MaxLogins
    /\ logins' = logins + 1
    /\ owner' = Append(owner, logins + 1)
    /\ guests' \in {guests, guests \cup {logins + 1}}
    /\ \E refresh \in {0, logins + 1} :
         /\ LoginCookies(Len(owner) + 1, refresh)
         /\ bare' = IF refresh = 0 THEN bare \cup {logins + 1} ELSE bare
    /\ tab' = [tab EXCEPT ![t] = "app"]
    /\ UNCHANGED <<aged, expired, revoked, pc, cookies, answer, logout, history>>
-----------------------------------------------------------------------------
(* Time, and Cognito.                                                      *)

\* Only the age of a token still on its way, or in the jar, makes a difference.
AgeToken(c) ==
    /\ c \in Writes \ aged
    /\ pc[c] \in {"issued", "holding", "sent", "orphaned"} \/ jar.csrf = c
    /\ aged' = aged \cup {c}
    /\ UNCHANGED <<jar, authServer, pc, cookies, answer, tab, logout, history>>

ExpireAccess ==
    /\ expired < Len(owner)
    /\ expired < MaxExpired
    /\ expired' = expired + 1
    /\ UNCHANGED <<jar, aged, owner, logins, revoked, guests, bare, pc, cookies, answer,
                   tab, logout, history>>

\* The refresh token's own lifetime ends, or the user is deleted.
EndSession(s) ==
    /\ s \notin revoked \cup bare
    /\ revoked' = revoked \cup {s}
    /\ ended' = TRUE
    /\ UNCHANGED <<jar, aged, owner, expired, logins, guests, bare, pc, cookies, answer,
                   tab, logout, handled, disturbed, outages>>

CallStep(c) == \/ IssueToken(c)
               \/ ReceiveToken(c)
               \/ c \in Writes /\ Send(c)
               \/ Serve(c)
               \/ ReceiveAnswer(c)

Next == \/ \E c \in Calls : \/ StartWrite(c)
                            \/ CallStep(c)
                            \/ c \in Reads /\ Send(c)
                            \/ Lose(c)
                            \/ AgeToken(c)
        \/ \E t \in Tabs : \/ RequestLogout(t)
                           \/ CompleteLogout(t)
                           \/ Login(t)
        \/ ServeLogout
        \/ DropCookie
        \/ ExpireAccess
        \/ \E s \in 1..logins : EndSession(s)

Spec == Init /\ [][Next]_vars

\* A request that is under way is answered, and its promise continues.
FairSpec == Spec /\ \A c \in Calls : WF_vars(CallStep(c))
-----------------------------------------------------------------------------
\* Type correctness of the session's variables.
TypeOK == /\ jar \in Jar
          /\ aged \subseteq Writes
          /\ owner \in Seq(1..logins)
          /\ expired \in 0..Len(owner)
          /\ logins \in 1..MaxLogins
          /\ revoked \subseteq 1..logins
          /\ guests \subseteq 1..logins
          /\ bare \subseteq 1..logins
          /\ pc \in [Calls -> Stages]
          /\ cookies \in [Calls -> Jar]
          /\ answer \in [Calls -> [outcome : Outcomes, access : 0..Len(owner)]]
          /\ tab \in [Tabs -> {"app", "login"}]
          /\ logout \in [stage : {"none", "sent", "answered"},
                         from : SUBSET Tabs, refresh : 0..logins]
          /\ handled \subseteq Calls
          /\ disturbed \subseteq Writes
          /\ ended \in BOOLEAN
          /\ outages \subseteq Calls

\* The double-submit exchange only ever fails for one of two reasons: another
\* exchange (of any tab, the remote logger's included) or a logout overlapped
\* it, or its token grew older than CSRF_DEFAULT_MAX_AGE on the way.  Cookies
\* left behind by earlier exchanges, answered, refused or lost, never make an
\* exchange that runs alone fail.
RefusedOnlyWhenDisturbed ==
    \A c \in Writes :
      answer[c].outcome \in Refusals => c \in disturbed \cup aged

\* The page is thrown away for a reason: no call sends its tab to the login
\* page while every session lives on, the user is an admin, no exchange was
\* disturbed or slow and Cognito refused no call it had no reason to refuse.  In
\* particular expiry of access tokens, however many calls meet it at once and in
\* whatever order their answers arrive, never does while sessions have refresh tokens.
NoNeedlessLogin ==
    (\E t \in Tabs : tab[t] = "login") =>
        \/ ended
        \/ guests # {}
        \/ disturbed \cup aged # {}
        \/ outages # {}
        \/ bare # {} /\ expired > 0

\* As long as the browser can refresh it has a token to refresh: authenticate()
\* looks at the refresh cookie only if there is an access cookie.
RefreshHasAccess == jar.refresh # 0 => jar.access # 0

\* An answer that carries a refreshed token may arrive after a logout and a new
\* login and replace the new session's token; the session that access token
\* belongs to is then an earlier one.  It is a later one only if that session came
\* without a refresh token, and left an earlier session's in its place.
TokenNotAheadOfSession ==
    jar.access # 0 /\ jar.refresh # 0 =>
        owner[jar.access] <= jar.refresh \/ owner[jar.access] \in bare

\* Every variable keeps its type, and the cookies in the jar fit each other, in
\* whatever order the answers that set them arrive (add_cookies and logout of PclusterApiHandler.py).
CookiesFit == TypeOK /\ RefreshHasAccess /\ TokenNotAheadOfSession

\* The handlers may rely on authenticated and csrf_needed, and the callers on their
\* answers: cookies, refreshes in passing, logouts, redirects and lost requests, in
\* any order, implement ProtectedApi.  In particular no token is minted with a refresh
\* token Cognito has revoked, and no refused call is carried out.
Word(outcome) == CASE outcome = "ok" -> "done"
                   [] outcome = "lost" -> "lost"
                   [] OTHER -> "refused"
Api == INSTANCE ProtectedApi
         WITH opened <- logins, nonadmins <- guests, over <- revoked, minted <- owner,
              lapsed <- expired, ran <- handled,
              told <- [c \in Calls |-> IF pc[c] = "done" THEN Word(answer[c].outcome)
                                                        ELSE "nothing"]
ImplementsApi == Api!Spec

\* A mutation that starts is carried out unless something named got in its way; an
\* error of authenticate() counts as a loss.
UndisturbedRuns ==
    \A c \in Writes :
      pc[c] = "fetching" ~> \/ c \in handled
                            \/ c \in disturbed \cup aged
                            \/ ended
                            \/ guests # {}
                            \/ c \in outages
                            \/ bare # {} /\ expired > 0
                            \/ answer[c].outcome \in {"failed", "lost"}
                            \/ pc[c] = "gone"
=============================================================================

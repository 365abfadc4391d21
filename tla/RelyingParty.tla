---------------------------- MODULE RelyingParty ----------------------------
(***************************************************************************)
(* A relying party: the example BFF on the server SDK, and the browsers    *)
(* whose cookies are all the state it keeps.  A response is on its way     *)
(* until it is delivered; it may arrive after a later one or not at all.   *)
(* The relying party is configured with AppClient and AppSecret.           *)
(***************************************************************************)
EXTENDS OidcProvider

CONSTANTS
    LoginTtl,                   \* five minutes, in ticks
    SessionTtl                  \* BFF_SESSION_TTL_SECONDS

ASSUME PartyAssumption == LoginTtl \in Nat /\ SessionTtl \in Nat

VARIABLES
    login,      \* the logins begun: state, nonce and verifier have one name
    jar,        \* the cookies of each browser
    past        \* history: a browser's logins when a logout reached it

partyVars == <<login, jar, past>>

Logins == 1..MaxLogins

(* login is 0 in a cookie that is not there; late only remembers that the     *)
(* session's callback was under way when the browser logged out              *)
NoPending == [login |-> 0, created |-> 0]
NoSession == [login |-> 0, expires |-> 0, late |-> FALSE]

PartyInit ==
    /\ login = [l \in Logins |-> [by |-> None, sent |-> FALSE]]
    /\ jar = [b \in Browsers |-> [pending |-> NoPending, session |-> NoSession]]
    /\ past = {}

-----------------------------------------------------------------------------
(* Requests of a browser. *)

(* GET /login: createAuthorizationUrl, and the sealed pending cookie *)
Login(r, b, l) ==
    /\ login[l].by = None /\ \A k \in 1..(l - 1) : login[k].by # None
    /\ login' = [login EXCEPT ![l] = [by |-> b, sent |-> FALSE]]
    /\ Open(r, [NoRequest EXCEPT !.at = "reply", !.reply = "pending", !.browser = b,
                                !.login = l, !.since = now])
    /\ UNCHANGED <<jar, past, row, grants, psession, used, granted, revoked, over>>

(* the browser, or one its user gave the URL, opens the authorization URL *)
Authorize(b, l) ==
    /\ login[l].sent
    /\ IssueCode(b, l)
    /\ UNCHANGED partyVars

(* GET /callback with any code and the state it came with, from any browser:  *)
(* the pending cookie must be there, not too old, and of that state          *)
Callback(r, b, i) ==
    LET pending == jar[b].pending IN
    /\ pending.login # 0
    /\ now - pending.created <= LoginTtl
    /\ row[i].model = "code" /\ row[i].login = pending.login
    /\ Ask(r, [NoRequest EXCEPT !.goal = "code", !.row = i, !.client = AppClient,
                                !.secret = AppSecret, !.browser = b, !.verifier = pending.login])
    /\ UNCHANGED <<partyVars, row, grants, psession, used, granted, revoked, over>>

(* completeAuthorizationCodeCallback: the ID token has the nonce of its code, *)
(* which the provider took from the login; then the user info, which the      *)
(* provider gives for a token and a grant that are there                     *)
FinishCallback(r) ==
    LET q == req[r] IN
    /\ q.at = "response" /\ q.browser # None
    /\ IF q.login = q.verifier /\ Found(q.token) /\ q.grant \in grants
       THEN Goto(r, [q EXCEPT !.at = "reply", !.reply = "session", !.since = now])
       ELSE Done(r)
    /\ UNCHANGED <<partyVars, row, grants, psession, used, granted, revoked, over>>

(* POST /logout and /logout/global: no token is kept that could be revoked,   *)
(* and the end-session URL of the second is followed or not (EndSession)     *)
Logout(r, b) ==
    /\ Open(r, [NoRequest EXCEPT !.at = "reply", !.reply = "clear", !.browser = b])
    /\ UNCHANGED <<partyVars, row, grants, psession, used, granted, revoked, over>>

(* withTimeout: the relying party gives up and answers with an error; the     *)
(* provider goes on with what it was asked                                  *)
TimeOut(r) ==
    /\ req[r].browser # None /\ req[r].at \notin {"reply", "response"}
    /\ Goto(r, [req[r] EXCEPT !.browser = None])
    /\ UNCHANGED <<partyVars, row, grants, psession, used, granted, revoked, over>>

-----------------------------------------------------------------------------
(* Responses. *)

(* mutant of ClearCookies: the pending cookie is left *)
ClearSession(cookies) == [cookies EXCEPT !.session = NoSession]

(* exampleBffClearCookies *)
ClearCookies(cookies) == [pending |-> NoPending, session |-> NoSession]

(* what was sealed into the response; a cookie that is not named stays *)
SetCookies(q, cookies) ==
    CASE q.reply = "pending" ->
            [cookies EXCEPT !.pending = [login |-> q.login, created |-> q.since]]
      [] q.reply = "session" ->
            [pending |-> NoPending,
             session |-> [login |-> q.login, expires |-> q.since + SessionTtl, late |-> q.crossed]]
      [] q.reply = "clear" -> ClearCookies(cookies)

Deliver(r) ==
    LET q == req[r]
        b == q.browser
        out == q.reply = "clear"
    IN  /\ q.at = "reply"
        /\ jar' = [jar EXCEPT ![b] = SetCookies(q, @)]
        /\ login' = IF q.reply = "pending" THEN [login EXCEPT ![q.login].sent = TRUE] ELSE login
        /\ past' = IF out THEN past \union {l \in Logins : login[l].by = b /\ login[l].sent} ELSE past
        /\ req' = [s \in Requests |->
              IF s = r THEN NoRequest
              ELSE IF out /\ req[s].browser = b /\ req[s].goal = "code"
                THEN [req[s] EXCEPT !.crossed = TRUE]
              ELSE req[s]]
        /\ UNCHANGED <<clientVars, now, begun, row, grants, psession, used, granted, revoked, over>>

(* getSession: what the pages show *)
LoggedIn(b) == jar[b].session.login # 0 /\ jar[b].session.expires > now

PartyNext ==
    \/ \E b \in Browsers, l \in Logins : Authorize(b, l)
    \/ \E r \in Requests, b \in Browsers :
          \/ \E l \in Logins : Login(r, b, l)
          \/ \E i \in Rows : Callback(r, b, i)
          \/ Logout(r, b)
    \/ \E r \in Requests : FinishCallback(r) \/ TimeOut(r) \/ Deliver(r)

-----------------------------------------------------------------------------
(* A browser is logged in only by a login it has begun itself, whoever sends  *)
(* it a callback URL; and a login whose cookie had reached it before it       *)
(* logged out logs it in again only if its callback was under way then.  A    *)
(* /login whose response is still on its way at the logout counts as a later  *)
(* login: its cookie arrives after those were cleared.                       *)
SessionFromOwnLogin ==
    \A b \in Browsers : LoggedIn(b) =>
        LET s == jar[b].session IN
        login[s.login].by = b /\ (s.login \in past => s.late)
=============================================================================

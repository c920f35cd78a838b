------------------------------ MODULE Accounts ------------------------------
(***************************************************************************)
(* One person's account: the row of table users, the refresh tokens that   *)
(* keep its browsers signed in, and the links mailed to its address        *)
(* (auth.controller.js, auth.service.js, auth.repository.js).              *)
(*                                                                         *)
(* A request goes through its handler one statement at a time, and every   *)
(* statement commits on its own: nothing here runs in a transaction.       *)
(*   sign up           create -> mail -> issue -> reply                    *)
(*   log in                              issue -> reply                    *)
(*   Google callback   email -> link | enrol -> issue -> reply             *)
(*   refresh           claim -> user -> issue -> reply                     *)
(*                     claim -> lookup (-> sweep) -> clear                 *)
(*   log out           revoke -> clear                                     *)
(*   verify, reset     (password ->) verify                                *)
(* A reply sets or clears the cookie of its browser, or never arrives.     *)
(* Every statement may fail; a refresh then clears the cookie too, whatever *)
(* it has done so far, and any other request leaves the browser as it was. *)
(*                                                                         *)
(* Passwords are "first", given at sign-up, and "second", given in a       *)
(* reset.  A request that is turned away before it writes anything is not  *)
(* an action: it would change nothing.  Access tokens are signed, not      *)
(* stored, and hold for 15 minutes whatever happens here.                  *)
(***************************************************************************)
EXTENDS Integers, FiniteSets

\* What can happen to an account from outside.
Handlers == {"signup", "login", "google", "refresh", "logout", "verify", "reset",
             "suspend", "expire"}

CONSTANTS
    Requests,   \* requests in flight at the same time; each can be reused
    Browsers,   \* browsers of the person, each with one refresh cookie
    Tokens,     \* bound: rows of refresh_tokens
    Links,      \* bound: rows of email_tokens
    Tabs,       \* the instance's choices for tabs
    Scenarios,  \* the instance's choices for handlers
    Null        \* no browser, token or link

ASSUME AccountsAssumption ==
    /\ Tabs \subseteq {"one", "many"}
    /\ Scenarios \subseteq SUBSET Handlers
    /\ Null \notin Browsers \cup Tokens \cup Links

VARIABLES
    user,     \* the row of users
    live,     \* refresh tokens whose revoked_at is null
    expired,  \* refresh tokens whose expires_at has passed
    family,   \* the first token of the sign-in a token descends from, Null if it is not issued
    late,     \* tokens issued while the account was suspended
    barred,   \* tokens issued to a request that began when the account was suspended
    ended,    \* sign-ins ended: by a sign-out with the live token, or by a sweep
              \* while no refresh of theirs was under way
    jar,      \* the refresh cookie of each browser
    signed,   \* browsers signed in, that have not signed out, let their token expire,
              \* met the suspension or a failing statement since
    link,     \* email_tokens: what each is for, its state, how often it was acted on
    req,      \* where each request is and what it holds
    handlers, \* bound: those of Handlers that happen in this behaviour
    tabs,     \* "many": a browser may send a request while another is in flight
    stranded  \* a lost reply or a crash has left a browser with a spent token

bounds == <<handlers, tabs>>
sessionVars == <<live, expired, family, late, barred, ended>>
vars == <<user, sessionVars, jar, signed, link, req, bounds, stranded>>

Stages == {"idle", "create", "mail", "email", "link", "enrol", "claim", "user", "lookup",
           "sweep", "issue", "reply", "revoke", "clear", "password", "verify"}
User == [exists : BOOLEAN, password : {"none", "first", "second"}, google : BOOLEAN,
         verified : BOOLEAN, suspended : BOOLEAN]
Link == [purpose : {"verify_email", "reset_password"}, state : {"fresh", "used", "expired"},
         applied : Nat]
Request == [at : Stages, browser : Browsers \cup {Null}, token : Tokens \cup {Null},
            family : Tokens \cup {Null}, link : Links \cup {Null}, barred : BOOLEAN]
Idle == [at |-> "idle", browser |-> Null, token |-> Null, family |-> Null, link |-> Null,
         barred |-> FALSE]

Issued == {t \in Tokens : family[t] # Null}
Rotating(r, f) == req[r].at \in {"user", "issue"} /\ req[r].family = f

TypeOK ==
    /\ user \in User
    /\ family \in [Tokens -> Tokens \cup {Null}]
    /\ live \subseteq Issued
    /\ expired \subseteq Issued
    /\ late \subseteq Issued
    /\ barred \subseteq Issued
    /\ ended \subseteq Tokens
    /\ jar \in [Browsers -> Tokens \cup {Null}]
    /\ signed \subseteq Browsers
    /\ link \in [Links -> Link \cup {Null}]
    /\ req \in [Requests -> Request]
    /\ handlers \in Scenarios
    /\ tabs \in Tabs
    /\ stranded \in BOOLEAN

Init ==
    /\ user = [exists |-> FALSE, password |-> "none", google |-> FALSE,
               verified |-> FALSE, suspended |-> FALSE]
    /\ live = {} /\ expired = {} /\ late = {} /\ barred = {} /\ ended = {}
    /\ family = [t \in Tokens |-> Null]
    /\ jar = [b \in Browsers |-> Null]
    /\ signed = {}
    /\ link = [l \in Links |-> Null]
    /\ req = [r \in Requests |-> Idle]
    /\ handlers \in Scenarios
    /\ tabs \in Tabs
    /\ stranded = FALSE

Free(b) == \A r \in Requests : req[r].browser # b

\* A browser sends a request, with the cookie it has.
Send(r, b, at) ==
    /\ req[r] = Idle
    /\ tabs = "many" \/ Free(b)
    /\ req' = [req EXCEPT ![r] = [Idle EXCEPT !.at = at, !.browser = b, !.token = jar[b],
                                              !.barred = user.suspended]]

\* A request goes on to the next statement.
Goto(r, at) == req' = [req EXCEPT ![r].at = at]
Done(r) == req' = [req EXCEPT ![r] = Idle]

(***************************************************************************)
(* Sign-in.                                                                *)
(***************************************************************************)
\* signup: findByEmail finds nobody.
BeginSignup(r, b) ==
    /\ "signup" \in handlers
    /\ Send(r, b, "create")
    /\ ~user.exists
    /\ UNCHANGED <<user, sessionVars, jar, signed, link, bounds, stranded>>

\* createUser, unless another request has created the account meanwhile: then
\* the unique index refuses the row.
CreateUser(r) ==
    /\ req[r].at = "create"
    /\ IF user.exists
       THEN /\ Done(r)
            /\ UNCHANGED user
       ELSE /\ Goto(r, "mail")
            /\ user' = [user EXCEPT !.exists = TRUE, !.password = "first"]
    /\ UNCHANGED <<sessionVars, jar, signed, link, bounds, stranded>>

\* createEmailToken.
NewLink(l, purpose) ==
    /\ link[l] = Null
    /\ link' = [link EXCEPT ![l] = [purpose |-> purpose, state |-> "fresh", applied |-> 0]]

\* sendVerificationEmail; a mail that does not arrive is a link nobody opens.
MailVerification(r, l) ==
    /\ req[r].at = "mail"
    /\ NewLink(l, "verify_email")
    /\ Goto(r, "issue")
    /\ UNCHANGED <<user, sessionVars, jar, signed, bounds, stranded>>

\* login: the password and the suspension are looked at in one read.
BeginLogin(r, b) ==
    /\ "login" \in handlers
    /\ user.password # "none"
    /\ ~user.suspended
    /\ Send(r, b, "issue")
    /\ UNCHANGED <<user, sessionVars, jar, signed, link, bounds, stranded>>

\* googleCallback: findByGoogleSub.
BeginGoogle(r, b) ==
    /\ "google" \in handlers
    /\ Send(r, b, IF user.google THEN "issue" ELSE "email")
    /\ UNCHANGED <<user, sessionVars, jar, signed, link, bounds, stranded>>

\* findByEmail.
FindByEmail(r) ==
    /\ req[r].at = "email"
    /\ Goto(r, IF user.exists THEN "link" ELSE "enrol")
    /\ UNCHANGED <<user, sessionVars, jar, signed, link, bounds, stranded>>

\* linkGoogle.
LinkGoogle(r) ==
    /\ req[r].at = "link"
    /\ user' = [user EXCEPT !.google = TRUE, !.verified = TRUE]
    /\ Goto(r, "issue")
    /\ UNCHANGED <<sessionVars, jar, signed, link, bounds, stranded>>

\* createUser with a google_sub, or the unique index refuses it.
Enrol(r) ==
    /\ req[r].at = "enrol"
    /\ IF user.exists
       THEN /\ Done(r)
            /\ UNCHANGED user
       ELSE /\ Goto(r, "issue")
            /\ user' = [user EXCEPT !.exists = TRUE, !.google = TRUE, !.verified = TRUE]
    /\ UNCHANGED <<sessionVars, jar, signed, link, bounds, stranded>>

\* issueRefreshToken: a new row, of a new sign-in or in succession.
Issue(r) ==
    /\ req[r].at = "issue"
    /\ \E t \in Tokens \ Issued :
          /\ family' = [family EXCEPT ![t] = IF req[r].family = Null THEN t ELSE req[r].family]
          /\ live' = live \cup {t}
          /\ late' = IF user.suspended THEN late \cup {t} ELSE late
          /\ barred' = IF req[r].barred THEN barred \cup {t} ELSE barred
          /\ req' = [req EXCEPT ![r].at = "reply", ![r].token = t]
    /\ UNCHANGED <<user, expired, ended, jar, signed, link, bounds, stranded>>

\* setRefreshCookie reaches the browser.
Reply(r) ==
    /\ req[r].at = "reply"
    /\ jar' = [jar EXCEPT ![req[r].browser] = req[r].token]
    /\ signed' = {b \in Browsers : b \in signed \/ b = req[r].browser}
    /\ Done(r)
    /\ UNCHANGED <<user, sessionVars, link, bounds, stranded>>

(***************************************************************************)
(* Refresh and sign-out.                                                   *)
(***************************************************************************)
\* Without a cookie neither changes anything.
BeginRefresh(r, b) ==
    /\ "refresh" \in handlers
    /\ jar[b] # Null
    /\ Send(r, b, "claim")
    /\ UNCHANGED <<user, sessionVars, jar, signed, link, bounds, stranded>>

\* Mutant: revoked_at IS NULL is missing from the WHERE clause.
ClaimableBug(t) == t \notin expired

Claimable(t) == t \in live \ expired

\* claimRefreshToken: one UPDATE whose WHERE clause is Claimable.
Claim(r) ==
    LET t == req[r].token IN
    /\ req[r].at = "claim"
    /\ IF Claimable(t)
       THEN /\ live' = live \ {t}
            /\ req' = [req EXCEPT ![r].at = "user", ![r].family = family[t]]
       ELSE /\ Goto(r, "lookup")
            /\ UNCHANGED live
    /\ UNCHANGED <<user, expired, family, late, barred, ended, jar, signed, link, bounds, stranded>>

\* Mutant: the suspension is checked at login only.
CheckUserBug(r) ==
    /\ req[r].at = "user"
    /\ Goto(r, "issue")
    /\ UNCHANGED <<user, sessionVars, jar, signed, link, bounds, stranded>>

\* findById: users are never deleted, so only a suspension stops the refresh.
CheckUser(r) ==
    /\ req[r].at = "user"
    /\ Goto(r, IF user.suspended THEN "clear" ELSE "issue")
    /\ signed' = IF user.suspended THEN signed \ {req[r].browser} ELSE signed
    /\ UNCHANGED <<user, sessionVars, jar, link, bounds, stranded>>

\* Mutant: every token that could not be claimed is taken for a reused one.
ReusedBug(t) == t \in Tokens

Reused(t) == t \notin live

\* findRefreshToken: has the token been revoked, or only expired?
Lookup(r) ==
    /\ req[r].at = "lookup"
    /\ Goto(r, IF Reused(req[r].token) THEN "sweep" ELSE "clear")
    /\ signed' = IF Reused(req[r].token) THEN signed ELSE signed \ {req[r].browser}
    /\ UNCHANGED <<user, sessionVars, jar, link, bounds, stranded>>

\* revokeAllRefreshTokens: every live token of the user.
Sweep(r) ==
    /\ req[r].at = "sweep"
    /\ live' = {}
    /\ ended' = ended \cup {f \in Issued : \A s \in Requests : ~Rotating(s, f)}
    /\ Goto(r, "clear")
    /\ UNCHANGED <<user, expired, family, late, barred, jar, signed, link, bounds, stranded>>

BeginLogout(r, b) ==
    /\ "logout" \in handlers
    /\ jar[b] # Null
    /\ Send(r, b, "revoke")
    /\ UNCHANGED <<user, sessionVars, jar, signed, link, bounds, stranded>>

\* Mutant: signing out clears the cookie and nothing else.
RevokeBug(r) ==
    /\ req[r].at = "revoke"
    /\ ended' = ended \cup {family[t] : t \in live \cap {req[r].token}}
    /\ signed' = signed \ {req[r].browser}
    /\ Goto(r, "clear")
    /\ UNCHANGED <<user, live, expired, family, late, barred, jar, link, bounds, stranded>>

\* revokeRefreshToken.
Revoke(r) ==
    /\ req[r].at = "revoke"
    /\ live' = live \ {req[r].token}
    /\ ended' = ended \cup {family[t] : t \in live \cap {req[r].token}}
    /\ signed' = signed \ {req[r].browser}
    /\ Goto(r, "clear")
    /\ UNCHANGED <<user, expired, family, late, barred, jar, link, bounds, stranded>>

\* clearRefreshCookie reaches the browser.
Clear(r) ==
    /\ req[r].at = "clear"
    /\ jar' = [jar EXCEPT ![req[r].browser] = Null]
    /\ Done(r)
    /\ UNCHANGED <<user, sessionVars, signed, link, bounds, stranded>>

\* A statement of rotateRefreshToken fails, before or after it took effect: any
\* error clears the cookie, that of a token which is live still included.
RefreshFails(r) ==
    /\ \/ req[r].at \in {"claim", "user", "lookup", "sweep"}
       \/ req[r].at \in {"issue", "reply"} /\ req[r].family # Null
    /\ Goto(r, "clear")
    /\ signed' = signed \ {req[r].browser}
    /\ UNCHANGED <<user, sessionVars, jar, link, bounds, stranded>>

\* A statement of another request fails: it answers 500 and sets no cookie.
StatementFails(r) ==
    /\ \/ req[r].at \in {"create", "mail", "email", "link", "enrol", "revoke", "password", "verify"}
       \/ req[r].at = "issue" /\ req[r].family = Null
    /\ Done(r)
    /\ UNCHANGED <<user, sessionVars, jar, signed, link, bounds, stranded>>

(***************************************************************************)
(* Mailed links.                                                           *)
(***************************************************************************)
\* requestPasswordReset.  Users are not deleted, so its read and its insert
\* are one step.
RequestPasswordReset(l) ==
    /\ "reset" \in handlers
    /\ user.exists
    /\ NewLink(l, "reset_password")
    /\ UNCHANGED <<user, sessionVars, jar, signed, req, bounds, stranded>>

\* Mutant: used_at IS NULL missing from the WHERE clause.
ConsumableBug(l, purpose) ==
    link[l] # Null /\ link[l].purpose = purpose /\ link[l].state # "expired"

Consumable(l, purpose) ==
    link[l] # Null /\ link[l].purpose = purpose /\ link[l].state = "fresh"

\* consumeEmailToken: one UPDATE whose WHERE clause is Consumable.
Consume(r, l, purpose, at) ==
    /\ req[r] = Idle
    /\ Consumable(l, purpose)
    /\ link' = [link EXCEPT ![l].state = "used", ![l].applied = @ + 1]
    /\ req' = [req EXCEPT ![r] = [Idle EXCEPT !.at = at, !.link = l]]
    /\ UNCHANGED <<user, sessionVars, jar, signed, bounds, stranded>>

VerifyEmail(r, l) == "verify" \in handlers /\ Consume(r, l, "verify_email", "verify")
ResetPassword(r, l) == "reset" \in handlers /\ Consume(r, l, "reset_password", "password")

SetPassword(r) ==
    /\ req[r].at = "password"
    /\ user' = [user EXCEPT !.password = "second"]
    /\ Goto(r, "verify")
    /\ UNCHANGED <<sessionVars, jar, signed, link, bounds, stranded>>

MarkVerified(r) ==
    /\ req[r].at = "verify"
    /\ user' = [user EXCEPT !.verified = TRUE]
    /\ Done(r)
    /\ UNCHANGED <<sessionVars, jar, signed, link, bounds, stranded>>

(***************************************************************************)
(* The moderator, the clock, the network and the process.                  *)
(***************************************************************************)
\* POST /moderation/users/:id/suspend.
Suspend ==
    /\ "suspend" \in handlers
    /\ user.exists /\ ~user.suspended
    /\ user' = [user EXCEPT !.suspended = TRUE]
    /\ UNCHANGED <<sessionVars, jar, signed, link, req, bounds, stranded>>

\* A token that is revoked may expire too; nobody would see the difference.
ExpireToken(t) ==
    /\ "expire" \in handlers
    /\ t \in live \ expired
    /\ expired' = expired \cup {t}
    /\ UNCHANGED <<user, live, family, late, barred, ended, jar, signed, link, req, bounds, stranded>>

ExpireLink(l) ==
    /\ "expire" \in handlers
    /\ link[l] # Null /\ link[l].state = "fresh"
    /\ link' = [link EXCEPT ![l].state = "expired"]
    /\ UNCHANGED <<user, sessionVars, jar, signed, req, bounds, stranded>>

\* The browser of r is left with a token that is no longer live.
Strands(r) ==
    /\ req[r].browser # Null
    /\ jar[req[r].browser] \notin live \cup {Null}

\* A reply is lost; so is, to the browser, an error of a statement that took effect.
ReplyLost(r) ==
    /\ req[r].at \in {"reply", "clear"}
    /\ Done(r)
    /\ stranded' = (stranded \/ Strands(r))
    /\ UNCHANGED <<user, sessionVars, jar, signed, link, bounds>>

\* The process dies between two statements.
Crash ==
    /\ req' = [r \in Requests |-> Idle]
    /\ stranded' = (stranded \/ \E r \in Requests : Strands(r))
    /\ UNCHANGED <<user, sessionVars, jar, signed, link, bounds>>

Begin(r) ==
    \E b \in Browsers : \/ BeginSignup(r, b) \/ BeginLogin(r, b) \/ BeginGoogle(r, b)
                        \/ BeginRefresh(r, b) \/ BeginLogout(r, b)
Proceed(r) ==
    \/ CreateUser(r) \/ (\E l \in Links : MailVerification(r, l))
    \/ FindByEmail(r) \/ LinkGoogle(r) \/ Enrol(r)
    \/ Issue(r) \/ Reply(r)
    \/ Claim(r) \/ CheckUser(r) \/ Lookup(r) \/ Sweep(r)
    \/ Revoke(r) \/ Clear(r)
    \/ SetPassword(r) \/ MarkVerified(r)
    \/ RefreshFails(r) \/ StatementFails(r) \/ ReplyLost(r)
Mail(r) == \E l \in Links : VerifyEmail(r, l) \/ ResetPassword(r, l)

Next ==
    \/ \E r \in Requests : Begin(r) \/ Proceed(r) \/ Mail(r)
    \/ \E l \in Links : RequestPasswordReset(l) \/ ExpireLink(l)
    \/ \E t \in Tokens : ExpireToken(t)
    \/ Suspend
    \/ Crash

Spec == Init /\ [][Next]_vars

-----------------------------------------------------------------------------
\* However many tabs refresh at once, and whatever is lost, a sign-in never has
\* two live tokens: "two tabs refreshing at once must not both succeed and both
\* be handed a new session" (claimRefreshToken).
OneLivePerSignIn ==
    \A t, u \in live : family[t] = family[u] => t = u

\* A sign-in that was signed out of with its live token, or swept after a reuse
\* while no refresh of its own was half done, has no live token ever again
\* (revokeRefreshToken, revokeAllRefreshTokens).
SignOutIsFinal == \A t \in live : family[t] \notin ended

\* A browser that is signed in and sends one request at a time stays signed in,
\* with a live token in its cookie, whatever its other browsers do: until it signs
\* out, its token expires, the account is suspended or a statement of its own
\* refresh fails, which alone signs it out and nobody else.  Lost replies and
\* crashes do no harm either as long as none of them leaves a browser with a spent
\* token; the first that does may sign out every browser at the next refresh ("a
\* rare spurious sign-out", rotateRefreshToken).
NoSpuriousSignOut ==
    tabs = "one" /\ ~stranded =>
        \A b \in signed : Free(b) => jar[b] \in live

\* A suspension stops refreshes and password logins: no request that begins after
\* it is handed a token, and a refresh that had passed the check hands out one and
\* no more ("Checked on every refresh, not just at login").  Google sign-ins are
\* the exception: the callback never looks at suspended_at, so each is handed a
\* token even after the suspension, which its first refresh does not survive.
OneLatePerSignIn == \A t, u \in late : family[t] = family[u] => t = u
OnlyGoogleAfter == \A t \in barred : family[t] = t /\ user.google
SuspensionTakesEffect == OneLatePerSignIn /\ OnlyGoogleAfter

\* A mailed link is acted on at most once, however many requests present it
\* (consumeEmailToken).
LinkSpentOnce == \A l \in Links : link[l] # Null => link[l].applied <= 1

-----------------------------------------------------------------------------
\* Why OneLivePerSignIn and SignOutIsFinal hold.  A request that has claimed a
\* token is the only one of its sign-in to hold one; while it is between claim
\* and insert, the sign-in has no live token and cannot be ended.
RotationsAlone ==
    \A r \in Requests : \A f \in Tokens : Rotating(r, f) =>
        /\ f \in Issued
        /\ f \notin ended
        /\ \A t \in live : family[t] # f
        /\ \A s \in Requests : Rotating(s, f) => s = r
\* A sign-in is named after a token that exists.
FamiliesRooted ==
    /\ \A t \in Issued : family[t] \in Issued
    /\ ended \subseteq Issued

\* Whoever signs in descends from no token.
SigningIn == {"create", "mail", "email", "link", "enrol"}
SignInsAreNew == \A r \in Requests : req[r].at \in SigningIn => req[r].family = Null

\* Why OneLatePerSignIn holds: a sign-in that has a late token is not
\* issued another, for nobody gets past CheckUser any more.
NothingAfterLate ==
    /\ late # {} => user.suspended
    /\ \A t \in late : \A r \in Requests : req[r].at = "issue" => req[r].family # family[t]

\* Why OnlyGoogleAfter holds: a request that began after the suspension gets no
\* further than CheckUser, or comes from Google.
BarredStop ==
    /\ user.suspended => user.exists
    /\ \A r \in Requests : req[r].barred =>
          /\ user.suspended
          /\ req[r].at \notin {"create", "mail"}
          /\ req[r].at = "issue" => req[r].family = Null /\ user.google

\* Why LinkSpentOnce holds.
UsedMeansApplied ==
    \A l \in Links : link[l] # Null =>
        link[l].applied = IF link[l].state = "used" THEN 1 ELSE 0

IndInv ==
    /\ TypeOK
    /\ RotationsAlone /\ FamiliesRooted /\ SignInsAreNew /\ NothingAfterLate
    /\ UsedMeansApplied
    /\ OneLivePerSignIn /\ SignOutIsFinal /\ OneLatePerSignIn

BarredInv == BarredStop /\ OnlyGoogleAfter

\* Why NoSpuriousSignOut holds.  A browser's token is live until a request of its
\* own has claimed or revoked it, and is nobody else's; so nothing is ever taken
\* for reused.
Supersedes(q) ==
    q.at \in {"reply", "clear"} \/ (q.at \in {"user", "issue"} /\ q.family # Null)
OneRequestEach ==
    \A r, s \in Requests : req[r].browser = req[s].browser /\ req[r].browser # Null => r = s
CookiesGood ==
    \A b \in Browsers : jar[b] # Null =>
        /\ jar[b] \in Issued
        /\ jar[b] \in live \/ \E r \in Requests : req[r].browser = b /\ Supersedes(req[r])
CookiesDistinct == \A b, c \in Browsers : jar[b] = jar[c] /\ jar[b] # Null => b = c
PresentsItsCookie(r) ==
    req[r].at \in {"claim", "lookup", "revoke"} =>
        /\ req[r].browser \in Browsers /\ req[r].token # Null
        /\ req[r].token = jar[req[r].browser] /\ req[r].token \in live
CarriesNewToken(r) ==
    req[r].at = "reply" =>
        /\ req[r].token \in live
        /\ \A b \in Browsers : jar[b] # req[r].token
        /\ \A s \in Requests : req[s].at = "reply" /\ req[s].token = req[r].token => s = r
TokensKept ==
    tabs = "one" /\ ~stranded =>
        /\ OneRequestEach /\ CookiesGood /\ CookiesDistinct
        /\ \A r \in Requests : req[r].at # "sweep" /\ PresentsItsCookie(r) /\ CarriesNewToken(r)
SignedHoldCookies ==
    tabs = "one" /\ ~stranded =>
        /\ \A b \in signed : jar[b] # Null
        /\ \A r \in Requests : req[r].at = "clear" => req[r].browser \notin signed
=============================================================================

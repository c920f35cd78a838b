---------------------------- MODULE AccountsProofs ----------------------------
(***************************************************************************)
(* Proofs about Accounts, for any number of requests, browsers, tokens and *)
(* links.                                                                  *)
(***************************************************************************)
EXTENDS Accounts, TLAPS

\* The conjuncts of TypeOK are looked at one at a time.
LEMMA SendType ==
    ASSUME TypeOK, NEW r \in Requests, NEW b \in Browsers, NEW at \in Stages, Send(r, b, at)
    PROVE  req' \in [Requests -> Request]
<1>1. jar[b] \in Tokens \cup {Null}
  BY DEF TypeOK
<1>2. [Idle EXCEPT !.at = at, !.browser = b, !.token = jar[b], !.barred = user.suspended]
         \in Request
  <2>1. user.suspended \in BOOLEAN
    BY DEF TypeOK, User
  <2> QED BY <1>1, <2>1 DEF Idle, Request
<1> QED BY <1>2 DEF TypeOK, Send

LEMMA GotoType ==
    ASSUME TypeOK, NEW r \in Requests, NEW at \in Stages, Goto(r, at)
    PROVE  req' \in [Requests -> Request]
BY DEF TypeOK, Goto, Request

LEMMA DoneType ==
    ASSUME TypeOK, NEW r \in Requests, Done(r)
    PROVE  req' \in [Requests -> Request]
BY DEF TypeOK, Done, Idle, Request, Stages

LEMMA UserType ==
    ASSUME TypeOK
    PROVE  /\ [user EXCEPT !.google = TRUE, !.verified = TRUE] \in User
           /\ [user EXCEPT !.verified = TRUE] \in User
           /\ [user EXCEPT !.suspended = TRUE] \in User
           /\ [user EXCEPT !.password = "second"] \in User
           /\ [user EXCEPT !.exists = TRUE, !.password = "first"] \in User
           /\ [user EXCEPT !.exists = TRUE, !.google = TRUE, !.verified = TRUE] \in User
<1>1. user \in User
  BY DEF TypeOK
<1>2. [user EXCEPT !.google = TRUE, !.verified = TRUE] \in User
  BY <1>1 DEF User
<1>3. [user EXCEPT !.verified = TRUE] \in User
  BY <1>1 DEF User
<1>4. [user EXCEPT !.suspended = TRUE] \in User
  BY <1>1 DEF User
<1>5. [user EXCEPT !.password = "second"] \in User
  BY <1>1 DEF User
<1>6. [user EXCEPT !.exists = TRUE, !.password = "first"] \in User
  BY <1>1 DEF User
<1>7. [user EXCEPT !.exists = TRUE, !.google = TRUE, !.verified = TRUE] \in User
  BY <1>1 DEF User
<1> QED BY <1>2, <1>3, <1>4, <1>5, <1>6, <1>7

\* What every step keeps of the rest.
LEMMA IssuedSame ==
    ASSUME UNCHANGED family PROVE Issued' = Issued
BY DEF Issued

LEMMA TypeStep ==
    ASSUME TypeOK, [Next]_vars PROVE TypeOK'
<1> USE IssuedSame
<1>1. ASSUME NEW r \in Requests, Begin(r) PROVE TypeOK'
  <2>1. PICK b \in Browsers : \/ BeginSignup(r, b) \/ BeginLogin(r, b) \/ BeginGoogle(r, b)
                              \/ BeginRefresh(r, b) \/ BeginLogout(r, b)
    BY <1>1 DEF Begin
  <2>2. \E at \in Stages : Send(r, b, at)
    BY <2>1 DEF BeginSignup, BeginLogin, BeginGoogle, BeginRefresh, BeginLogout, Stages
  <2>3. UNCHANGED <<user, sessionVars, jar, signed, link, bounds, stranded>>
    BY <2>1 DEF BeginSignup, BeginLogin, BeginGoogle, BeginRefresh, BeginLogout
  <2> QED BY <2>2, <2>3, SendType DEF TypeOK, sessionVars, bounds
<1>2. ASSUME NEW r \in Requests, Proceed(r) PROVE TypeOK'
  <2>1. CASE CreateUser(r)
    <3>1. req' \in [Requests -> Request]
      BY <2>1, GotoType, DoneType DEF CreateUser, Stages
    <3>2. user' \in User
      BY <2>1, UserType DEF CreateUser, TypeOK
    <3> QED BY <2>1, <3>1, <3>2 DEF CreateUser, TypeOK, sessionVars, bounds
  <2>2. ASSUME NEW l \in Links, MailVerification(r, l) PROVE TypeOK'
    <3>1. req' \in [Requests -> Request]
      BY <2>2, GotoType DEF MailVerification, Stages
    <3>2. link' \in [Links -> Link \cup {Null}]
      BY <2>2 DEF MailVerification, NewLink, Link, TypeOK
    <3> QED BY <2>2, <3>1, <3>2 DEF MailVerification, TypeOK, sessionVars, bounds
  <2>3. CASE FindByEmail(r) \/ CheckUser(r) \/ Lookup(r)
    <3>1. req' \in [Requests -> Request]
      BY <2>3, GotoType DEF FindByEmail, CheckUser, Lookup, Stages
    <3> QED BY <2>3, <3>1 DEF FindByEmail, CheckUser, Lookup, TypeOK, sessionVars, bounds
  <2>4. CASE LinkGoogle(r)
    <3>1. req' \in [Requests -> Request]
      BY <2>4, GotoType DEF LinkGoogle, Stages
    <3> QED BY <2>4, <3>1, UserType DEF LinkGoogle, TypeOK, sessionVars, bounds
  <2>5. CASE Enrol(r)
    <3>1. req' \in [Requests -> Request]
      BY <2>5, GotoType, DoneType DEF Enrol, Stages
    <3>2. user' \in User
      BY <2>5, UserType DEF Enrol, TypeOK
    <3> QED BY <2>5, <3>1, <3>2 DEF Enrol, TypeOK, sessionVars, bounds
  <2>6. CASE Issue(r)
    <3>1. PICK t \in Tokens \ Issued :
             /\ family' = [family EXCEPT ![t] = IF req[r].family = Null THEN t ELSE req[r].family]
             /\ live' = live \cup {t}
             /\ late' = IF user.suspended THEN late \cup {t} ELSE late
             /\ req' = [req EXCEPT ![r].at = "reply", ![r].token = t]
      BY <2>6 DEF Issue
    <3>2. req' \in [Requests -> Request]
      <4>1. req[r] \in Request
        BY DEF TypeOK
      <4>2. [req[r] EXCEPT !.at = "reply", !.token = t] \in Request
        BY <3>1, <4>1 DEF Request, Stages
      <4> QED BY <3>1, <4>2 DEF TypeOK
    <3>3. req[r].family \in Tokens \cup {Null}
      BY DEF TypeOK, Request
    <3>4. family' \in [Tokens -> Tokens \cup {Null}] /\ Issued' = Issued \cup {t}
      BY <3>1, <3>3, AccountsAssumption DEF TypeOK, Issued
    <3>5. barred' \subseteq Issued \cup {t}
      BY <3>1, <2>6 DEF TypeOK, Issue
    <3> QED BY <2>6, <3>1, <3>2, <3>4, <3>5 DEF TypeOK, Issue, bounds
  <2>7. CASE Reply(r) \/ Clear(r)
    <3>1. req' \in [Requests -> Request]
      BY <2>7, DoneType DEF Reply, Clear
    <3>2. jar' \in [Browsers -> Tokens \cup {Null}]
      BY <2>7 DEF Reply, Clear, TypeOK, Request
    <3> QED BY <2>7, <3>1, <3>2 DEF Reply, Clear, TypeOK, sessionVars, bounds
  <2>8. CASE Claim(r)
    <3>1. req' \in [Requests -> Request]
      <4>1. CASE Claimable(req[r].token)
        <5>1. req[r].token \in Tokens
          BY <4>1 DEF Claimable, TypeOK, Issued
        <5>2. family[req[r].token] \in Tokens \cup {Null}
          BY <5>1 DEF TypeOK
        <5> QED BY <2>8, <4>1, <5>2 DEF Claim, TypeOK, Request, Stages
      <4> QED BY <2>8, <4>1, GotoType DEF Claim, Stages
    <3> QED BY <2>8, <3>1 DEF Claim, TypeOK, bounds
  <2>9. CASE Sweep(r) \/ Revoke(r)
    <3>1. req' \in [Requests -> Request]
      BY <2>9, GotoType DEF Sweep, Revoke, Stages
    <3> QED
      <4>1. CASE Sweep(r)
        <5>1. live' = {} /\ ended' \subseteq Tokens
          BY <4>1 DEF Sweep, TypeOK, Issued
        <5>2. UNCHANGED <<user, expired, family, late, barred, jar, signed, link, bounds, stranded>>
          BY <4>1 DEF Sweep, sessionVars
        <5> QED BY <3>1, <5>1, <5>2 DEF TypeOK, bounds
      <4>2. CASE Revoke(r)
        <5>1. \A t \in live : family[t] \in Tokens
          BY DEF TypeOK, Issued
        <5>2. {family[t] : t \in live \cap {req[r].token}} \subseteq Tokens
          BY <5>1
        <5>3. live' \subseteq live /\ ended' \subseteq Tokens
          BY <4>2, <5>2 DEF Revoke, TypeOK
        <5>4. /\ UNCHANGED <<user, expired, family, late, barred, jar, link, bounds, stranded>>
              /\ signed' \subseteq signed
          BY <4>2 DEF Revoke
        <5> QED BY <3>1, <5>3, <5>4 DEF TypeOK, bounds
      <4> QED BY <2>9, <4>1, <4>2
  <2>10. CASE SetPassword(r) \/ MarkVerified(r)
    <3>1. req' \in [Requests -> Request]
      BY <2>10, GotoType, DoneType DEF SetPassword, MarkVerified, Stages
    <3> QED BY <2>10, <3>1, UserType DEF SetPassword, MarkVerified, TypeOK, sessionVars, bounds
  <2>11. CASE RefreshFails(r) \/ StatementFails(r) \/ ReplyLost(r)
    <3>1. req' \in [Requests -> Request]
      BY <2>11, GotoType, DoneType DEF RefreshFails, StatementFails, ReplyLost, Stages
    <3>2. /\ UNCHANGED <<user, sessionVars, jar, link, bounds>>
          /\ signed' \subseteq signed /\ stranded' \in BOOLEAN
      BY <2>11 DEF RefreshFails, StatementFails, ReplyLost, Strands, TypeOK
    <3> QED BY <3>1, <3>2 DEF TypeOK, sessionVars, bounds
  <2> QED BY <1>2, <2>1, <2>2, <2>3, <2>4, <2>5, <2>6, <2>7, <2>8, <2>9, <2>10, <2>11 DEF Proceed
<1>3. ASSUME NEW r \in Requests, Mail(r) PROVE TypeOK'
  <2>1. PICK l \in Links, purpose \in {"verify_email", "reset_password"},
             at \in {"verify", "password"} : Consume(r, l, purpose, at)
    BY <1>3 DEF Mail, VerifyEmail, ResetPassword
  <2>2. req' \in [Requests -> Request]
    <3>1. [Idle EXCEPT !.at = at, !.link = l] \in Request
      BY DEF Idle, Request, Stages
    <3> QED BY <2>1, <3>1 DEF Consume, TypeOK
  <2>3. link' \in [Links -> Link \cup {Null}]
    BY <2>1 DEF Consume, Consumable, Link, TypeOK
  <2> QED BY <2>1, <2>2, <2>3 DEF Consume, TypeOK, sessionVars, bounds
<1>4. ASSUME NEW l \in Links, RequestPasswordReset(l) \/ ExpireLink(l) PROVE TypeOK'
  <2>1. link' \in [Links -> Link \cup {Null}]
    BY <1>4 DEF RequestPasswordReset, ExpireLink, NewLink, Link, TypeOK
  <2> QED BY <1>4, <2>1 DEF TypeOK, RequestPasswordReset, ExpireLink, sessionVars, bounds
<1>5. ASSUME NEW t \in Tokens, ExpireToken(t) PROVE TypeOK'
  BY <1>5 DEF TypeOK, ExpireToken, bounds, Issued
<1>6. CASE Suspend
  BY <1>6, UserType DEF TypeOK, Suspend, sessionVars, bounds
<1>7. CASE Crash
  <2>1. req' \in [Requests -> Request]
    BY <1>7 DEF Crash, Idle, Request, Stages
  <2> QED BY <1>7, <2>1 DEF TypeOK, Crash, Strands, sessionVars, bounds
<1>8. CASE UNCHANGED vars
  BY <1>8 DEF TypeOK, vars, sessionVars, bounds
<1> QED BY <1>1, <1>2, <1>3, <1>4, <1>5, <1>6, <1>7, <1>8 DEF Next

\* A step that writes no refresh token, lets nobody past a suspension and starts
\* no rotation.
LEMMA QuietStep ==
    ASSUME IndInv, TypeOK', UsedMeansApplied', SignInsAreNew',
           UNCHANGED <<live, family, late, ended>>,
           user.suspended => user'.suspended,
           \A s \in Requests : req'[s].at \in {"user", "issue"} =>
               \/ req'[s].family = Null
               \/ /\ req[s].at \in {"user", "issue"}
                  /\ req'[s].family = req[s].family
                  /\ req'[s].at = "issue" => req[s].at = "issue" \/ ~user.suspended
    PROVE  IndInv'
<1>1. Issued' = Issued
  BY DEF Issued
<1>2. \A s \in Requests : \A f \in Tokens : Rotating(s, f)' => Rotating(s, f)
  BY AccountsAssumption DEF Rotating
<1>3. RotationsAlone'
  BY <1>1, <1>2 DEF IndInv, RotationsAlone
<1>4. FamiliesRooted' /\ OneLivePerSignIn' /\ SignOutIsFinal' /\ OneLatePerSignIn'
  BY <1>1 DEF IndInv, FamiliesRooted, OneLivePerSignIn, SignOutIsFinal, OneLatePerSignIn
<1>5. NothingAfterLate'
  <2>1. \A t \in late : family[t] \in Tokens
    BY DEF IndInv, TypeOK, Issued
  <2> QED BY <2>1, AccountsAssumption DEF IndInv, NothingAfterLate
<1> QED BY <1>3, <1>4, <1>5 DEF IndInv

\* A claim moves a token from the table into a request.
LEMMA ClaimStep ==
    ASSUME IndInv, TypeOK', NEW r \in Requests, Claim(r) PROVE IndInv'
<1> DEFINE t == req[r].token
<1>1. UNCHANGED <<user, family, late, ended, link>>
  BY DEF Claim
<1>2. Issued' = Issued
  BY <1>1 DEF Issued
<1>3. req \in [Requests -> Request]
  BY DEF IndInv, TypeOK
<1>4. CASE ~Claimable(t)
  <2>1. UNCHANGED live /\ req' = [req EXCEPT ![r].at = "lookup"]
    BY <1>4 DEF Claim, Goto
  <2> QED BY <1>1, <1>3, <2>1, QuietStep
          DEF IndInv, UsedMeansApplied, SignInsAreNew, SigningIn
<1>5. CASE Claimable(t)
  <2>1. /\ t \in live /\ live' = live \ {t}
        /\ req' = [req EXCEPT ![r].at = "user", ![r].family = family[t]]
    BY <1>5 DEF Claim, Claimable
  <2>2. /\ t \in Issued /\ family[t] \in Issued /\ family[t] \in Tokens
        /\ family[t] \notin ended
        /\ \A u \in live : family[u] = family[t] => u = t
    BY <2>1 DEF IndInv, TypeOK, FamiliesRooted, OneLivePerSignIn, SignOutIsFinal, Issued
  <2>3. \A s \in Requests : ~Rotating(s, family[t])
    BY <2>1, <2>2 DEF IndInv, RotationsAlone
  <2>4. \A s \in Requests : \A f \in Tokens :
           Rotating(s, f)' => Rotating(s, f) \/ (s = r /\ f = family[t])
    BY <1>3, <2>1 DEF Rotating
  <2>5. RotationsAlone'
    BY <1>1, <1>2, <2>1, <2>2, <2>3, <2>4 DEF IndInv, RotationsAlone
  <2>6. SignInsAreNew' /\ NothingAfterLate'
    BY <1>1, <1>3, <2>1 DEF IndInv, SignInsAreNew, SigningIn, NothingAfterLate
  <2> QED BY <1>1, <1>2, <2>1, <2>5, <2>6
          DEF IndInv, FamiliesRooted, UsedMeansApplied, OneLivePerSignIn, SignOutIsFinal,
              OneLatePerSignIn
<1> QED BY <1>4, <1>5

\* The insert makes a new sign-in, or gives back to a sign-in the one live token
\* that its rotation has claimed.
LEMMA IssueStep ==
    ASSUME IndInv, TypeOK', NEW r \in Requests, Issue(r) PROVE IndInv'
<1>1. PICK t \in Tokens \ Issued :
         /\ family' = [family EXCEPT ![t] = IF req[r].family = Null THEN t ELSE req[r].family]
         /\ live' = live \cup {t}
         /\ late' = IF user.suspended THEN late \cup {t} ELSE late
         /\ req' = [req EXCEPT ![r].at = "reply", ![r].token = t]
  BY DEF Issue
<1> DEFINE f == family'[t]
<1>2. /\ req \in [Requests -> Request] /\ req[r].at = "issue"
      /\ family \in [Tokens -> Tokens \cup {Null}]
      /\ UNCHANGED <<user, ended, link>>
      /\ req[r].family \in Tokens \cup {Null}
  BY DEF IndInv, TypeOK, Issue, Request
<1>3. /\ f = IF req[r].family = Null THEN t ELSE req[r].family
      /\ f \in Tokens
      /\ Issued' = Issued \cup {t}
      /\ \A u \in Issued : family'[u] = family[u]
  BY <1>1, <1>2, AccountsAssumption DEF Issued
<1>4. /\ live \subseteq Issued /\ late \subseteq Issued /\ ended \subseteq Issued
      /\ \A u \in Issued : family[u] \in Issued
  BY DEF IndInv, TypeOK, FamiliesRooted
<1>5. /\ \A u \in live : family[u] # f
      /\ f \notin ended
      /\ f \in Issued'
      /\ \A u \in late : family[u] # f
      /\ \A s \in Requests \ {r} : ~Rotating(s, f)
  <2>1. CASE req[r].family = Null
    <3>1. f = t
      BY <2>1, <1>3
    <3>2. \A s \in Requests : Rotating(s, t) => t \in Issued
      BY DEF IndInv, RotationsAlone
    <3> QED BY <1>1, <1>3, <1>4, <3>1, <3>2
  <2>2. CASE req[r].family # Null
    <3>1. Rotating(r, f) /\ f = req[r].family
      BY <2>2, <1>2, <1>3 DEF Rotating
    <3>2. /\ \A u \in live : family[u] # f
          /\ f \notin ended /\ f \in Issued
          /\ \A s \in Requests : Rotating(s, f) => s = r
      BY <3>1, <1>3 DEF IndInv, RotationsAlone
    <3>3. \A u \in late : family[u] # f
      BY <3>1, <1>2 DEF IndInv, NothingAfterLate
    <3> QED BY <1>3, <3>2, <3>3
  <2> QED BY <2>1, <2>2
<1>6. \A s \in Requests : \A g \in Tokens : Rotating(s, g)' => Rotating(s, g) /\ s # r
  BY <1>1, <1>2 DEF Rotating
<1>7. RotationsAlone'
  BY <1>1, <1>2, <1>3, <1>4, <1>5, <1>6 DEF IndInv, RotationsAlone
<1>8. FamiliesRooted'
  BY <1>2, <1>3, <1>4, <1>5 DEF FamiliesRooted
<1>9. SignInsAreNew'
  BY <1>1, <1>2 DEF IndInv, SignInsAreNew, SigningIn
<1>10. NothingAfterLate'
  <2>1. \A s \in Requests : req'[s].at = "issue" => s # r /\ req[s].at = "issue" /\ req'[s] = req[s]
    BY <1>1, <1>2
  <2>2. \A s \in Requests \ {r} : req[s].at = "issue" => req[s].family # f
    BY <1>3, <1>5 DEF Rotating
  <2>3. \A u \in late' : u \in late \/ (u = t /\ user.suspended)
    BY <1>1
  <2>4. (late # {} => user.suspended)'
    BY <1>2, <2>3 DEF IndInv, NothingAfterLate
  <2>5. ASSUME NEW u \in late', NEW s \in Requests, req'[s].at = "issue"
        PROVE  req'[s].family # family'[u]
    <3>1. s # r /\ req[s].at = "issue" /\ req'[s] = req[s]
      BY <2>1, <2>5
    <3>2. CASE u = t
      BY <2>2, <3>1, <3>2
    <3>3. CASE u \in late
      BY <1>3, <1>4, <3>1, <3>3 DEF IndInv, NothingAfterLate
    <3> QED BY <2>3, <2>5, <3>2, <3>3
  <2> QED BY <2>4, <2>5 DEF NothingAfterLate
<1>11. OneLivePerSignIn' /\ SignOutIsFinal' /\ OneLatePerSignIn'
  BY <1>1, <1>2, <1>3, <1>4, <1>5
     DEF IndInv, OneLivePerSignIn, SignOutIsFinal, OneLatePerSignIn
<1> QED BY <1>2, <1>7, <1>8, <1>9, <1>10, <1>11 DEF IndInv, UsedMeansApplied

\* A sweep and a sign-out take live tokens away, and end no sign-in whose token
\* is in a request.
LEMMA RevocationStep ==
    ASSUME IndInv, TypeOK', NEW r \in Requests, Sweep(r) \/ Revoke(r) PROVE IndInv'
<1>1. UNCHANGED <<user, family, late, link>> /\ live' \subseteq live
  BY DEF Sweep, Revoke
<1>2. req \in [Requests -> Request] /\ req' = [req EXCEPT ![r].at = "clear"]
  BY DEF IndInv, TypeOK, Sweep, Revoke, Goto
<1>3. Issued' = Issued
  BY <1>1 DEF Issued
<1>4. /\ \A f \in ended' : f \in Issued
      /\ \A f \in ended' \ ended : \A s \in Requests : ~Rotating(s, f)
      /\ \A t \in live' : family[t] \notin ended'
  <2>1. CASE Sweep(r)
    BY <2>1 DEF Sweep, IndInv, FamiliesRooted
  <2>2. CASE Revoke(r)
    <3> DEFINE t == req[r].token
    <3>1. \A f \in ended' : f \in ended \/ (t \in live /\ f = family[t])
      BY <2>2 DEF Revoke
    <3>2. ASSUME t \in live
          PROVE  family[t] \in Issued /\ \A s \in Requests : ~Rotating(s, family[t])
      <4>1. family[t] \in Issued /\ family[t] \in Tokens
        BY <3>2 DEF IndInv, TypeOK, FamiliesRooted, Issued
      <4> QED BY <3>2, <4>1 DEF IndInv, RotationsAlone
    <3>3. \A u \in live' : u \in live /\ u # t
      BY <2>2 DEF Revoke
    <3> QED BY <3>1, <3>2, <3>3 DEF IndInv, FamiliesRooted, OneLivePerSignIn, SignOutIsFinal
  <2> QED BY <2>1, <2>2
<1>5. \A s \in Requests : \A f \in Tokens : Rotating(s, f)' => Rotating(s, f)
  BY <1>2 DEF Rotating
<1>6. RotationsAlone'
  BY <1>1, <1>3, <1>4, <1>5 DEF IndInv, RotationsAlone
<1>7. SignInsAreNew' /\ NothingAfterLate'
  BY <1>1, <1>2 DEF IndInv, SignInsAreNew, SigningIn, NothingAfterLate
<1> QED BY <1>1, <1>3, <1>4, <1>6, <1>7
        DEF IndInv, FamiliesRooted, UsedMeansApplied, OneLivePerSignIn, SignOutIsFinal,
            OneLatePerSignIn

\* Every other action is quiet.
LEMMA IndStep ==
    ASSUME IndInv, [Next]_vars PROVE IndInv'
<1>0. user \in User
  BY DEF IndInv, TypeOK
<1>1. TypeOK'
  BY TypeStep DEF IndInv
<1>2. req \in [Requests -> Request] /\ link \in [Links -> Link \cup {Null}]
  BY DEF IndInv, TypeOK
<1>3. ASSUME NEW r \in Requests, Begin(r) PROVE IndInv'
  <2>1. PICK b \in Browsers : \/ BeginSignup(r, b) \/ BeginLogin(r, b) \/ BeginGoogle(r, b)
                              \/ BeginRefresh(r, b) \/ BeginLogout(r, b)
    BY <1>3 DEF Begin
  <2>2. PICK at \in {"create", "issue", "email", "claim", "revoke"} : Send(r, b, at)
    BY <2>1 DEF BeginSignup, BeginLogin, BeginGoogle, BeginRefresh, BeginLogout
  <2>3. UNCHANGED <<user, sessionVars, link>>
    BY <2>1 DEF BeginSignup, BeginLogin, BeginGoogle, BeginRefresh, BeginLogout
  <2>4. \A s \in Requests : req'[s] = req[s] \/ req'[s].family = Null
    BY <1>2, <2>2 DEF Send, Idle
  <2>5. SignInsAreNew'
    BY <2>4 DEF IndInv, SignInsAreNew
  <2> QED BY <1>1, <2>3, <2>4, <2>5, QuietStep DEF IndInv, UsedMeansApplied, sessionVars
<1>4. ASSUME NEW r \in Requests, Proceed(r) PROVE IndInv'
  <2>1. CASE Issue(r)
    BY <1>1, <2>1, IssueStep
  <2>2. CASE Claim(r)
    BY <1>1, <2>2, ClaimStep
  <2>3. CASE Sweep(r) \/ Revoke(r)
    BY <1>1, <2>3, RevocationStep
  <2>4. CASE CreateUser(r) \/ FindByEmail(r) \/ LinkGoogle(r) \/ Enrol(r)
    <3>1. /\ UNCHANGED <<sessionVars, link>> /\ user'.suspended = user.suspended
          /\ \A s \in Requests :
                req'[s] = req[s] \/ req'[s] = Idle \/ (req[s].family = Null /\ req'[s].family = Null)
      <4>1. user'.suspended = user.suspended
        BY <1>0, <2>4 DEF CreateUser, FindByEmail, LinkGoogle, Enrol, User
      <4>2. req[r].family = Null
        BY <2>4 DEF CreateUser, FindByEmail, LinkGoogle, Enrol, IndInv, SignInsAreNew, SigningIn
      <4>3. Done(r) \/ \E at \in Stages : Goto(r, at)
        BY <2>4 DEF CreateUser, FindByEmail, LinkGoogle, Enrol, Stages
      <4>4. \A s \in Requests :
               req'[s] = req[s] \/ req'[s] = Idle \/ (req[s].family = Null /\ req'[s].family = Null)
        <5>1. CASE Done(r)
          BY <1>2, <5>1 DEF Done
        <5>2. ASSUME NEW at \in Stages, Goto(r, at)
              PROVE  \A s \in Requests :
                        req'[s] = req[s] \/ (req[s].family = Null /\ req'[s].family = Null)
          BY <1>2, <4>2, <5>2 DEF Goto, Request
        <5> QED BY <4>3, <5>1, <5>2
      <4> QED BY <2>4, <4>1, <4>4 DEF CreateUser, FindByEmail, LinkGoogle, Enrol
    <3>2. SignInsAreNew'
      BY <3>1 DEF IndInv, SignInsAreNew, SigningIn, Idle
    <3> QED BY <1>1, <3>1, <3>2, QuietStep DEF IndInv, UsedMeansApplied, Idle, sessionVars
  <2>5. ASSUME NEW l \in Links, MailVerification(r, l) PROVE IndInv'
    <3>1. /\ UNCHANGED <<user, sessionVars>>
          /\ \A s \in Requests :
                req'[s] = req[s] \/ (req[s].family = Null /\ req'[s].family = Null)
      BY <1>2, <2>5 DEF MailVerification, Goto, IndInv, SignInsAreNew, SigningIn
    <3>2. SignInsAreNew' /\ UsedMeansApplied'
      BY <1>2, <2>5, <3>1 DEF MailVerification, NewLink, IndInv, SignInsAreNew, SigningIn, UsedMeansApplied
    <3> QED BY <1>1, <3>1, <3>2, QuietStep DEF sessionVars
  <2>6. CASE CheckUser(r)
    <3>1. /\ UNCHANGED <<user, sessionVars, link>>
          /\ req[r].at = "user"
          /\ req' = [req EXCEPT ![r].at = IF user.suspended THEN "clear" ELSE "issue"]
      BY <2>6 DEF CheckUser, Goto
    <3>2. SignInsAreNew'
      BY <1>2, <3>1 DEF IndInv, SignInsAreNew, SigningIn
    <3> QED BY <1>1, <1>2, <3>1, <3>2, QuietStep DEF IndInv, UsedMeansApplied, sessionVars
  <2>7. CASE \/ Lookup(r) \/ Reply(r) \/ Clear(r) \/ SetPassword(r) \/ MarkVerified(r)
             \/ RefreshFails(r) \/ StatementFails(r) \/ ReplyLost(r)
    <3>1. /\ UNCHANGED <<sessionVars, link>> /\ user'.suspended = user.suspended
          /\ \A s \in Requests :
                \/ req'[s] = req[s]
                \/ req'[s].at \in {"sweep", "clear", "verify", "idle"}
      <4>1. user'.suspended = user.suspended
        BY <1>0, <2>7 DEF Lookup, Reply, Clear, SetPassword, MarkVerified, RefreshFails,
                  StatementFails, ReplyLost, User
      <4>2. Done(r) \/ \E at \in {"sweep", "clear", "verify"} : Goto(r, at)
        BY <2>7 DEF Lookup, Reply, Clear, SetPassword, MarkVerified, RefreshFails,
                  StatementFails, ReplyLost
      <4>3. \A s \in Requests :
               \/ req'[s] = req[s]
               \/ req'[s].at \in {"sweep", "clear", "verify", "idle"}
        <5>1. CASE Done(r)
          BY <1>2, <5>1 DEF Done, Idle
        <5>2. ASSUME NEW at \in {"sweep", "clear", "verify"}, Goto(r, at)
              PROVE  \A s \in Requests : req'[s] = req[s] \/ req'[s].at = at
          BY <1>2, <5>2 DEF Goto, Request
        <5> QED BY <4>2, <5>1, <5>2
      <4> QED BY <2>7, <4>1, <4>3
              DEF Lookup, Reply, Clear, SetPassword, MarkVerified, RefreshFails,
                  StatementFails, ReplyLost
    <3>2. SignInsAreNew'
      BY <3>1 DEF IndInv, SignInsAreNew, SigningIn
    <3> QED BY <1>1, <3>1, <3>2, QuietStep DEF IndInv, UsedMeansApplied, sessionVars
  <2> QED BY <1>4, <2>1, <2>2, <2>3, <2>4, <2>5, <2>6, <2>7 DEF Proceed
<1>5. ASSUME NEW r \in Requests, Mail(r) PROVE IndInv'
  <2>1. PICK l \in Links, purpose \in {"verify_email", "reset_password"},
             at \in {"verify", "password"} : Consume(r, l, purpose, at)
    BY <1>5 DEF Mail, VerifyEmail, ResetPassword
  <2>2. /\ UNCHANGED <<user, sessionVars>>
        /\ \A s \in Requests : req'[s] = req[s] \/ req'[s].at \in {"verify", "password"}
    BY <1>2, <2>1 DEF Consume, Idle
  <2>3. UsedMeansApplied'
    BY <1>2, <2>1 DEF Consume, Consumable, Link, IndInv, UsedMeansApplied
  <2>4. SignInsAreNew'
    BY <2>2 DEF IndInv, SignInsAreNew, SigningIn
  <2> QED BY <1>1, <2>2, <2>3, <2>4, QuietStep DEF sessionVars
<1>6. ASSUME NEW l \in Links, RequestPasswordReset(l) \/ ExpireLink(l) PROVE IndInv'
  <2>1. UNCHANGED <<user, sessionVars, req>>
    BY <1>6 DEF RequestPasswordReset, ExpireLink
  <2>2. UsedMeansApplied'
    BY <1>2, <1>6 DEF RequestPasswordReset, ExpireLink, NewLink, Link, IndInv, UsedMeansApplied
  <2> QED BY <1>1, <2>1, <2>2, QuietStep DEF IndInv, SignInsAreNew, sessionVars
<1>7. ASSUME NEW t \in Tokens, ExpireToken(t) PROVE IndInv'
  BY <1>1, <1>7, QuietStep DEF ExpireToken, IndInv, SignInsAreNew, UsedMeansApplied
<1>8. CASE Suspend
  BY <1>1, <1>8, QuietStep DEF Suspend, IndInv, SignInsAreNew, UsedMeansApplied, sessionVars
<1>9. CASE Crash
  BY <1>1, <1>9, QuietStep
     DEF Crash, IndInv, SignInsAreNew, SigningIn, UsedMeansApplied, sessionVars, Idle
<1>10. CASE UNCHANGED vars
  BY <1>1, <1>10, QuietStep DEF IndInv, SignInsAreNew, UsedMeansApplied, vars, sessionVars
<1> QED BY <1>3, <1>4, <1>5, <1>6, <1>7, <1>8, <1>9, <1>10 DEF Next

LEMMA IndInit ==
    ASSUME Init PROVE IndInv
<1>1. Issued = {} /\ live = {} /\ late = {} /\ barred = {} /\ ended = {}
  BY DEF Init, Issued
<1>2. \A r \in Requests : req[r] = Idle
  BY DEF Init
<1>3. TypeOK
  <2>1. user \in User
    BY DEF Init, User
  <2>2. req \in [Requests -> Request]
    BY DEF Init, Request, Idle, Stages
  <2> QED BY <1>1, <2>1, <2>2, AccountsAssumption DEF Init, TypeOK
<1> QED BY <1>1, <1>2, <1>3
        DEF Init, IndInv, RotationsAlone, Rotating, Idle, FamiliesRooted, SignInsAreNew, SigningIn,
            NothingAfterLate, UsedMeansApplied, OneLivePerSignIn, SignOutIsFinal,
            OneLatePerSignIn

\* The inductive invariant: every value is of its kind, and a sign-in has its one
\* token either in the table or in a request.
THEOREM Invariant == Spec => []IndInv
<1>1. Init => IndInv
  BY IndInit
<1>2. IndInv /\ [Next]_vars => IndInv'
  BY IndStep
<1> QED BY <1>1, <1>2, PTL DEF Spec

\* However many tabs refresh at once, a sign-in has one live token at most: the
\* claim in claimRefreshToken takes it out of the table before the insert in
\* issueRefreshToken.
THEOREM OneTokenPerSignIn == Spec => []OneLivePerSignIn
<1>1. IndInv => OneLivePerSignIn
  BY DEF IndInv
<1> QED BY <1>1, Invariant, PTL

\* A sign-in that was ended by revokeRefreshToken, or by revokeAllRefreshTokens
\* while it was not being refreshed, stays ended.
THEOREM SignedOutForGood == Spec => []SignOutIsFinal
<1>1. IndInv => SignOutIsFinal
  BY DEF IndInv
<1> QED BY <1>1, Invariant, PTL

\* What a request that began after the suspension may still do.
MayBeBarred(q) ==
    /\ user.suspended
    /\ q.at \notin {"create", "mail"}
    /\ q.at = "issue" => q.family = Null /\ user.google

\* Steps that issue no token: users, their Google identity and suspensions stay.
LEMMA BarredQuiet ==
    ASSUME BarredInv, UNCHANGED <<family, barred>>,
           user.suspended => user'.suspended, user.google => user'.google,
           user'.suspended => user'.exists,
           \A s \in Requests : req'[s] = req[s] \/ (req'[s].barred => MayBeBarred(req[s])')
    PROVE  BarredInv'
<1>1. \A s \in Requests : req'[s].barred => MayBeBarred(req[s])'
  BY DEF BarredInv, BarredStop, MayBeBarred
<1>2. BarredStop'
  BY <1>1 DEF BarredStop, MayBeBarred
<1>3. OnlyGoogleAfter'
  BY DEF BarredInv, OnlyGoogleAfter
<1> QED BY <1>2, <1>3 DEF BarredInv

\* A request that was not barred before is barred by none of its later steps.
LEMMA BarredMove ==
    ASSUME IndInv, BarredInv, UNCHANGED <<family, barred>>, NEW r \in Requests, NEW q \in Request,
           req' = [req EXCEPT ![r] = q],
           user.suspended => user'.suspended, user.google => user'.google,
           user'.suspended => user'.exists,
           \/ ~q.barred
           \/ /\ q.barred = req[r].barred /\ q.at \notin {"create", "mail", "issue"}
           \/ q.barred = req[r].barred /\ req[r].at \in {"create", "mail"}
           \/ q.barred = req[r].barred /\ ~user.suspended
           \/ q.family = Null /\ user'.google /\ user'.suspended /\ q.at \notin {"create", "mail"}
           \/ q.barred = req[r].barred /\ q.family = Null /\ user'.google
                 /\ q.at \notin {"create", "mail"}
    PROVE  BarredInv'
<1>1. req \in [Requests -> Request]
  BY DEF IndInv, TypeOK
<1>2. req'[r] = q /\ \A s \in Requests : s # r => req'[s] = req[s]
  BY <1>1
<1>3. req[r].barred => /\ user.suspended
                       /\ req[r].at \notin {"create", "mail"}
  BY DEF BarredInv, BarredStop
<1>4. q.barred => MayBeBarred(req[r])'
  BY <1>2, <1>3 DEF MayBeBarred
<1> QED BY <1>2, <1>4, BarredQuiet

LEMMA BarredStep ==
    ASSUME IndInv, BarredInv, [Next]_vars PROVE BarredInv'
<1>1. user \in User /\ req \in [Requests -> Request] /\ (user.suspended => user.exists)
  BY DEF IndInv, TypeOK, BarredInv, BarredStop
<1>2. ASSUME NEW r \in Requests, Done(r), UNCHANGED <<family, barred>>,
             user.suspended => user'.suspended, user.google => user'.google,
             user'.suspended => user'.exists
      PROVE  BarredInv'
  <2>1. Idle \in Request /\ ~Idle.barred
    BY DEF Idle, Request, Stages
  <2> QED BY <1>2, <2>1, BarredMove DEF Done
<1>3. ASSUME NEW r \in Requests, NEW at \in Stages, Goto(r, at), UNCHANGED <<family, barred>>,
             user.suspended => user'.suspended, user.google => user'.google,
             user'.suspended => user'.exists,
             \/ at \notin {"create", "mail", "issue"}
             \/ req[r].at \in {"create", "mail"}
             \/ ~user.suspended
             \/ at = "issue" /\ req[r].family = Null /\ user'.google
      PROVE  BarredInv'
  <2> DEFINE q == [req[r] EXCEPT !.at = at]
  <2>1. q \in Request /\ q.at = at /\ q.barred = req[r].barred /\ q.family = req[r].family
    BY <1>1 DEF Request
  <2>2. req' = [req EXCEPT ![r] = q]
    BY <1>3 DEF Goto
  <2> HIDE DEF q
  <2> QED BY <1>3, <2>1, <2>2, BarredMove
<1>4. ASSUME NEW r \in Requests, Begin(r) PROVE BarredInv'
  <2>1. PICK b \in Browsers : \/ BeginSignup(r, b) \/ BeginLogin(r, b) \/ BeginGoogle(r, b)
                              \/ BeginRefresh(r, b) \/ BeginLogout(r, b)
    BY <1>4 DEF Begin
  <2>2. PICK at \in {"create", "issue", "email", "claim", "revoke"} :
           /\ Send(r, b, at)
           /\ at \in {"create", "issue"} => ~user.suspended \/ (at = "issue" /\ user.google)
    BY <1>1, <2>1 DEF BeginSignup, BeginLogin, BeginGoogle, BeginRefresh, BeginLogout
  <2>3. UNCHANGED <<user, family, barred>>
    BY <2>1 DEF BeginSignup, BeginLogin, BeginGoogle, BeginRefresh, BeginLogout, sessionVars
  <2> DEFINE q == [Idle EXCEPT !.at = at, !.browser = b, !.token = jar[b],
                              !.barred = user.suspended]
  <2>4. /\ q \in Request /\ q.at = at /\ q.family = Null /\ q.barred = user.suspended
        /\ req' = [req EXCEPT ![r] = q]
    <3>1. jar[b] \in Tokens \cup {Null} /\ user.suspended \in BOOLEAN
      BY <1>1 DEF IndInv, TypeOK, User
    <3> QED BY <2>2, <3>1 DEF Send, Idle, Request, Stages
  <2> HIDE DEF q
  <2>5. \A s \in Requests : req'[s] = req[s] \/ (req'[s].barred => MayBeBarred(req[s])')
    BY <1>1, <2>2, <2>3, <2>4 DEF MayBeBarred
  <2> QED BY <1>1, <2>3, <2>5, BarredQuiet
<1>5. ASSUME NEW r \in Requests, Proceed(r) PROVE BarredInv'
  <2>1. CASE Issue(r)
    <3>1. PICK t \in Tokens \ Issued :
             /\ family' = [family EXCEPT ![t] = IF req[r].family = Null THEN t ELSE req[r].family]
             /\ barred' = IF req[r].barred THEN barred \cup {t} ELSE barred
             /\ req' = [req EXCEPT ![r].at = "reply", ![r].token = t]
             /\ req[r].at = "issue" /\ user' = user
      BY <2>1 DEF Issue
    <3>2. /\ req'[r].at = "reply" /\ req'[r].barred = req[r].barred
          /\ \A s \in Requests : s # r => req'[s] = req[s]
      BY <1>1, <3>1 DEF Request
    <3>3. BarredStop'
      BY <3>1, <3>2 DEF BarredInv, BarredStop
    <3>4. family \in [Tokens -> Tokens \cup {Null}] /\ barred \subseteq Issued
      BY DEF IndInv, TypeOK
    <3>5. \A u \in barred : u # t /\ family'[u] = u /\ user'.google
      BY <3>1, <3>4 DEF Issued, BarredInv, OnlyGoogleAfter
    <3>6. req[r].barred => family'[t] = t /\ user'.google
      BY <3>1, <3>4 DEF BarredInv, BarredStop
    <3> QED BY <3>1, <3>3, <3>5, <3>6 DEF BarredInv, OnlyGoogleAfter
  <2>2. CASE Claim(r) /\ Claimable(req[r].token)
    <3> DEFINE f == family[req[r].token]
               q == [req[r] EXCEPT !.at = "user", !.family = f]
    <3>1. f \in Tokens \cup {Null}
      BY <2>2 DEF Claimable, IndInv, TypeOK, Issued
    <3>2. q \in Request /\ q.at = "user" /\ q.barred = req[r].barred
      BY <1>1, <3>1 DEF Request, Stages
    <3>3. req' = [req EXCEPT ![r] = q] /\ UNCHANGED <<user, family, barred>>
      BY <2>2 DEF Claim
    <3> HIDE DEF q
    <3> QED BY <1>1, <3>2, <3>3, BarredMove
  <2>3. CASE Claim(r) /\ ~Claimable(req[r].token)
    BY <1>1, <1>3, <2>3 DEF Claim, Stages
  <2>4. CASE CreateUser(r)
    <3>1. UNCHANGED <<family, barred>> /\ req[r].at = "create"
          /\ (Done(r) \/ Goto(r, "mail"))
      BY <2>4 DEF CreateUser, sessionVars
    <3>2. user'.suspended = user.suspended /\ user'.google = user.google
          /\ (user.exists => user'.exists)
      BY <1>1, <2>4 DEF CreateUser, User
    <3> QED BY <1>1, <1>2, <1>3, <3>1, <3>2 DEF Stages
  <2>5. CASE LinkGoogle(r) \/ Enrol(r)
    <3>1. UNCHANGED <<family, barred>> /\ req[r].family = Null
          /\ (Done(r) \/ (Goto(r, "issue") /\ user'.google))
          /\ user'.suspended = user.suspended /\ (user.google => user'.google)
          /\ (user.exists => user'.exists)
      BY <1>1, <2>5 DEF LinkGoogle, Enrol, sessionVars, User, IndInv, SignInsAreNew, SigningIn
    <3> QED BY <1>1, <1>2, <1>3, <3>1 DEF Stages
  <2>6. CASE CheckUser(r) \/ (\E l \in Links : MailVerification(r, l))
    <3>1. UNCHANGED <<user, family, barred>>
          /\ \/ Goto(r, "clear")
             \/ Goto(r, "issue") /\ (~user.suspended \/ req[r].at = "mail")
      BY <2>6 DEF CheckUser, MailVerification, sessionVars
    <3> QED BY <1>1, <1>3, <3>1 DEF Stages
  <2>7. CASE \/ FindByEmail(r) \/ Lookup(r) \/ Sweep(r) \/ Revoke(r) \/ SetPassword(r)
             \/ RefreshFails(r)
    <3>1. UNCHANGED <<family, barred>> /\ user'.suspended = user.suspended
          /\ user'.google = user.google /\ user'.exists = user.exists
      BY <1>1, <2>7 DEF FindByEmail, Lookup, Sweep, Revoke, SetPassword, RefreshFails, sessionVars,
                        User
    <3>2. \E at \in {"link", "enrol", "sweep", "clear", "verify"} : Goto(r, at)
      BY <2>7 DEF FindByEmail, Lookup, Sweep, Revoke, SetPassword, RefreshFails
    <3> QED BY <1>1, <1>3, <3>1, <3>2 DEF Stages
  <2>8. CASE Reply(r) \/ Clear(r) \/ MarkVerified(r) \/ StatementFails(r) \/ ReplyLost(r)
    <3>1. UNCHANGED <<family, barred>> /\ Done(r) /\ user'.suspended = user.suspended
          /\ user'.google = user.google /\ user'.exists = user.exists
      BY <1>1, <2>8 DEF Reply, Clear, MarkVerified, StatementFails, ReplyLost, sessionVars, User
    <3> QED BY <1>1, <1>2, <3>1
  <2> QED BY <1>5, <2>1, <2>2, <2>3, <2>4, <2>5, <2>6, <2>7, <2>8 DEF Proceed
<1>6. ASSUME NEW r \in Requests, Mail(r) PROVE BarredInv'
  <2>1. PICK l \in Links, purpose \in {"verify_email", "reset_password"},
             at \in {"verify", "password"} : Consume(r, l, purpose, at)
    BY <1>6 DEF Mail, VerifyEmail, ResetPassword
  <2>2. /\ UNCHANGED <<user, family, barred>>
        /\ \A s \in Requests : req'[s] = req[s] \/ ~req'[s].barred
    BY <1>1, <2>1 DEF Consume, Idle, sessionVars
  <2> QED BY <1>1, <2>2, BarredQuiet
<1>7. CASE \/ \E l \in Links : RequestPasswordReset(l) \/ ExpireLink(l)
           \/ \E t \in Tokens : ExpireToken(t)
           \/ Suspend \/ UNCHANGED vars
  <2>1. UNCHANGED <<family, barred, req>> /\ (user.suspended => user'.suspended)
        /\ user'.google = user.google /\ (user'.suspended => user'.exists)
    BY <1>1, <1>7 DEF RequestPasswordReset, ExpireLink, ExpireToken, Suspend, vars, sessionVars, User
  <2> QED BY <1>1, <2>1, BarredQuiet
<1>8. CASE Crash
  <2>1. UNCHANGED <<user, family, barred>> /\ \A s \in Requests : ~req'[s].barred
    BY <1>8 DEF Crash, sessionVars, Idle
  <2> QED BY <1>1, <2>1, BarredQuiet
<1> QED BY <1>4, <1>5, <1>6, <1>7, <1>8 DEF Next

\* A suspension lets at most one more token through in each sign-in, for
\* rotateRefreshToken looks at suspended_at between its claim and its insert; and
\* none to a request that begins after it, Google sign-ins apart.
THEOREM SuspensionObeyed == Spec => []SuspensionTakesEffect
<1>1. Init => BarredInv
  BY DEF Init, BarredInv, BarredStop, OnlyGoogleAfter, Idle
<1>2. IndInv /\ BarredInv /\ [Next]_vars => BarredInv'
  BY BarredStep
<1>3. IndInv /\ BarredInv => SuspensionTakesEffect
  BY DEF IndInv, BarredInv, SuspensionTakesEffect
<1> QED BY <1>1, <1>2, <1>3, Invariant, PTL DEF Spec

\* A mailed link works once: consumeEmailToken tests and sets used_at in one
\* statement.
THEOREM LinkWorksOnce == Spec => []LinkSpentOnce
<1>1. IndInv => LinkSpentOnce
  BY DEF IndInv, UsedMeansApplied, LinkSpentOnce
<1> QED BY <1>1, Invariant, PTL

Kept ==
    /\ OneRequestEach /\ CookiesGood /\ CookiesDistinct
    /\ \A r \in Requests : req[r].at # "sweep" /\ PresentsItsCookie(r) /\ CarriesNewToken(r)

\* A request may move on or end as long as it neither looks at a token nor hands
\* one out, and a cookie that it is about to replace is still replaced.
LEMMA KeptQuiet ==
    ASSUME TypeOK, Kept, UNCHANGED <<live, family, jar>>,
           \A s \in Requests :
              \/ req'[s] = req[s]
              \/ /\ req'[s].at \notin {"sweep", "claim", "lookup", "revoke", "reply"}
                 /\ \/ /\ req'[s].browser = req[s].browser
                       /\ Supersedes(req[s]) => Supersedes(req'[s])
                    \/ req'[s].browser = Null /\ ~Supersedes(req[s])
    PROVE  Kept'
<1>1. Issued' = Issued
  BY DEF Issued
<1>2. OneRequestEach'
  <2>1. \A s \in Requests : req'[s].browser = req[s].browser \/ req'[s].browser = Null
    OBVIOUS
  <2> QED BY <2>1 DEF Kept, OneRequestEach
<1>3. CookiesGood'
  <2> SUFFICES ASSUME NEW b \in Browsers, jar[b] # Null
               PROVE  /\ jar[b] \in Issued
                      /\ jar[b] \in live \/ \E r \in Requests :
                                               req'[r].browser = b /\ Supersedes(req'[r])
    BY <1>1 DEF CookiesGood
  <2>1. CASE jar[b] \in live
    BY <2>1 DEF Kept, CookiesGood
  <2>2. CASE jar[b] \notin live
    <3>1. PICK r \in Requests : req[r].browser = b /\ Supersedes(req[r])
      BY <2>2 DEF Kept, CookiesGood
    <3>2. req'[r].browser = b /\ Supersedes(req'[r])
      BY <3>1, AccountsAssumption
    <3> QED BY <3>2 DEF Kept, CookiesGood
  <2> QED BY <2>1, <2>2
<1>4. CookiesDistinct'
  BY DEF Kept, CookiesDistinct
<1>5. ASSUME NEW r \in Requests
      PROVE  (req[r].at # "sweep" /\ PresentsItsCookie(r) /\ CarriesNewToken(r))'
  BY DEF Kept, PresentsItsCookie, CarriesNewToken
<1> QED BY <1>2, <1>3, <1>4, <1>5 DEF Kept

\* A browser with no request in flight presents a live token.
LEMMA KeptSend ==
    ASSUME TypeOK, Kept, tabs = "one", UNCHANGED <<live, family, jar>>,
           NEW r \in Requests, NEW b \in Browsers,
           NEW at \in {"create", "issue", "email", "claim", "revoke"}, Send(r, b, at),
           at \in {"claim", "revoke"} => jar[b] # Null
    PROVE  Kept'
<1>1. /\ req[r] = Idle
      /\ \A s \in Requests : req[s].browser # b
  BY DEF Send, Free
<1>2. Issued' = Issued /\ b # Null
  BY AccountsAssumption DEF Issued
<1>3. /\ req'[r].at = at /\ req'[r].browser = b /\ req'[r].token = jar[b]
      /\ \A s \in Requests : s # r => req'[s] = req[s]
  <2> DEFINE new == [Idle EXCEPT !.at = at, !.browser = b, !.token = jar[b],
                                !.barred = user.suspended]
  <2>1. new.at = at /\ new.browser = b /\ new.token = jar[b]
    BY DEF Idle
  <2>2. req \in [Requests -> Request] /\ req' = [req EXCEPT ![r] = new]
    BY DEF Send, TypeOK
  <2> HIDE DEF new
  <2> QED BY <2>1, <2>2
<1>4. OneRequestEach'
  BY <1>1, <1>3 DEF Kept, OneRequestEach
<1>5. CookiesGood'
  <2>1. \A s \in Requests : Supersedes(req[s]) => s # r
    BY <1>1 DEF Idle, Supersedes
  <2> QED BY <1>2, <1>3, <2>1 DEF Kept, CookiesGood
<1>6. CookiesDistinct'
  BY DEF Kept, CookiesDistinct
<1>7. jar[b] # Null => jar[b] \in live
  BY <1>1 DEF Kept, CookiesGood
<1>8. ASSUME NEW s \in Requests
      PROVE  (req[s].at # "sweep" /\ PresentsItsCookie(s) /\ CarriesNewToken(s))'
  <2>1. CASE s = r
    BY <1>3, <1>7, <2>1 DEF PresentsItsCookie, CarriesNewToken
  <2>2. CASE s # r
    BY <1>3, <2>2 DEF Kept, PresentsItsCookie, CarriesNewToken
  <2> QED BY <2>1, <2>2
<1> QED BY <1>4, <1>5, <1>6, <1>8 DEF Kept

\* A token that is claimed or revoked is in no other browser's cookie.
LEMMA KeptTake ==
    ASSUME TypeOK, Kept, UNCHANGED <<family, jar>>, NEW r \in Requests,
           req[r].at \in {"claim", "revoke"}, live' = live \ {req[r].token},
           req'[r].browser = req[r].browser, req'[r].at \in {"user", "clear"}, Supersedes(req'[r]),
           \A s \in Requests : s # r => req'[s] = req[s]
    PROVE  Kept'
<1> DEFINE t == req[r].token
           b == req[r].browser
<1>1. b \in Browsers /\ t # Null /\ t = jar[b] /\ b # Null
  BY AccountsAssumption DEF Kept, PresentsItsCookie
<1>2. Issued' = Issued
  BY DEF Issued
<1>3. \A c \in Browsers : c # b => jar[c] # t
  BY <1>1 DEF Kept, CookiesDistinct
<1>4. \A s \in Requests : s # r => req[s].browser # b
  BY <1>1 DEF Kept, OneRequestEach
<1>5. OneRequestEach'
  BY DEF Kept, OneRequestEach
<1>6. CookiesGood'
  <2>1. \A s \in Requests : Supersedes(req[s]) => s # r /\ req'[s] = req[s]
    BY DEF Supersedes
  <2>2. req'[r].browser = b /\ Supersedes(req'[r])
    BY DEF Supersedes
  <2> QED BY <1>2, <1>3, <2>1, <2>2 DEF Kept, CookiesGood
<1>7. CookiesDistinct'
  BY DEF Kept, CookiesDistinct
<1>8. ASSUME NEW s \in Requests
      PROVE  (req[s].at # "sweep" /\ PresentsItsCookie(s) /\ CarriesNewToken(s))'
  <2>1. CASE s = r
    BY <2>1 DEF PresentsItsCookie, CarriesNewToken
  <2>2. CASE s # r
    <3>1. req'[s] = req[s]
      BY <2>2
    <3>2. PresentsItsCookie(s)'
      BY <1>3, <1>4, <2>2, <3>1 DEF Kept, PresentsItsCookie
    <3>3. \A u \in Requests : req'[u].at = "reply" => u # r /\ req'[u] = req[u]
      OBVIOUS
    <3>4. CarriesNewToken(s)'
      BY <1>1, <3>1, <3>3 DEF Kept, CarriesNewToken
    <3> QED BY <3>1, <3>2, <3>4 DEF Kept
  <2> QED BY <2>1, <2>2
<1> QED BY <1>5, <1>6, <1>7, <1>8 DEF Kept

\* A token that was just inserted is in no cookie and no other reply.
LEMMA KeptIssue ==
    ASSUME TypeOK, Kept, NEW r \in Requests, Issue(r) PROVE Kept'
<1>1. PICK t \in Tokens \ Issued :
         /\ family' = [family EXCEPT ![t] = IF req[r].family = Null THEN t ELSE req[r].family]
         /\ live' = live \cup {t}
         /\ req' = [req EXCEPT ![r].at = "reply", ![r].token = t]
  BY DEF Issue
<1>2. /\ req \in [Requests -> Request] /\ req[r].at = "issue" /\ jar' = jar
      /\ live \subseteq Issued /\ Issued \subseteq Issued'
  <2>1. req[r].family \in Tokens \cup {Null} /\ family \in [Tokens -> Tokens \cup {Null}]
    BY DEF TypeOK, Request
  <2>2. \A u \in Issued : u # t /\ family'[u] = family[u]
    BY <1>1, <2>1 DEF Issued
  <2> QED BY <2>2 DEF TypeOK, Issue, Issued
<1>3. /\ req'[r].at = "reply" /\ req'[r].token = t /\ req'[r].browser = req[r].browser
      /\ \A s \in Requests : s # r => req'[s] = req[s]
  BY <1>1, <1>2 DEF Request
<1>4. /\ \A b \in Browsers : jar[b] # t
      /\ \A s \in Requests : req[s].at = "reply" => req[s].token # t
  <2>1. t # Null
    BY <1>1, AccountsAssumption
  <2> QED BY <1>1, <1>2, <2>1 DEF Kept, CookiesGood, CarriesNewToken
<1>5. OneRequestEach'
  BY <1>3 DEF Kept, OneRequestEach
<1>6. CookiesGood'
  <2>1. \A s \in Requests : Supersedes(req[s]) =>
           req'[s].browser = req[s].browser /\ Supersedes(req'[s])
    BY <1>3 DEF Supersedes
  <2> QED BY <1>1, <1>2, <2>1 DEF Kept, CookiesGood
<1>7. CookiesDistinct'
  BY <1>2 DEF Kept, CookiesDistinct
<1>8. ASSUME NEW s \in Requests
      PROVE  (req[s].at # "sweep" /\ PresentsItsCookie(s) /\ CarriesNewToken(s))'
  <2>1. CASE s = r
    BY <1>1, <1>2, <1>3, <1>4, <2>1 DEF PresentsItsCookie, CarriesNewToken
  <2>2. CASE s # r
    BY <1>1, <1>2, <1>3, <1>4, <2>2 DEF Kept, PresentsItsCookie, CarriesNewToken
  <2> QED BY <2>1, <2>2
<1> QED BY <1>5, <1>6, <1>7, <1>8 DEF Kept

\* A reply that arrives puts the new token, or nothing, in the place of the old.
LEMMA KeptArrival ==
    ASSUME TypeOK, Kept, NEW r \in Requests, Reply(r) \/ Clear(r) PROVE Kept'
<1> DEFINE b == req[r].browser
<1>1. /\ req \in [Requests -> Request] /\ jar \in [Browsers -> Tokens \cup {Null}]
      /\ req[r].at \in {"reply", "clear"}
      /\ req' = [req EXCEPT ![r] = Idle]
      /\ UNCHANGED <<live, family>>
  BY DEF TypeOK, Reply, Clear, Done, sessionVars
<1>2. Issued' = Issued /\ live \subseteq Issued
  BY <1>1 DEF Issued, TypeOK
<1>3. /\ req'[r].at = "idle" /\ req'[r].browser = Null
      /\ \A s \in Requests : s # r => req'[s] = req[s]
  BY <1>1 DEF Idle
<1>4. \A c \in Browsers : jar'[c] = jar[c] \/ (c = b /\ jar'[c] # jar[c])
  BY <1>1 DEF Reply, Clear
<1>5. b \in Browsers =>
         \/ req[r].at = "clear" /\ jar'[b] = Null
         \/ req[r].at = "reply" /\ jar'[b] = req[r].token
  BY <1>1 DEF Reply, Clear
<1>6. req[r].at = "reply" =>
         /\ req[r].token \in live
         /\ \A c \in Browsers : jar[c] # req[r].token
         /\ \A s \in Requests : req[s].at = "reply" /\ req[s].token = req[r].token => s = r
  BY DEF Kept, CarriesNewToken
<1>7. b \in Browsers => \A s \in Requests : s # r => req[s].browser # b
  BY AccountsAssumption DEF Kept, OneRequestEach
<1>8. OneRequestEach'
  BY <1>3 DEF Kept, OneRequestEach
<1>9. CookiesGood'
  <2> SUFFICES ASSUME NEW c \in Browsers, jar'[c] # Null
               PROVE  /\ jar'[c] \in Issued
                      /\ jar'[c] \in live \/ \E s \in Requests :
                                                req'[s].browser = c /\ Supersedes(req'[s])
    BY <1>1, <1>2 DEF CookiesGood
  <2>1. CASE c = b
    BY <1>2, <1>5, <1>6, <2>1
  <2>2. CASE c # b /\ jar[c] \in live
    BY <1>2, <1>4, <2>2
  <2>3. CASE c # b /\ jar[c] \notin live
    <3>1. jar'[c] = jar[c]
      BY <1>4, <2>3
    <3>2. jar[c] \in Issued
      BY <3>1 DEF Kept, CookiesGood
    <3>3. PICK s \in Requests : req[s].browser = c /\ Supersedes(req[s])
      BY <2>3, <3>1 DEF Kept, CookiesGood
    <3>4. req'[s] = req[s]
      BY <1>3, <2>3, <3>3
    <3> QED BY <3>1, <3>2, <3>3, <3>4
  <2> QED BY <2>1, <2>2, <2>3
<1>10. CookiesDistinct'
  BY <1>4, <1>5, <1>6 DEF Kept, CookiesDistinct
<1>11. ASSUME NEW s \in Requests
       PROVE  (req[s].at # "sweep" /\ PresentsItsCookie(s) /\ CarriesNewToken(s))'
  <2>1. CASE s = r
    BY <1>3, <2>1 DEF PresentsItsCookie, CarriesNewToken
  <2>2. CASE s # r
    <3>1. req'[s] = req[s]
      BY <1>3, <2>2
    <3>2. PresentsItsCookie(s)'
      BY <1>1, <1>4, <1>7, <2>2, <3>1 DEF Kept, PresentsItsCookie
    <3>3. \A u \in Requests : req'[u].at = "reply" => req'[u] = req[u]
      BY <1>3
    <3>4. CarriesNewToken(s)'
      <4> SUFFICES ASSUME req[s].at = "reply"
                   PROVE  /\ req[s].token \in live
                          /\ \A c \in Browsers : jar'[c] # req[s].token
                          /\ \A u \in Requests :
                                req'[u].at = "reply" /\ req'[u].token = req[s].token => u = s
        BY <1>1, <3>1 DEF CarriesNewToken
      <4>1. /\ req[s].token \in live
            /\ \A c \in Browsers : jar[c] # req[s].token
            /\ \A u \in Requests : req[u].at = "reply" /\ req[u].token = req[s].token => u = s
        BY DEF Kept, CarriesNewToken
      <4>2. req[s].token # Null
        BY <1>2, <4>1, AccountsAssumption DEF Issued
      <4>3. \A c \in Browsers : jar'[c] # req[s].token
        BY <1>4, <1>5, <2>2, <4>1, <4>2
      <4> QED BY <3>3, <4>1, <4>3
    <3> QED BY <3>1, <3>2, <3>4 DEF Kept
  <2> QED BY <2>1, <2>2
<1> QED BY <1>8, <1>9, <1>10, <1>11 DEF Kept

\* Requests that end without a reply leave their cookies live, or are counted.
LEMMA KeptGone ==
    ASSUME TypeOK, Kept, UNCHANGED <<live, family, jar>>,
           \A s \in Requests :
              req'[s] = req[s] \/ (req'[s] = Idle /\ ~Strands(s))
    PROVE  Kept'
<1>1. Issued' = Issued
  BY DEF Issued
<1>2. \A s \in Requests : req'[s] = req[s] \/ (req'[s].at = "idle" /\ req'[s].browser = Null)
  BY DEF Idle
<1>3. OneRequestEach'
  BY <1>2 DEF Kept, OneRequestEach
<1>4. CookiesGood'
  <2> SUFFICES ASSUME NEW b \in Browsers, jar[b] # Null
               PROVE  /\ jar[b] \in Issued
                      /\ jar[b] \in live \/ \E r \in Requests :
                                               req'[r].browser = b /\ Supersedes(req'[r])
    BY <1>1 DEF CookiesGood
  <2>1. CASE jar[b] \in live
    BY <2>1 DEF Kept, CookiesGood
  <2>2. CASE jar[b] \notin live
    <3>1. PICK r \in Requests : req[r].browser = b /\ Supersedes(req[r])
      BY <2>2 DEF Kept, CookiesGood
    <3>2. Strands(r)
      BY <2>2, <3>1, AccountsAssumption DEF Strands
    <3> QED BY <3>1, <3>2 DEF Kept, CookiesGood
  <2> QED BY <2>1, <2>2
<1>5. CookiesDistinct'
  BY DEF Kept, CookiesDistinct
<1>6. ASSUME NEW r \in Requests
      PROVE  (req[r].at # "sweep" /\ PresentsItsCookie(r) /\ CarriesNewToken(r))'
  BY <1>2 DEF Kept, PresentsItsCookie, CarriesNewToken
<1> QED BY <1>3, <1>4, <1>5, <1>6 DEF Kept

\* The bounds stay, and a browser that was stranded is not forgotten.
LEMMA InTurnStays ==
    ASSUME [Next]_vars
    PROVE  tabs' = tabs /\ (~stranded' => ~stranded)
<1>1. ASSUME NEW r \in Requests, Begin(r) PROVE UNCHANGED <<tabs, stranded>>
  BY <1>1 DEF Begin, BeginSignup, BeginLogin, BeginGoogle, BeginRefresh, BeginLogout, bounds
<1>4. ASSUME NEW r \in Requests, Mail(r) PROVE UNCHANGED <<tabs, stranded>>
  BY <1>4 DEF Mail, VerifyEmail, ResetPassword, Consume, bounds
<1>2. ASSUME NEW r \in Requests, Proceed(r) PROVE tabs' = tabs /\ (~stranded' => ~stranded)
  <2>1. CASE ReplyLost(r)
    BY <2>1 DEF ReplyLost, bounds
  <2>2. CASE ~ReplyLost(r)
    <3>1. UNCHANGED <<tabs, stranded>>
      BY <1>2, <2>2 DEF Proceed, CreateUser, MailVerification, FindByEmail, LinkGoogle, Enrol,
         Issue, Reply, Claim, CheckUser, Lookup, Sweep, Revoke, Clear, SetPassword, MarkVerified,
         RefreshFails, StatementFails, bounds
    <3> QED BY <3>1
  <2> QED BY <2>1, <2>2
<1>3. CASE \/ \E l \in Links : RequestPasswordReset(l) \/ ExpireLink(l)
           \/ \E t \in Tokens : ExpireToken(t)
           \/ Suspend \/ UNCHANGED vars
  <2>1. UNCHANGED <<tabs, stranded>>
    BY <1>3 DEF RequestPasswordReset, ExpireLink, ExpireToken, Suspend, vars, bounds
  <2> QED BY <2>1
<1>5. CASE Crash
  BY <1>5 DEF Crash, bounds
<1> QED BY <1>1, <1>2, <1>3, <1>4, <1>5 DEF Next

LEMMA KeptStep ==
    ASSUME TypeOK, TokensKept, [Next]_vars PROVE TokensKept'
<1> SUFFICES ASSUME (tabs = "one" /\ ~stranded)' PROVE Kept'
  BY DEF TokensKept, Kept
<1>1. tabs = "one" /\ ~stranded
  BY InTurnStays
<1>2. Kept
  BY <1>1 DEF TokensKept, Kept
<1>3. req \in [Requests -> Request]
  BY DEF TypeOK
<1>4. ASSUME NEW r \in Requests, Begin(r) PROVE Kept'
  <2>1. PICK b \in Browsers : \/ BeginSignup(r, b) \/ BeginLogin(r, b) \/ BeginGoogle(r, b)
                              \/ BeginRefresh(r, b) \/ BeginLogout(r, b)
    BY <1>4 DEF Begin
  <2>2. PICK at \in {"create", "issue", "email", "claim", "revoke"} :
           Send(r, b, at) /\ (at \in {"claim", "revoke"} => jar[b] # Null)
    BY <2>1 DEF BeginSignup, BeginLogin, BeginGoogle, BeginRefresh, BeginLogout
  <2>3. UNCHANGED <<live, family, jar>>
    BY <2>1 DEF BeginSignup, BeginLogin, BeginGoogle, BeginRefresh, BeginLogout, sessionVars
  <2> QED BY <1>1, <1>2, <2>2, <2>3, KeptSend
<1>5. ASSUME NEW r \in Requests, Proceed(r) PROVE Kept'
  <2>1. CASE Issue(r)
    BY <1>2, <2>1, KeptIssue
  <2>2. CASE Reply(r) \/ Clear(r)
    BY <1>2, <2>2, KeptArrival
  <2>3. CASE Revoke(r) \/ (Claim(r) /\ Claimable(req[r].token))
    <3>1. /\ req[r].at \in {"claim", "revoke"} /\ live' = live \ {req[r].token}
          /\ UNCHANGED <<family, jar>>
      BY <2>3 DEF Revoke, Claim
    <3>2. /\ req'[r].browser = req[r].browser /\ req'[r].at \in {"user", "clear"}
          /\ req'[r].at = "user" => req'[r].family = family[req[r].token] /\ req[r].token \in live
          /\ \A s \in Requests : s # r => req'[s] = req[s]
      BY <1>3, <2>3 DEF Revoke, Claim, Goto, Request, Claimable
    <3>3. Supersedes(req'[r])
      BY <3>2 DEF Supersedes, TypeOK, Issued
    <3> QED BY <1>2, <3>1, <3>2, <3>3, KeptTake
  <2>4. CASE Claim(r) /\ ~Claimable(req[r].token)
    <3>1. /\ req' = [req EXCEPT ![r].at = "lookup"] /\ req[r].at = "claim"
          /\ UNCHANGED <<live, family, jar>>
      BY <2>4 DEF Claim, Goto
    <3>2. /\ req'[r].at = "lookup" /\ req'[r].browser = req[r].browser
          /\ req'[r].token = req[r].token
          /\ \A s \in Requests : s # r => req'[s] = req[s]
      BY <1>3, <3>1 DEF Request
    <3>3. PresentsItsCookie(r)'
      BY <1>2, <3>1, <3>2 DEF Kept, PresentsItsCookie
    <3>4. ASSUME NEW s \in Requests
          PROVE  (req[s].at # "sweep" /\ PresentsItsCookie(s) /\ CarriesNewToken(s))'
      BY <1>2, <3>1, <3>2, <3>3 DEF Kept, PresentsItsCookie, CarriesNewToken
    <3>5. OneRequestEach' /\ CookiesDistinct'
      BY <1>2, <3>1, <3>2 DEF Kept, OneRequestEach, CookiesDistinct
    <3>6. CookiesGood'
      <4>1. \A s \in Requests : Supersedes(req[s]) => req'[s] = req[s]
        BY <3>1, <3>2 DEF Supersedes
      <4>2. Issued' = Issued
        BY <3>1 DEF Issued
      <4>3. ASSUME NEW b \in Browsers, jar[b] # Null
            PROVE  /\ jar[b] \in Issued
                   /\ jar[b] \in live \/ \E s \in Requests :
                                            req'[s].browser = b /\ Supersedes(req'[s])
        BY <1>2, <4>1, <4>3 DEF Kept, CookiesGood
      <4> QED BY <3>1, <4>2, <4>3 DEF CookiesGood
    <3> QED BY <3>4, <3>5, <3>6 DEF Kept
  <2>5. CASE Sweep(r)
    BY <1>2, <2>5 DEF Sweep, Kept
  <2>6. CASE CheckUser(r) \/ Lookup(r) \/ RefreshFails(r)
    <3>1. UNCHANGED <<live, family, jar>>
      BY <2>6 DEF CheckUser, Lookup, RefreshFails, sessionVars
    <3>2. req[r].at = "lookup" => Reused(req[r].token) = FALSE
      BY <1>2 DEF Kept, PresentsItsCookie, Reused
    <3>3. PICK at \in {"clear", "issue"} :
             Goto(r, at) /\ (at = "clear" \/ req[r].at = "user")
      BY <2>6, <3>2 DEF CheckUser, Lookup, RefreshFails
    <3>4. /\ req'[r].at = at /\ req'[r].browser = req[r].browser /\ req'[r].family = req[r].family
          /\ \A s \in Requests : s # r => req'[s] = req[s]
      BY <1>3, <3>3 DEF Goto, Request
    <3>5. Supersedes(req[r]) => Supersedes(req'[r])
      BY <3>3, <3>4 DEF Supersedes
    <3> QED BY <1>2, <3>1, <3>3, <3>4, <3>5, KeptQuiet
  <2>7. CASE \/ CreateUser(r) \/ (\E l \in Links : MailVerification(r, l)) \/ FindByEmail(r)
             \/ LinkGoogle(r) \/ Enrol(r) \/ SetPassword(r) \/ MarkVerified(r)
    <3>1. UNCHANGED <<live, family, jar>>
      BY <2>7 DEF CreateUser, MailVerification, FindByEmail, LinkGoogle, Enrol, SetPassword,
                  MarkVerified, sessionVars
    <3>2. ~Supersedes(req[r])
      BY <2>7 DEF CreateUser, MailVerification, FindByEmail, LinkGoogle, Enrol, SetPassword,
                  MarkVerified, Supersedes
    <3>3. Done(r) \/ \E at \in {"mail", "link", "enrol", "issue", "verify"} : Goto(r, at)
      BY <2>7 DEF CreateUser, MailVerification, FindByEmail, LinkGoogle, Enrol, SetPassword,
                  MarkVerified
    <3>4. CASE Done(r)
      BY <1>2, <1>3, <3>1, <3>2, <3>4, KeptQuiet DEF Done, Idle
    <3>5. ASSUME NEW at \in {"mail", "link", "enrol", "issue", "verify"}, Goto(r, at) PROVE Kept'
      BY <1>2, <1>3, <3>1, <3>2, <3>5, KeptQuiet DEF Goto, Request
    <3> QED BY <3>3, <3>4, <3>5
  <2>8. CASE StatementFails(r)
    <3>1. UNCHANGED <<live, family, jar>> /\ Done(r)
      BY <2>8 DEF StatementFails, sessionVars
    <3>2. ~Supersedes(req[r])
      BY <2>8 DEF StatementFails, Supersedes
    <3> QED BY <1>2, <1>3, <3>1, <3>2, KeptQuiet DEF Done, Idle
  <2>9. CASE ReplyLost(r)
    <3>1. UNCHANGED <<live, family, jar>> /\ Done(r) /\ ~Strands(r)
      BY <2>9 DEF ReplyLost, sessionVars
    <3> QED BY <1>2, <1>3, <3>1, KeptGone DEF Done
  <2> QED BY <1>1, <1>5, <2>1, <2>2, <2>3, <2>4, <2>5, <2>6, <2>7, <2>8, <2>9 DEF Proceed
<1>6. ASSUME NEW r \in Requests, Mail(r) PROVE Kept'
  <2>1. PICK l \in Links, purpose \in {"verify_email", "reset_password"},
             at \in {"verify", "password"} : Consume(r, l, purpose, at)
    BY <1>6 DEF Mail, VerifyEmail, ResetPassword
  <2>2. /\ UNCHANGED <<live, family, jar>> /\ req[r].at = "idle"
        /\ req'[r].at = at /\ req'[r].browser = Null
        /\ \A s \in Requests : s # r => req'[s] = req[s]
    BY <1>3, <2>1 DEF Consume, Idle, sessionVars
  <2> QED BY <1>2, <2>2, KeptQuiet DEF Supersedes
<1>7. CASE \/ \E l \in Links : RequestPasswordReset(l) \/ ExpireLink(l)
           \/ \E t \in Tokens : ExpireToken(t)
           \/ Suspend \/ UNCHANGED vars
  <2>1. UNCHANGED <<live, family, jar, req>>
    BY <1>7 DEF RequestPasswordReset, ExpireLink, ExpireToken, Suspend, vars, sessionVars
  <2> QED BY <1>2, <2>1, KeptQuiet
<1>8. CASE Crash
  <2>1. UNCHANGED <<live, family, jar>> /\ \A s \in Requests : ~Strands(s)
    BY <1>8 DEF Crash, sessionVars
  <2>2. \A s \in Requests : req'[s] = Idle
    BY <1>8 DEF Crash
  <2> QED BY <1>2, <2>1, <2>2, KeptGone
<1> QED BY <1>1, <1>4, <1>5, <1>6, <1>7, <1>8 DEF Next

\* Whoever is signed in has a cookie, and no reply on its way that clears it.
LEMMA SignedStep ==
    ASSUME TypeOK, TokensKept, SignedHoldCookies, [Next]_vars PROVE SignedHoldCookies'
<1> DEFINE Holds == /\ \A b \in signed : jar[b] # Null
                    /\ \A r \in Requests : req[r].at = "clear" => req[r].browser \notin signed
<1> SUFFICES ASSUME (tabs = "one" /\ ~stranded)' PROVE Holds'
  BY DEF SignedHoldCookies
<1>1. tabs = "one" /\ ~stranded
  BY InTurnStays
<1>2. Kept /\ Holds
  BY <1>1 DEF TokensKept, Kept, SignedHoldCookies
<1>3. req \in [Requests -> Request] /\ jar \in [Browsers -> Tokens \cup {Null}]
      /\ signed \subseteq Browsers
  BY DEF TypeOK
<1>4. ASSUME NEW r \in Requests, UNCHANGED jar, signed' \subseteq signed,
             \A s \in Requests : s # r => req'[s] = req[s],
             req'[r].at = "clear" => req'[r].browser \notin signed'
      PROVE  Holds'
  BY <1>2, <1>4
<1>5. ASSUME NEW r \in Requests, Begin(r) \/ Mail(r) PROVE Holds'
  <2>1. ASSUME NEW q, req' = [req EXCEPT ![r] = q], q.at # "clear", UNCHANGED <<jar, signed>>
        PROVE  Holds'
    BY <1>3, <1>4, <2>1
  <2>2. CASE Begin(r)
    <3>1. PICK b \in Browsers, at \in {"create", "issue", "email", "claim", "revoke"} :
             Send(r, b, at) /\ UNCHANGED <<jar, signed>>
      BY <2>2 DEF Begin, BeginSignup, BeginLogin, BeginGoogle, BeginRefresh, BeginLogout
    <3> DEFINE q == [Idle EXCEPT !.at = at, !.browser = b, !.token = jar[b],
                                !.barred = user.suspended]
    <3>2. req' = [req EXCEPT ![r] = q] /\ q.at # "clear"
      BY <3>1 DEF Send, Idle
    <3> HIDE DEF q
    <3> QED BY <2>1, <3>1, <3>2
  <2>3. CASE Mail(r)
    <3>1. PICK l \in Links, at \in {"verify", "password"} :
             /\ req' = [req EXCEPT ![r] = [Idle EXCEPT !.at = at, !.link = l]]
             /\ UNCHANGED <<jar, signed>>
      BY <2>3 DEF Mail, VerifyEmail, ResetPassword, Consume
    <3> DEFINE q == [Idle EXCEPT !.at = at, !.link = l]
    <3>2. req' = [req EXCEPT ![r] = q] /\ q.at # "clear"
      BY <3>1 DEF Idle
    <3> HIDE DEF q
    <3> QED BY <2>1, <3>1, <3>2
  <2> QED BY <1>5, <2>2, <2>3
<1>6. ASSUME NEW r \in Requests, Proceed(r) PROVE Holds'
  <2>1. CASE Reply(r)
    <3>1. /\ req[r].at = "reply" /\ req' = [req EXCEPT ![r] = Idle]
          /\ jar' = [jar EXCEPT ![req[r].browser] = req[r].token]
          /\ signed' = {b \in Browsers : b \in signed \/ b = req[r].browser}
      BY <2>1 DEF Reply, Done
    <3>2. req[r].token # Null
      BY <1>2, <3>1, AccountsAssumption DEF Kept, CarriesNewToken, TypeOK, Issued
    <3>3. \A b \in signed' : jar'[b] # Null
      BY <1>2, <1>3, <3>1, <3>2
    <3>4. ASSUME NEW s \in Requests, req'[s].at = "clear" PROVE req'[s].browser \notin signed'
      <4>1. s # r /\ req'[s] = req[s]
        BY <1>3, <3>1, <3>4 DEF Idle
      <4>2. req[s].browser \notin signed
        BY <1>2, <3>4, <4>1
      <4>3. req[s].browser \in Browsers => req[s].browser # req[r].browser
        BY <1>2, <4>1, AccountsAssumption DEF Kept, OneRequestEach
      <4> QED BY <3>1, <4>1, <4>2, <4>3
    <3> QED BY <3>3, <3>4
  <2>2. CASE Clear(r)
    <3>1. /\ req[r].at = "clear" /\ req' = [req EXCEPT ![r] = Idle] /\ signed' = signed
          /\ jar' = [jar EXCEPT ![req[r].browser] = Null]
      BY <2>2 DEF Clear, Done
    <3>2. req[r].browser \notin signed
      BY <1>2, <3>1
    <3> QED BY <1>2, <1>3, <3>1, <3>2 DEF Idle
  <2>3. CASE Sweep(r)
    BY <1>2, <2>3 DEF Sweep, Kept
  <2>4. CASE CheckUser(r) \/ Lookup(r) \/ Revoke(r) \/ RefreshFails(r)
    <3>1. PICK at \in {"clear", "issue", "sweep"} :
             /\ Goto(r, at) /\ jar' = jar
             /\ at = "clear" => signed' = signed \ {req[r].browser}
             /\ signed' \subseteq signed
      BY <2>4 DEF CheckUser, Lookup, Revoke, RefreshFails
    <3>2. /\ req'[r].at = at /\ req'[r].browser = req[r].browser
          /\ \A s \in Requests : s # r => req'[s] = req[s]
      BY <1>3, <3>1 DEF Goto, Request
    <3> QED BY <1>4, <3>1, <3>2
  <2>5. CASE Claim(r)
    <3>1. UNCHANGED <<jar, signed>>
      BY <2>5 DEF Claim
    <3>2. /\ req'[r].at # "clear"
          /\ \A s \in Requests : s # r => req'[s] = req[s]
      BY <1>3, <2>5 DEF Claim, Goto, Request
    <3> QED BY <1>4, <3>1, <3>2
  <2>6. CASE Issue(r)
    <3>1. UNCHANGED <<jar, signed>>
      BY <2>6 DEF Issue
    <3>2. /\ req'[r].at # "clear"
          /\ \A s \in Requests : s # r => req'[s] = req[s]
      BY <1>3, <2>6 DEF Issue, Request
    <3> QED BY <1>4, <3>1, <3>2
  <2>7. CASE \/ CreateUser(r) \/ (\E l \in Links : MailVerification(r, l)) \/ FindByEmail(r)
             \/ LinkGoogle(r) \/ Enrol(r) \/ SetPassword(r) \/ MarkVerified(r)
             \/ StatementFails(r) \/ ReplyLost(r)
    <3>1. UNCHANGED <<jar, signed>>
      BY <2>7 DEF CreateUser, MailVerification, FindByEmail, LinkGoogle, Enrol, SetPassword,
                  MarkVerified, StatementFails, ReplyLost
    <3>2. Done(r) \/ \E at \in {"mail", "link", "enrol", "issue", "verify"} : Goto(r, at)
      BY <2>7 DEF CreateUser, MailVerification, FindByEmail, LinkGoogle, Enrol, SetPassword,
                  MarkVerified, StatementFails, ReplyLost
    <3>3. /\ req'[r].at # "clear"
          /\ \A s \in Requests : s # r => req'[s] = req[s]
      BY <1>3, <3>2 DEF Done, Idle, Goto, Request
    <3> QED BY <1>4, <3>1, <3>3
  <2> QED BY <1>6, <2>1, <2>2, <2>3, <2>4, <2>5, <2>6, <2>7 DEF Proceed
<1>7. CASE \/ \E l \in Links : RequestPasswordReset(l) \/ ExpireLink(l)
           \/ \E t \in Tokens : ExpireToken(t)
           \/ Suspend \/ UNCHANGED vars
  <2>1. UNCHANGED <<jar, signed, req>>
    BY <1>7 DEF RequestPasswordReset, ExpireLink, ExpireToken, Suspend, vars
  <2> QED BY <1>2, <2>1
<1>8. CASE Crash
  <2>1. UNCHANGED <<jar, signed>> /\ \A s \in Requests : req'[s].at # "clear"
    BY <1>8 DEF Crash, Idle
  <2> QED BY <1>2, <2>1
<1> QED BY <1>5, <1>6, <1>7, <1>8 DEF Next

\* In a browser that sends one request at a time, nobody is signed out by a refresh
\* of another browser, nor by one of his own that did not fail: findRefreshToken
\* finds no revoked token unless one was left in a cookie by a reply that was lost.
THEOREM NobodySignedOut == Spec => []NoSpuriousSignOut
<1>1. Init => TokensKept /\ SignedHoldCookies
  BY DEF Init, TokensKept, OneRequestEach, CookiesGood, CookiesDistinct, PresentsItsCookie,
         CarriesNewToken, SignedHoldCookies, Idle
<1>2. IndInv /\ TokensKept /\ SignedHoldCookies /\ [Next]_vars
         => TokensKept' /\ SignedHoldCookies'
  BY KeptStep, SignedStep DEF IndInv
<1>3. IndInv /\ TokensKept /\ SignedHoldCookies => NoSpuriousSignOut
  <2>1. IndInv => signed \subseteq Browsers
    BY DEF IndInv, TypeOK
  <2> QED BY <2>1 DEF TokensKept, SignedHoldCookies, NoSpuriousSignOut, CookiesGood, Free
<1> QED BY <1>1, <1>2, <1>3, Invariant, PTL DEF Spec
=============================================================================

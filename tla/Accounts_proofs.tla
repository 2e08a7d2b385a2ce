-------------------------- MODULE Accounts_proofs ---------------------------
(* Proofs about the ways into an account and the pictures in it, for any      *)
(* secrets, grants, sessions, images and requests in progress: SignIn first,  *)
(* then McpOAuth, then Pictures.                                              *)
EXTENDS SignIn, McpOAuth, Pictures, FiniteSetTheorems, TLAPS

-----------------------------------------------------------------------------
(* SignIn.  The argument: whatever a request read before it hashed or waited, *)
(* its transaction reads again under the lock of the user row.  So wrong      *)
(* answers are counted on the challenge they are given to (CodesInv), and a   *)
(* grant that was replaced or spent sets no password (GrantsInv).             *)

\* The attempts on a row are the wrong answers to its challenge, and only an
\* unanswered challenge below the limit is live.
CodesInv ==
  \A t \in Purposes :
    /\ answers[t].wrong = code[t].wrong
    /\ answers[t].wrong <= MaxAttempts /\ answers[t].right <= 1
    /\ code[t].state = "live" => answers[t].right = 0 /\ answers[t].wrong < MaxAttempts
    /\ answers[t].right = 1 => answers[t].wrong < MaxAttempts

\* A grant nobody was given has set no password.
GrantsInv ==
  /\ ResetsByOneGrant
  /\ \A g \in ResetGrants : resetGrant[g] = "none" => resets[g] = 0

SignInIInv == SignInTypeOK /\ SessionsAreCurrent /\ CodesInv /\ GrantsInv

\* What a request in progress holds, by what it asks for.
LEMMA PendingRows ==
  ASSUME SignInTypeOK, NEW r \in Visitors
  PROVE  /\ Is(r, "issue") => pending[r].type \in Purposes /\ pending[r].known \in BOOLEAN
         /\ Is(r, "consume") => pending[r].type \in Purposes /\ pending[r].saved \in Challenges
         /\ Is(r, "reset") => pending[r].grant \in ResetGrants /\ pending[r].secret \in Secrets
         /\ Is(r, "open") => pending[r].hash \in Hashes
<1>. pending[r] \in Rows
  BY DEF SignInTypeOK
<1>. QED
  BY DEF Rows, Is, Nothing

LEMMA RowKept ==
  ASSUME SignInTypeOK, NEW r \in Visitors, NEW row \in Rows, Goes(r, row) \/ Arrives(r, row)
  PROVE  pending' \in [Visitors -> Rows]
BY DEF SignInTypeOK, Goes, Arrives

LEMMA DoneKept ==
  ASSUME SignInTypeOK, NEW r \in Visitors, Done(r)
  PROVE  pending' \in [Visitors -> Rows]
BY DEF SignInTypeOK, Goes, Done, Rows

\* A challenge that is live is the row of its type.
LEMMA LiveChallenge ==
  ASSUME SignInTypeOK, NEW r \in Visitors, Is(r, "consume"), Challenge(r).state = "live"
  PROVE  /\ pending[r].type \in Purposes
         /\ Challenge(r) = code[pending[r].type]
         /\ code[pending[r].type] \in Challenges
<1>1. pending[r].type \in Purposes
  BY PendingRows
<1>. QED
  BY <1>1 DEF Challenge, NoCode, SignInTypeOK

LEMMA SpentFacts ==
  ASSUME SignInTypeOK
  PROVE  /\ Spent(resetGrant) \in [ResetGrants -> {"none", "over"}]
         /\ \A g \in ResetGrants : Spent(resetGrant)[g] = "none" => resetGrant[g] = "none"
BY DEF Spent, SignInTypeOK

LEMMA ConsumedFacts ==
  ASSUME SignInTypeOK
  PROVE  /\ Consumed(code) \in [Purposes -> Challenges]
         /\ \A t \in Purposes : /\ Consumed(code)[t].wrong = code[t].wrong
                                /\ Consumed(code)[t].state = "live" => code[t].state = "live"
BY DEF Consumed, SignInTypeOK, Challenges

LEMMA UsedFacts ==
  ASSUME SignInTypeOK, NEW type \in Purposes
  PROVE  /\ Used(type) \in [Purposes -> Challenges]
         /\ Used(type)[type].state = "over"
         /\ \A t \in Purposes : /\ Used(type)[t].wrong = code[t].wrong
                                /\ t # type => Used(type)[t] = code[t]
BY DEF Used, SignInTypeOK, Challenges

-----------------------------------------------------------------------------
LEMMA VisitTypes ==
  ASSUME SignInTypeOK, NEW r \in Visitors, Visit(r)
  PROVE  SignInTypeOK'
<1>1. ASSUME NEW t \in Purposes, AskForCode(r, t)
      PROVE  SignInTypeOK'
  <2>1. [op |-> "issue", type |-> t, known |-> standing # "none"] \in Rows
    BY DEF Rows
  <2>. QED
    BY <1>1, <2>1, RowKept DEF AskForCode, SignInTypeOK, accountVars, proofVars, historyVars
<1>2. ASSUME NEW t \in Purposes, EnterCode(r, t)
      PROVE  SignInTypeOK'
  <2>1. [op |-> "consume", type |-> t, saved |-> code[t]] \in Rows
    BY DEF Rows, SignInTypeOK
  <2>. QED
    BY <1>2, <2>1, RowKept DEF EnterCode, SignInTypeOK, accountVars, proofVars, historyVars
<1>3. ASSUME NEW s \in Secrets, Register(r, s)
      PROVE  SignInTypeOK'
  <2>1. [op |-> "issue", type |-> "EMAIL_VERIFICATION", known |-> TRUE] \in Rows
    BY DEF Rows, Purposes
  <2>2. Hash(s, FALSE) \in Hashes
    BY DEF Hash, Hashes
  <2>. QED
    BY <1>3, <2>1, <2>2, RowKept DEF Register, SignInTypeOK, proofVars, historyVars
<1>4. ASSUME NEW s \in Secrets, NEW g \in ResetGrants, BeginReset(r, g, s)
      PROVE  SignInTypeOK'
  <2>1. [op |-> "reset", grant |-> g, secret |-> s] \in Rows
    BY DEF Rows
  <2>. QED
    BY <1>4, <2>1, RowKept DEF BeginReset, SignInTypeOK, accountVars, proofVars, historyVars
<1>5. CASE Login(r)
  <2>1. [op |-> "open", hash |-> password] \in Rows
    BY DEF Rows, SignInTypeOK
  <2>. QED
    BY <1>5, <2>1, RowKept DEF Login, SignInTypeOK, accountVars, proofVars, historyVars
<1>6. CASE GoogleCallback(r)
  <2>1. [op |-> "open", hash |-> NoHash] \in Rows
    BY DEF Rows, NoHash, Hash, Hashes
  <2>2. pending' \in [Visitors -> Rows]
    BY <1>6, <2>1, RowKept DEF GoogleCallback
  <2>. QED
    BY <1>6, <2>2 DEF GoogleCallback, SignInTypeOK, proofVars, historyVars
<1>7. CASE BeginLink(r)
  <2>1. [op |-> "link"] \in Rows
    BY DEF Rows
  <2>. QED
    BY <1>7, <2>1, RowKept DEF BeginLink, SignInTypeOK, accountVars, proofVars, historyVars
<1>. QED
  BY <1>1, <1>2, <1>3, <1>4, <1>5, <1>6, <1>7 DEF Visit

LEMMA ContinueTypes ==
  ASSUME SignInTypeOK, NEW r \in Visitors, Continue(r)
  PROVE  SignInTypeOK'
<1>1. CASE Issue(r)
  <2>1. pending[r].type \in Purposes
    BY <1>1, PendingRows DEF Issue
  <2>2. code' \in [Purposes -> Challenges]
    BY <1>1, <2>1 DEF Issue, SignInTypeOK, Challenges
  <2>3. answers' \in [Purposes -> [wrong : Nat, right : Nat]]
    BY <1>1, <2>1 DEF Issue, SignInTypeOK, NoAnswers
  <2>. QED
    BY <1>1, <2>2, <2>3, DoneKept DEF Issue, SignInTypeOK, accountVars
<1>2. CASE WrongCode(r)
  <2>1. /\ pending[r].type \in Purposes
        /\ Challenge(r) = code[pending[r].type] /\ Challenge(r) \in Challenges
    BY <1>2, LiveChallenge DEF WrongCode
  <2>. DEFINE wrong == Challenge(r).wrong + 1
              row == [Challenge(r) EXCEPT !.wrong = wrong,
                                          !.state = IF wrong >= MaxAttempts THEN "over" ELSE "live"]
  <2>2. row \in Challenges /\ code' = [code EXCEPT ![pending[r].type] = row]
    <3>1. code' = [code EXCEPT ![pending[r].type] = row]
      BY <1>2 DEF WrongCode
    <3>2. wrong \in Nat
      BY <2>1 DEF Challenges
    <3>3. row \in Challenges
      BY <2>1, <3>2 DEF Challenges
    <3>. QED
      BY <3>1, <3>3
  <2>4. code' \in [Purposes -> Challenges]
    BY <2>1, <2>2 DEF SignInTypeOK
  <2>3. answers' \in [Purposes -> [wrong : Nat, right : Nat]]
    BY <1>2, <2>1 DEF WrongCode, SignInTypeOK
  <2>. QED
    BY <1>2, <2>3, <2>4, DoneKept DEF WrongCode, SignInTypeOK, accountVars
<1>3. ASSUME NEW t \in Purposes, Accepts(r, t)
      PROVE  answers' \in [Purposes -> [wrong : Nat, right : Nat]]
  BY <1>3 DEF Accepts, SignInTypeOK
<1>4. CASE ConfirmEmail(r)
  <2>1. [op |-> "open", hash |-> NoHash] \in Rows
    BY DEF Rows, NoHash, Hash, Hashes
  <2>2. pending' \in [Visitors -> Rows]
    BY <1>4, <2>1, RowKept DEF ConfirmEmail
  <2>3. /\ code' \in [Purposes -> Challenges]
        /\ answers' \in [Purposes -> [wrong : Nat, right : Nat]]
    BY <1>3, <1>4, UsedFacts DEF ConfirmEmail, Purposes
  <2>. QED
    BY <1>4, <2>2, <2>3 DEF ConfirmEmail, SignInTypeOK
<1>5. ASSUME NEW g \in ResetGrants, VerifyPasswordOtp(r, g)
      PROVE  SignInTypeOK'
  <2>1. /\ code' \in [Purposes -> Challenges]
        /\ answers' \in [Purposes -> [wrong : Nat, right : Nat]]
    BY <1>3, <1>5, UsedFacts DEF VerifyPasswordOtp, Purposes
  <2>2. resetGrant' \in [ResetGrants -> {"none", "live", "over"}]
    BY <1>5, SpentFacts DEF VerifyPasswordOtp
  <2>. QED
    BY <1>5, <2>1, <2>2, DoneKept DEF VerifyPasswordOtp, SignInTypeOK, accountVars
<1>6. CASE Close(r)
  <2>1. /\ code' \in [Purposes -> Challenges]
        /\ answers' \in [Purposes -> [wrong : Nat, right : Nat]]
    BY <1>3, <1>6, ConsumedFacts DEF Close, Purposes
  <2>2. resetGrant' \in [ResetGrants -> {"none", "live", "over"}]
    BY <1>6, SpentFacts DEF Close
  <2>. QED
    BY <1>6, <2>1, <2>2, DoneKept DEF Close, SignInTypeOK
<1>7. CASE ResetPassword(r)
  <2>1. pending[r].grant \in ResetGrants /\ Hash(pending[r].secret, FALSE) \in Hashes
    BY <1>7, PendingRows DEF ResetPassword, Hash, Hashes
  <2>2. code' \in [Purposes -> Challenges]
    BY <1>7 DEF ResetPassword, SignInTypeOK, Challenges, Purposes
  <2>3. resetGrant' \in [ResetGrants -> {"none", "live", "over"}]
    BY <1>7, SpentFacts DEF ResetPassword
  <2>4. resets' \in [ResetGrants -> Nat]
    BY <1>7, <2>1 DEF ResetPassword, SignInTypeOK
  <2>. QED
    BY <1>7, <2>1, <2>2, <2>3, <2>4, DoneKept DEF ResetPassword, SignInTypeOK
<1>8. CASE OpenSession(r)
  <2>1. pending[r].hash \in Hashes
    BY <1>8, PendingRows DEF OpenSession
  <2>2. password' \in Hashes /\ signedIn' \subseteq Secrets \cup {None}
    BY <1>8, <2>1 DEF OpenSession, SignInTypeOK, Hash, Hashes
  <2>. QED
    BY <1>8, <2>2, DoneKept DEF OpenSession, SignInTypeOK, historyVars
<1>9. CASE Link(r)
  BY <1>9, DoneKept DEF Link, SignInTypeOK, proofVars, historyVars
<1>10. CASE Drop(r)
  BY <1>10, DoneKept DEF Drop, SignInTypeOK, accountVars, proofVars, historyVars
<1>. QED
  BY <1>1, <1>2, <1>4, <1>5, <1>6, <1>7, <1>8, <1>9, <1>10 DEF Continue

LEMMA SignInTypes ==
  ASSUME SignInTypeOK, SignInNext
  PROVE  SignInTypeOK'
<1>1. CASE SignOut \/ UnlockAccount
  BY <1>1 DEF SignOut, UnlockAccount, SignInTypeOK, accountVars, proofVars, historyVars
<1>2. CASE LockAccount
  BY <1>2, ConsumedFacts, SpentFacts DEF LockAccount, SignInTypeOK, historyVars
<1>3. CASE Expires
  <2>1. ASSUME NEW t \in Purposes, code' = Used(t), UNCHANGED resetGrant
        PROVE  SignInTypeOK'
    BY <1>3, <2>1, UsedFacts DEF Expires, SignInTypeOK, accountVars, historyVars
  <2>2. ASSUME NEW g \in ResetGrants, resetGrant' = [resetGrant EXCEPT ![g] = "over"], UNCHANGED code
        PROVE  SignInTypeOK'
    BY <1>3, <2>2 DEF Expires, SignInTypeOK, accountVars, historyVars
  <2>. QED
    BY <1>3, <2>1, <2>2 DEF Expires
<1>. QED
  BY <1>1, <1>2, <1>3, VisitTypes, ContinueTypes DEF SignInNext

-----------------------------------------------------------------------------
\* Whoever leaves the account without sessions leaves none to be stale.
LEMMA SessionsKept ==
  ASSUME SignInTypeOK, SessionsAreCurrent, SignInNext
  PROVE  SessionsAreCurrent'
<1>1. ASSUME NEW r \in Visitors, Visit(r)
      PROVE  SessionsAreCurrent'
  <2>1. \/ UNCHANGED <<standing, password, signedIn>>
        \/ standing = "none" /\ signedIn' = signedIn
    BY <1>1 DEF Visit, AskForCode, EnterCode, Register, BeginReset, Login, GoogleCallback,
                BeginLink, accountVars, proofVars
  <2>. QED
    BY <2>1 DEF SessionsAreCurrent
<1>2. ASSUME NEW r \in Visitors, OpenSession(r)
      PROVE  SessionsAreCurrent'
  <2>1. pending[r].hash \in Hashes /\ password \in Hashes
    BY <1>2, PendingRows DEF OpenSession, SignInTypeOK
  <2>2. password'.secret = password.secret
    BY <1>2, <2>1 DEF OpenSession, Current, NoHash, Hash, Hashes
  <2>3. pending[r].hash.secret \in {None, password.secret}
    BY <1>2 DEF OpenSession, Current, NoHash, Hash
  <2>. QED
    BY <1>2, <2>2, <2>3 DEF OpenSession, SessionsAreCurrent
<1>3. ASSUME NEW r \in Visitors, Continue(r), ~OpenSession(r)
      PROVE  SessionsAreCurrent'
  <2>1. UNCHANGED <<standing, password, signedIn>> \/ signedIn' = {}
    BY <1>3 DEF Continue, Issue, WrongCode, ConfirmEmail, VerifyPasswordOtp, Close,
                ResetPassword, Link, Drop, accountVars, proofVars
  <2>. QED
    BY <2>1 DEF SessionsAreCurrent
<1>4. CASE SignOut \/ LockAccount \/ UnlockAccount \/ Expires
  BY <1>4 DEF SignOut, LockAccount, UnlockAccount, Expires, accountVars, proofVars,
              SessionsAreCurrent
<1>. QED
  BY <1>1, <1>2, <1>3, <1>4 DEF SignInNext

LEMMA CodesKept ==
  ASSUME SignInTypeOK, CodesInv, SignInNext
  PROVE  CodesInv'
<1>. USE SignInAssumption
<1>1. ASSUME UNCHANGED answers,
             \A t \in Purposes : /\ code'[t].wrong = code[t].wrong
                                 /\ code'[t].state = "live" => code[t].state = "live"
      PROVE  CodesInv'
  BY <1>1 DEF CodesInv
<1>2. ASSUME NEW r \in Visitors, Visit(r)
      PROVE  CodesInv'
  <2>1. UNCHANGED <<code, answers>>
    BY <1>2 DEF Visit, AskForCode, EnterCode, Register, BeginReset, Login, GoogleCallback,
                BeginLink, proofVars, historyVars
  <2>. QED
    BY <1>1, <2>1
<1>3. ASSUME NEW r \in Visitors, Issue(r)
      PROVE  CodesInv'
  <2>1. pending[r].type \in Purposes
    BY <1>3, PendingRows DEF Issue
  <2>. QED
    BY <1>3, <2>1 DEF Issue, CodesInv, SignInTypeOK, NoAnswers
<1>4. ASSUME NEW r \in Visitors, WrongCode(r)
      PROVE  CodesInv'
  <2>. DEFINE type == pending[r].type
  <2>1. /\ type \in Purposes /\ code[type] \in Challenges /\ answers[type] \in [wrong : Nat, right : Nat]
        /\ Challenge(r) = code[type] /\ code[type].state = "live"
    BY <1>4, LiveChallenge DEF WrongCode, SignInTypeOK
  <2>2. /\ code'[type].wrong = code[type].wrong + 1
        /\ code'[type].state = "live" => code[type].wrong + 1 < MaxAttempts
        /\ answers'[type].wrong = answers[type].wrong + 1
        /\ answers'[type].right = answers[type].right
    BY <1>4, <2>1 DEF WrongCode, SignInTypeOK, Challenges
  <2>3. \A t \in Purposes \ {type} : code'[t] = code[t] /\ answers'[t] = answers[t]
    BY <1>4, <2>1 DEF WrongCode, SignInTypeOK
  <2>4. /\ answers[type].right = 0 /\ answers[type].wrong < MaxAttempts
        /\ answers[type].wrong = code[type].wrong
    BY <2>1 DEF CodesInv
  <2>. QED
    BY <2>1, <2>2, <2>3, <2>4 DEF CodesInv
<1>5. ASSUME NEW r \in Visitors, NEW t \in Purposes, Accepts(r, t),
             code'[t].wrong = code[t].wrong, code'[t].state # "live",
             \A s \in Purposes : /\ code'[s].wrong = code[s].wrong
                                 /\ code'[s].state = "live" => code[s].state = "live"
      PROVE  CodesInv'
  <2>1. code[t].state = "live"
    BY <1>5, LiveChallenge DEF Accepts
  <2>2. /\ answers'[t].wrong = answers[t].wrong /\ answers'[t].right = answers[t].right + 1
        /\ \A s \in Purposes \ {t} : answers'[s] = answers[s]
    BY <1>5 DEF Accepts, SignInTypeOK
  <2>. QED
    BY <1>5, <2>1, <2>2 DEF CodesInv, SignInTypeOK
<1>6. ASSUME NEW r \in Visitors, ConfirmEmail(r) \/ \E g \in ResetGrants : VerifyPasswordOtp(r, g)
      PROVE  CodesInv'
  <2>1. PICK t \in Purposes : Accepts(r, t) /\ code' = Used(t)
    BY <1>6 DEF ConfirmEmail, VerifyPasswordOtp, Purposes
  <2>. QED
    BY <1>5, <2>1, UsedFacts
<1>7. ASSUME NEW r \in Visitors, Close(r)
      PROVE  CodesInv'
  <2>1. Accepts(r, "ACCOUNT_CLOSURE") /\ code' = Consumed(code)
    BY <1>7 DEF Close
  <2>2. code["ACCOUNT_CLOSURE"].mine
    BY <2>1, LiveChallenge DEF Accepts
  <2>3. code'["ACCOUNT_CLOSURE"].state = "over"
    BY <2>1, <2>2 DEF Consumed, SignInTypeOK, Purposes, Challenges
  <2>. QED
    BY <1>5, <2>1, <2>3, ConsumedFacts DEF Purposes
<1>8. ASSUME NEW r \in Visitors, ResetPassword(r)
      PROVE  CodesInv'
  BY <1>1, <1>8 DEF ResetPassword, SignInTypeOK, Purposes
<1>9. ASSUME NEW r \in Visitors, OpenSession(r) \/ Link(r) \/ Drop(r)
      PROVE  CodesInv'
  <2>1. UNCHANGED <<code, answers>>
    BY <1>9 DEF OpenSession, Link, Drop, proofVars, historyVars
  <2>. QED
    BY <1>1, <2>1
<1>10. CASE SignOut \/ UnlockAccount
  <2>1. UNCHANGED <<code, answers>>
    BY <1>10 DEF SignOut, UnlockAccount, proofVars, historyVars
  <2>. QED
    BY <1>1, <2>1
<1>11. CASE LockAccount
  BY <1>1, <1>11, ConsumedFacts DEF LockAccount, historyVars
<1>12. CASE Expires
  <2>1. UNCHANGED answers /\ (UNCHANGED code \/ \E t \in Purposes : code' = Used(t))
    BY <1>12 DEF Expires, historyVars
  <2>2. CASE UNCHANGED code
    BY <1>1, <2>1, <2>2
  <2>3. ASSUME NEW t \in Purposes, code' = Used(t)
        PROVE  CodesInv'
    BY <1>1, <2>1, <2>3, UsedFacts
  <2>. QED
    BY <2>1, <2>2, <2>3
<1>. QED
  BY <1>2, <1>3, <1>4, <1>6, <1>7, <1>8, <1>9, <1>10, <1>11, <1>12 DEF SignInNext, Continue

LEMMA GrantsKept ==
  ASSUME SignInTypeOK, GrantsInv, SignInNext
  PROVE  GrantsInv'
<1>. USE DEF GrantsInv, ResetsByOneGrant
<1>1. ASSUME UNCHANGED <<resetGrant, resets>>, standing' = standing \/ standing # "open"
      PROVE  GrantsInv'
  BY <1>1
<1>2. ASSUME resetGrant' = Spent(resetGrant), UNCHANGED resets
      PROVE  GrantsInv'
  BY <1>2, SpentFacts
<1>3. ASSUME NEW r \in Visitors, Visit(r)
      PROVE  GrantsInv'
  <2>1. UNCHANGED <<resetGrant, resets>> /\ (standing' = standing \/ standing # "open")
    BY <1>3 DEF Visit, AskForCode, EnterCode, Register, BeginReset, Login, GoogleCallback,
                BeginLink, accountVars, proofVars, historyVars
  <2>. QED
    BY <1>1, <2>1
<1>4. ASSUME NEW r \in Visitors, NEW g \in ResetGrants, VerifyPasswordOtp(r, g)
      PROVE  GrantsInv'
  <2>1. standing = "open" /\ standing' = standing /\ resetGrant[g] = "none" /\ resets' = resets
    BY <1>4 DEF VerifyPasswordOtp, Accepts, Eligible, accountVars
  <2>2. /\ resetGrant'[g] = "live"
        /\ \A h \in ResetGrants \ {g} : resetGrant'[h] = Spent(resetGrant)[h]
    BY <1>4, SpentFacts DEF VerifyPasswordOtp
  <2>. QED
    BY <2>1, <2>2, SpentFacts
<1>5. ASSUME NEW r \in Visitors, ResetPassword(r)
      PROVE  GrantsInv'
  <2>. DEFINE g == pending[r].grant
  <2>1. g \in ResetGrants /\ resetGrant[g] = "live"
    BY <1>5, PendingRows DEF ResetPassword, StillGranted
  <2>2. resetGrant' = Spent(resetGrant) /\ resets'[g] = resets[g] + 1
        /\ \A h \in ResetGrants \ {g} : resets'[h] = resets[h]
    BY <1>5, <2>1 DEF ResetPassword, SignInTypeOK
  <2>3. Spent(resetGrant)[g] = "over"
    BY <2>1 DEF Spent
  <2>. QED
    BY <2>1, <2>2, <2>3, SpentFacts DEF SignInTypeOK
<1>6. ASSUME NEW r \in Visitors, Close(r)
      PROVE  GrantsInv'
  BY <1>2, <1>6 DEF Close
<1>7. ASSUME NEW r \in Visitors,
             Issue(r) \/ WrongCode(r) \/ ConfirmEmail(r) \/ OpenSession(r) \/ Link(r) \/ Drop(r)
      PROVE  GrantsInv'
  <2>1. UNCHANGED <<resetGrant, resets, standing>>
    BY <1>7 DEF Issue, WrongCode, ConfirmEmail, OpenSession, Link, Drop, accountVars,
                proofVars, historyVars
  <2>. QED
    BY <1>1, <2>1
<1>8. CASE LockAccount
  BY <1>2, <1>8 DEF LockAccount, historyVars
<1>9. CASE SignOut \/ UnlockAccount
  BY <1>1, <1>9 DEF SignOut, UnlockAccount, accountVars, proofVars, historyVars
<1>10. CASE Expires
  <2>1. UNCHANGED <<standing, resets>>
    BY <1>10 DEF Expires, accountVars, historyVars
  <2>2. \A g \in ResetGrants :
          resetGrant'[g] = resetGrant[g] \/ (resetGrant[g] = "live" /\ resetGrant'[g] = "over")
    BY <1>10 DEF Expires, SignInTypeOK
  <2>. QED
    BY <2>1, <2>2
<1>. QED
  BY <1>3, <1>4, <1>5, <1>6, <1>7, <1>8, <1>9, <1>10 DEF SignInNext, Continue

LEMMA SignInStarts == ASSUME SignInInit PROVE SignInIInv
<1>. USE SignInAssumption
<1>1. password \in Hashes
  <2>1. NoHash \in Hashes /\ \A s \in Secrets : Hash(s, TRUE) \in Hashes
    BY DEF NoHash, Hash, Hashes
  <2>. QED
    BY <2>1 DEF SignInInit
<1>2. NoCode \in Challenges /\ NoAnswers \in [wrong : Nat, right : Nat]
  BY DEF NoCode, Challenges, NoAnswers
<1>3. SignInTypeOK
  BY <1>1, <1>2 DEF SignInInit, SignInTypeOK, Rows
<1>4. SessionsAreCurrent /\ GrantsInv
  BY DEF SignInInit, SessionsAreCurrent, GrantsInv, ResetsByOneGrant
<1>5. CodesInv
  BY DEF SignInInit, CodesInv, NoCode, NoAnswers
<1>. QED
  BY <1>3, <1>4, <1>5 DEF SignInIInv

LEMMA SignInSound == SignInSpec => []SignInIInv
<1>1. ASSUME SignInIInv, [SignInNext]_signInVars
      PROVE  SignInIInv'
  <2>1. CASE SignInNext
    BY <1>1, <2>1, SignInTypes, SessionsKept, CodesKept, GrantsKept DEF SignInIInv
  <2>2. CASE UNCHANGED signInVars
    BY <1>1, <2>2
    DEF signInVars, accountVars, proofVars, historyVars, SignInIInv, SignInTypeOK,
        SessionsAreCurrent, CodesInv, GrantsInv, ResetsByOneGrant
  <2>. QED
    BY <1>1, <2>1, <2>2
<1>. QED
  BY <1>1, SignInStarts, PTL DEF SignInSpec

\* The rows of an account have their types (modules/auth).
THEOREM SignInTypeCorrect == SignInSpec => []SignInTypeOK
<1>1. SignInIInv => SignInTypeOK
  BY DEF SignInIInv
<1>. QED
  BY <1>1, SignInSound, PTL

\* A session that can be used is of an open account and of its password now, for
\* any number of requests and secrets (SessionService.create).
THEOREM SessionsCurrent == SignInSpec => []SessionsAreCurrent
<1>1. SignInIInv => SessionsAreCurrent
  BY DEF SignInIInv
<1>. QED
  BY <1>1, SignInSound, PTL

\* Neither a code nor the grant it gives acts twice, for any limit of attempts and
\* any number of requests that race for it (AuthOtpService, AuthRecoveryService).
THEOREM ProofsOnce == SignInSpec => []ProofsActOnce
<1>1. SignInIInv => ProofsActOnce
  BY DEF SignInIInv, CodesInv, GrantsInv, CodesActOnce, ProofsActOnce
<1>. QED
  BY <1>1, SignInSound, PTL

-----------------------------------------------------------------------------
(* McpOAuth.  The argument: the refresh tokens of a grant that are spent are  *)
(* all but the last, so the only token that is not refused is the last one,   *)
(* whoever presents it (ChainInv); and a code that gave a grant is used       *)
(* before the next request locks its user (CodeInv).                          *)

GrantRows ==
  [state : {"none", "live", "revoked", "expired"}, code : Authorizations \cup {None},
   session : Sessions \cup {None}, made : 0..MaxTokens, spent : SUBSET (1..MaxTokens)]
AuthorizationRows ==
  [state : {"none", "asked", "approved", "used", "expired"}, session : Sessions \cup {None}]

Made(g) == mcpGrant[g].state # "none"

ChainInv ==
  \A g \in Grants :
    /\ ~Made(g) => mcpGrant[g] = NoGrant
    /\ Made(g) => mcpGrant[g].made > 0 /\ mcpGrant[g].spent = 1..(mcpGrant[g].made - 1)
    /\ \A n \in 1..MaxTokens : renewals[g][n] = IF n \in mcpGrant[g].spent THEN 1 ELSE 0
    /\ g \in reused => mcpGrant[g].state \notin {"none", "live"}

CodeInv ==
  /\ OneGrantPerCode
  /\ \A g \in Grants : Made(g) =>
       mcpGrant[g].code \in Authorizations /\ authorization[mcpGrant[g].code].state = "used"

\* A client presents a token that it was given.
GivenInv ==
  \A c \in Exchanges : exchange[c].op = "refresh" =>
    exchange[c].token \in 1..mcpGrant[exchange[c].grant].made

LimitInv == IsFiniteSet(Counted) /\ GrantsWithinLimit

McpIInv == McpTypeOK /\ ChainInv /\ CodeInv /\ GivenInv /\ LimitInv

LEMMA ExchangeRows ==
  ASSUME McpTypeOK, NEW c \in Exchanges
  PROVE  /\ exchange[c] \in TokenRequests
         /\ exchange[c].op = "code" => exchange[c].code \in Authorizations
         /\ exchange[c].op = "refresh" =>
              exchange[c].grant \in Grants /\ exchange[c].token \in 1..MaxTokens
<1>. exchange[c] \in TokenRequests
  BY DEF McpTypeOK
<1>. QED
  BY DEF TokenRequests, Quiet

\* A step that ends grants, answers requests and uses codes up, and no other.
Wanes(g) ==
  \/ mcpGrant'[g] = mcpGrant[g]
  \/ /\ mcpGrant[g].state = "live"
     /\ \E s \in {"revoked", "expired"} : mcpGrant'[g] = [mcpGrant[g] EXCEPT !.state = s]

Quietens ==
  /\ \A g \in Grants : Wanes(g)
  /\ \A c \in Exchanges : exchange'[c] = exchange[c] \/ exchange'[c].op # "refresh"
  /\ \A a \in Authorizations : authorization[a].state = "used" => authorization'[a].state = "used"
  /\ UNCHANGED renewals
  /\ \A g \in Grants : g \in reused' => g \in reused \/ mcpGrant'[g].state = "revoked"

LEMMA WanesFacts ==
  ASSUME McpTypeOK, NEW g \in Grants, Wanes(g)
  PROVE  /\ mcpGrant'[g].code = mcpGrant[g].code /\ mcpGrant'[g].made = mcpGrant[g].made
         /\ mcpGrant'[g].spent = mcpGrant[g].spent
         /\ mcpGrant'[g].state = "live" => mcpGrant[g].state = "live"
         /\ mcpGrant'[g].state = mcpGrant[g].state \/ mcpGrant'[g].state \in {"revoked", "expired"}
         /\ mcpGrant'[g].state = "none" <=> mcpGrant[g].state = "none"
         /\ mcpGrant[g].state # "live" => mcpGrant'[g] = mcpGrant[g]
<1>. mcpGrant[g] \in GrantRows
  BY DEF McpTypeOK, GrantRows
<1>. QED
  BY DEF Wanes, GrantRows

LEMMA QuietensKeeps ==
  ASSUME McpIInv, Quietens
  PROVE  ChainInv' /\ CodeInv' /\ GivenInv' /\ LimitInv'
<1>1. McpTypeOK
  BY DEF McpIInv
<1>2. \A g \in Grants :
        /\ mcpGrant'[g].code = mcpGrant[g].code /\ mcpGrant'[g].made = mcpGrant[g].made
        /\ mcpGrant'[g].spent = mcpGrant[g].spent
        /\ mcpGrant'[g].state = "live" => mcpGrant[g].state = "live"
        /\ mcpGrant'[g].state = mcpGrant[g].state \/ mcpGrant'[g].state \in {"revoked", "expired"}
        /\ mcpGrant'[g].state = "none" <=> mcpGrant[g].state = "none"
        /\ mcpGrant[g].state # "live" => mcpGrant'[g] = mcpGrant[g]
  BY <1>1, WanesFacts DEF Quietens
<1>3. ChainInv'
  BY <1>2 DEF McpIInv, ChainInv, Quietens, Made
<1>4. CodeInv'
  BY <1>2 DEF McpIInv, CodeInv, OneGrantPerCode, Quietens, Made
<1>5. GivenInv'
  <2>1. \A c \in Exchanges : exchange[c].op = "refresh" => exchange[c].grant \in Grants
    BY <1>1, ExchangeRows
  <2>. QED
    BY <1>2, <2>1 DEF McpIInv, GivenInv, Quietens
<1>6. LimitInv'
  <2>1. Counted' \subseteq Counted
    BY <1>2 DEF Counted
  <2>2. /\ IsFiniteSet(Counted') /\ Cardinality(Counted') <= Cardinality(Counted)
        /\ Cardinality(Counted) \in Nat /\ Cardinality(Counted') \in Nat
    BY <2>1, FS_Subset, FS_CardinalityType DEF McpIInv, LimitInv
  <2>. QED
    BY <2>2, McpAssumption DEF McpIInv, LimitInv, GrantsWithinLimit
<1>. QED
  BY <1>3, <1>4, <1>5, <1>6

LEMMA ClientTypes ==
  ASSUME McpTypeOK, NEW c \in Exchanges
  PROVE  /\ GivesUp(c) => McpTypeOK'
         /\ \A a \in Authorizations : PresentCode(c, a) => McpTypeOK'
         /\ \A g \in Grants, n \in 1..MaxTokens : PresentToken(c, g, n) => McpTypeOK'
<1>1. ASSUME NEW row \in TokenRequests, exchange' = [exchange EXCEPT ![c] = row],
             UNCHANGED <<session, authorization, mcpGrant, renewals, reused>>
      PROVE  McpTypeOK'
  BY <1>1 DEF McpTypeOK
<1>2. Quiet \in TokenRequests
  BY DEF TokenRequests
<1>3. \A a \in Authorizations : [op |-> "code", code |-> a] \in TokenRequests
  BY DEF TokenRequests
<1>4. ASSUME NEW g \in Grants, NEW n \in 1..MaxTokens
      PROVE  [op |-> "refresh", grant |-> g, token |-> n, spent |-> n \in mcpGrant[g].spent]
               \in TokenRequests
  BY DEF TokenRequests
<1>. QED
  BY <1>1, <1>2, <1>3, <1>4 DEF GivesUp, Answered, PresentCode, PresentToken, Asks

LEMMA ExchangeTypes ==
  ASSUME McpTypeOK, NEW c \in Exchanges, NEW g \in Grants, ExchangeCode(c, g)
  PROVE  McpTypeOK'
<1>. DEFINE a == exchange[c].code
<1>1. a \in Authorizations
  BY ExchangeRows DEF ExchangeCode
<1>2. authorization' \in [Authorizations -> AuthorizationRows]
  BY <1>1, ZenonT(60) DEF ExchangeCode, McpTypeOK, AuthorizationRows
<1>3. [state |-> "live", code |-> a, session |-> authorization[a].session, made |-> 1, spent |-> {}]
        \in GrantRows
  BY <1>1, McpAssumption DEF GrantRows, McpTypeOK
<1>4. mcpGrant' \in [Grants -> GrantRows]
  BY <1>3 DEF ExchangeCode, McpTypeOK, GrantRows
<1>5. exchange' \in [Exchanges -> TokenRequests]
  BY DEF ExchangeCode, Answered, McpTypeOK, TokenRequests
<1>. QED
  BY <1>2, <1>4, <1>5 DEF ExchangeCode, McpTypeOK, GrantRows, AuthorizationRows

\* What a refresh does to the grant of its token.
LEMMA RefreshFacts ==
  ASSUME McpTypeOK, NEW c \in Exchanges, Refresh(c)
  PROVE  /\ exchange[c].grant \in Grants /\ exchange[c].token \in 1..MaxTokens
         /\ mcpGrant' \in [Grants -> GrantRows]
         /\ LET g == exchange[c].grant  n == exchange[c].token IN
              /\ mcpGrant[g].state = "live" /\ n \notin mcpGrant[g].spent
              /\ mcpGrant'[g].state = "live" /\ mcpGrant'[g].code = mcpGrant[g].code
              /\ mcpGrant'[g].made = mcpGrant[g].made + 1
              /\ mcpGrant'[g].spent = mcpGrant[g].spent \cup {n}
              /\ \A k \in Grants \ {g} : mcpGrant'[k] = mcpGrant[k]
<1>. DEFINE g == exchange[c].grant
            n == exchange[c].token
            row == [mcpGrant[g] EXCEPT !.spent = @ \cup {n}, !.made = @ + 1]
<1>1. g \in Grants /\ n \in 1..MaxTokens
  BY ExchangeRows DEF Refresh
<1>2. mcpGrant[g] \in GrantRows /\ mcpGrant[g].made < MaxTokens
  BY <1>1 DEF Refresh, McpTypeOK, GrantRows
<1>3. /\ mcpGrant[g].made + 1 \in 0..MaxTokens
      /\ mcpGrant[g].spent \cup {n} \in SUBSET (1..MaxTokens)
  BY <1>1, <1>2, McpAssumption DEF GrantRows
<1>4. /\ row \in GrantRows /\ row.made = mcpGrant[g].made + 1
      /\ row.spent = mcpGrant[g].spent \cup {n}
      /\ row.state = mcpGrant[g].state /\ row.code = mcpGrant[g].code
  BY <1>2, <1>3 DEF GrantRows
<1>5. mcpGrant' = [mcpGrant EXCEPT ![g] = row]
  BY <1>1, <1>2 DEF Refresh, McpTypeOK, GrantRows
<1>6. /\ mcpGrant' \in [Grants -> GrantRows] /\ mcpGrant'[g] = row
      /\ \A k \in Grants \ {g} : mcpGrant'[k] = mcpGrant[k]
  BY <1>1, <1>4, <1>5 DEF McpTypeOK, GrantRows
<1>7. mcpGrant[g].state = "live" /\ n \notin mcpGrant[g].spent
  BY DEF Refresh, IsSpent, InUse
<1>. QED
  BY <1>1, <1>4, <1>6, <1>7

LEMMA McpTypes ==
  ASSUME McpTypeOK, McpNext
  PROVE  McpTypeOK'
<1>1. ASSUME NEW a \in Authorizations,
             Authorize(a) \/ CodeExpires(a)
                \/ \E s \in Sessions, allow \in BOOLEAN : Decide(a, s, allow)
      PROVE  McpTypeOK'
  <2>1. PICK row \in AuthorizationRows : authorization' = [authorization EXCEPT ![a] = row]
    <3>1. authorization[a] \in AuthorizationRows
      BY DEF McpTypeOK, AuthorizationRows
    <3>2. CASE Authorize(a)
      BY <3>1, <3>2 DEF Authorize, AuthorizationRows
    <3>3. CASE CodeExpires(a)
      BY <3>1, <3>3 DEF CodeExpires, AuthorizationRows
    <3>4. ASSUME NEW s \in Sessions, NEW allow \in BOOLEAN, Decide(a, s, allow)
          PROVE  \E row \in AuthorizationRows : authorization' = [authorization EXCEPT ![a] = row]
      BY <3>1, <3>4 DEF Decide, AuthorizationRows
    <3>. QED
      BY <1>1, <3>2, <3>3, <3>4
  <2>2. UNCHANGED <<session, mcpGrant, exchange, renewals, reused>>
    BY <1>1 DEF Authorize, CodeExpires, Decide
  <2>. QED
    BY <2>1, <2>2 DEF McpTypeOK, AuthorizationRows
<1>2. ASSUME NEW c \in Exchanges, Refresh(c)
      PROVE  McpTypeOK'
  <2>. DEFINE g == exchange[c].grant
              n == exchange[c].token
  <2>1. renewals' \in [Grants -> [1..MaxTokens -> Nat]]
    <3>1. g \in Grants /\ n \in 1..MaxTokens /\ renewals \in [Grants -> [1..MaxTokens -> Nat]]
      BY <1>2, ExchangeRows DEF Refresh, McpTypeOK
    <3>2. renewals' = [renewals EXCEPT ![g] = [renewals[g] EXCEPT ![n] = renewals[g][n] + 1]]
      BY <1>2, <3>1 DEF Refresh
    <3>3. \A f \in [1..MaxTokens -> Nat], m \in 1..MaxTokens :
            [f EXCEPT ![m] = f[m] + 1] \in [1..MaxTokens -> Nat]
      OBVIOUS
    <3>. HIDE DEF g, n
    <3>4. renewals[g] \in [1..MaxTokens -> Nat]
      BY <3>1
    <3>5. [renewals[g] EXCEPT ![n] = renewals[g][n] + 1] \in [1..MaxTokens -> Nat]
      BY <3>1, <3>3, <3>4
    <3>. QED
      BY <3>1, <3>2, <3>5
  <2>2. exchange' \in [Exchanges -> TokenRequests]
    BY <1>2 DEF Refresh, Answered, McpTypeOK, TokenRequests
  <2>. QED
    BY <1>2, <2>1, <2>2, RefreshFacts DEF Refresh, McpTypeOK, GrantRows
<1>3. ASSUME NEW g \in Grants, mcpGrant' = [mcpGrant EXCEPT ![g].state = "revoked"]
                \/ mcpGrant' = [mcpGrant EXCEPT ![g].state = "expired"]
      PROVE  mcpGrant' \in [Grants -> GrantRows]
  <2>1. mcpGrant \in [Grants -> GrantRows]
    BY DEF McpTypeOK, GrantRows
  <2>2. \A s \in {"revoked", "expired"} : [mcpGrant[g] EXCEPT !.state = s] \in GrantRows
    BY <2>1 DEF GrantRows
  <2>. QED
    BY <1>3, <2>1, <2>2
<1>4. ASSUME NEW c \in Exchanges, ReuseToken(c)
      PROVE  McpTypeOK'
  <2>1. exchange[c].grant \in Grants
    BY <1>4, ExchangeRows DEF ReuseToken
  <2>2. exchange' \in [Exchanges -> TokenRequests]
    BY <1>4 DEF ReuseToken, Answered, McpTypeOK, TokenRequests
  <2>. QED
    BY <1>3, <1>4, <2>1, <2>2 DEF ReuseToken, Punishes, Revokes, McpTypeOK, GrantRows
<1>5. ASSUME NEW g \in Grants, DisconnectGrant(g) \/ RevokeToken(g) \/ GrantExpires(g)
      PROVE  McpTypeOK'
  BY <1>3, <1>5 DEF DisconnectGrant, RevokeToken, GrantExpires, Revokes, McpTypeOK, GrantRows
<1>6. ASSUME NEW s \in Sessions, SessionExpires(s)
      PROVE  McpTypeOK'
  <2>1. \A g \in Grants : mcpGrant[g] \in GrantRows /\ [mcpGrant[g] EXCEPT !.state = "expired"] \in GrantRows
    BY ZenonT(60) DEF McpTypeOK, GrantRows
  <2>2. mcpGrant' \in [Grants -> GrantRows]
    BY <1>6, <2>1 DEF SessionExpires
  <2>. QED
    BY <1>6, <2>2 DEF SessionExpires, McpTypeOK, GrantRows
<1>7. ASSUME NEW s \in Sessions, SessionOpens(s)
      PROVE  McpTypeOK'
  BY <1>7 DEF SessionOpens, McpTypeOK
<1>8. ASSUME NEW S \in SUBSET Sessions, SessionsEnd(S)
      PROVE  McpTypeOK'
  BY <1>8 DEF SessionsEnd, McpTypeOK
<1>. QED
  BY <1>1, <1>2, <1>4, <1>5, <1>6, <1>7, <1>8, ClientTypes, ExchangeTypes DEF McpNext

\* An approval takes the place of no other, and what was used stays used.
LEMMA ExchangeKeeps ==
  ASSUME McpIInv, NEW c \in Exchanges, NEW g \in Grants, ExchangeCode(c, g)
  PROVE  ChainInv' /\ CodeInv' /\ GivenInv' /\ LimitInv'
<1>. DEFINE a == exchange[c].code
<1>1. McpTypeOK /\ a \in Authorizations
  BY ExchangeRows DEF ExchangeCode, McpIInv
<1>2. /\ mcpGrant'[g].state = "live" /\ mcpGrant'[g].code = a
      /\ mcpGrant'[g].made = 1 /\ mcpGrant'[g].spent = {}
      /\ \A k \in Grants \ {g} : mcpGrant'[k] = mcpGrant[k]
  BY DEF ExchangeCode, McpIInv, McpTypeOK
<1>3. mcpGrant[g] = NoGrant /\ ~Made(g) /\ mcpGrant[g].spent = {} /\ mcpGrant[g].made = 0
  BY DEF ExchangeCode, Made, NoGrant
<1>4. /\ authorization[a].state # "used" /\ authorization'[a].state = "used"
      /\ \A b \in Authorizations \ {a} : authorization'[b] = authorization[b]
  BY <1>1 DEF ExchangeCode, Unused, McpTypeOK
<1>5. ChainInv'
  <2>1. 1..(1 - 1) = {}
    OBVIOUS
  <2>2. UNCHANGED <<renewals, reused>>
    BY DEF ExchangeCode
  <2>3. ASSUME NEW k \in Grants \ {g}
        PROVE  /\ ~Made(k)' => mcpGrant'[k] = NoGrant
               /\ Made(k)' => mcpGrant'[k].made > 0 /\ mcpGrant'[k].spent = 1..(mcpGrant'[k].made - 1)
               /\ \A n \in 1..MaxTokens : renewals'[k][n] = IF n \in mcpGrant'[k].spent THEN 1 ELSE 0
               /\ k \in reused' => mcpGrant'[k].state \notin {"none", "live"}
    BY <1>2, <2>2 DEF McpIInv, ChainInv, Made
  <2>4. g \notin reused /\ \A n \in 1..MaxTokens : renewals[g][n] = 0
    BY <1>3 DEF McpIInv, ChainInv, Made
  <2>5. /\ Made(g)' /\ mcpGrant'[g].made > 0 /\ mcpGrant'[g].spent = 1..(mcpGrant'[g].made - 1)
        /\ \A n \in 1..MaxTokens : renewals'[g][n] = IF n \in mcpGrant'[g].spent THEN 1 ELSE 0
        /\ g \notin reused'
    BY <1>2, <2>1, <2>2, <2>4 DEF Made
  <2>. QED
    BY <2>3, <2>5 DEF ChainInv
<1>6. CodeInv'
  <2>1. \A k \in Grants \ {g} : mcpGrant[k].code # a
    BY <1>1, <1>4, McpAssumption DEF McpIInv, CodeInv, ChainInv, Made, NoGrant
  <2>2. OneGrantPerCode'
    BY <1>2, <2>1 DEF McpIInv, CodeInv, OneGrantPerCode
  <2>. QED
    BY <1>1, <1>2, <1>4, <2>2 DEF McpIInv, CodeInv, Made
<1>7. GivenInv'
  <2>1. /\ exchange'[c].op # "refresh"
        /\ \A d \in Exchanges \ {c} : exchange'[d] = exchange[d]
    BY <1>1 DEF ExchangeCode, Answered, Quiet, McpTypeOK
  <2>2. \A d \in Exchanges : exchange[d].op = "refresh" => exchange[d].grant # g
    BY <1>3 DEF McpIInv, GivenInv
  <2>3. \A d \in Exchanges : exchange[d].op = "refresh" => exchange[d].grant \in Grants
    BY <1>1, ExchangeRows
  <2>. QED
    BY <1>2, <2>1, <2>2, <2>3 DEF McpIInv, GivenInv
<1>8. LimitInv'
  <2>1. Counted' = Counted \cup {g} /\ g \notin Counted
    BY <1>2, <1>3 DEF Counted, Made
  <2>2. /\ IsFiniteSet(Counted') /\ Cardinality(Counted') = Cardinality(Counted) + 1
        /\ Cardinality(Counted) \in Nat
    BY <2>1, FS_AddElement, FS_CardinalityType DEF McpIInv, LimitInv
  <2>. QED
    BY <2>2, McpAssumption DEF ExchangeCode, HasRoom, LimitInv, GrantsWithinLimit
<1>. QED
  BY <1>5, <1>6, <1>7, <1>8

\* The token that is exchanged for the next one is the last.
LEMMA RefreshKeeps ==
  ASSUME McpIInv, NEW c \in Exchanges, Refresh(c)
  PROVE  ChainInv' /\ CodeInv' /\ GivenInv' /\ LimitInv'
<1>. DEFINE g == exchange[c].grant
            n == exchange[c].token
<1>1. McpTypeOK
  BY DEF McpIInv
<1>2. /\ g \in Grants /\ n \in 1..MaxTokens
      /\ mcpGrant[g].state = "live" /\ n \notin mcpGrant[g].spent
      /\ mcpGrant'[g].state = "live" /\ mcpGrant'[g].code = mcpGrant[g].code
      /\ mcpGrant'[g].made = mcpGrant[g].made + 1
      /\ mcpGrant'[g].spent = mcpGrant[g].spent \cup {n}
      /\ \A k \in Grants \ {g} : mcpGrant'[k] = mcpGrant[k]
  BY <1>1, RefreshFacts
<1>3. mcpGrant[g].made \in 0..MaxTokens
  BY <1>1, <1>2 DEF McpTypeOK
<1>4. /\ mcpGrant[g].made > 0 /\ mcpGrant[g].spent = 1..(mcpGrant[g].made - 1)
      /\ n = mcpGrant[g].made
  <2>1. /\ mcpGrant[g].made > 0 /\ mcpGrant[g].spent = 1..(mcpGrant[g].made - 1)
        /\ n \in 1..mcpGrant[g].made
    BY <1>2 DEF McpIInv, ChainInv, GivenInv, Made, Refresh
  <2>. QED
    BY <1>2, <1>3, <2>1, McpAssumption
<1>5. ChainInv'
  <2>1. mcpGrant'[g].made > 0 /\ mcpGrant'[g].spent = 1..(mcpGrant'[g].made - 1)
    BY <1>2, <1>3, <1>4, McpAssumption, SMTT(30)
  <2>2. /\ renewals'[g][n] = renewals[g][n] + 1
        /\ \A m \in 1..MaxTokens \ {n} : renewals'[g][m] = renewals[g][m]
        /\ \A k \in Grants \ {g} : renewals'[k] = renewals[k]
    <3>1. renewals \in [Grants -> [1..MaxTokens -> Nat]]
      BY <1>1 DEF McpTypeOK
    <3>2. renewals' = [renewals EXCEPT ![g] = [renewals[g] EXCEPT ![n] = renewals[g][n] + 1]]
      BY <1>2, <3>1 DEF Refresh
    <3>. QED
      BY <1>2, <3>1, <3>2
  <2>3. \A m \in 1..MaxTokens : renewals'[g][m] = IF m \in mcpGrant'[g].spent THEN 1 ELSE 0
    BY <1>2, <2>2 DEF McpIInv, ChainInv
  <2>4. g \notin reused /\ reused' = reused
    BY <1>2 DEF McpIInv, ChainInv, Refresh
  <2>5. ASSUME NEW k \in Grants \ {g}
        PROVE  /\ ~Made(k)' => mcpGrant'[k] = NoGrant
               /\ Made(k)' => mcpGrant'[k].made > 0 /\ mcpGrant'[k].spent = 1..(mcpGrant'[k].made - 1)
               /\ \A m \in 1..MaxTokens : renewals'[k][m] = IF m \in mcpGrant'[k].spent THEN 1 ELSE 0
               /\ k \in reused' => mcpGrant'[k].state \notin {"none", "live"}
    BY <1>2, <2>2, <2>4 DEF McpIInv, ChainInv, Made
  <2>. QED
    BY <1>2, <2>1, <2>3, <2>4, <2>5 DEF ChainInv, Made
<1>6. CodeInv'
  <2>1. \A k \in Grants : mcpGrant'[k].code = mcpGrant[k].code /\ (Made(k)' <=> Made(k))
    BY <1>2 DEF Made
  <2>2. UNCHANGED authorization
    BY DEF Refresh
  <2>. QED
    BY <2>1, <2>2 DEF McpIInv, CodeInv, OneGrantPerCode
<1>7. GivenInv'
  <2>1. /\ exchange'[c].op # "refresh"
        /\ \A d \in Exchanges \ {c} : exchange'[d] = exchange[d]
    BY <1>1 DEF Refresh, Answered, Quiet, McpTypeOK
  <2>2. ASSUME NEW d \in Exchanges, exchange[d].op = "refresh"
        PROVE  exchange[d].token \in 1..mcpGrant'[exchange[d].grant].made
    <3>1. /\ exchange[d].grant \in Grants /\ exchange[d].token \in 1..MaxTokens
          /\ exchange[d].token \in 1..mcpGrant[exchange[d].grant].made
      BY <1>1, <2>2, ExchangeRows DEF McpIInv, GivenInv
    <3>2. CASE exchange[d].grant = g
      BY <1>2, <1>3, <3>1, <3>2, McpAssumption
    <3>3. CASE exchange[d].grant # g
      BY <1>2, <3>1, <3>3
    <3>. QED
      BY <3>2, <3>3
  <2>. QED
    BY <2>1, <2>2 DEF GivenInv
<1>8. LimitInv'
  <2>1. Counted' = Counted
    BY <1>2 DEF Counted
  <2>. QED
    BY <2>1 DEF McpIInv, LimitInv, GrantsWithinLimit
<1>. QED
  BY <1>5, <1>6, <1>7, <1>8

LEMMA PresentKeeps ==
  ASSUME McpIInv, NEW c \in Exchanges, NEW g \in Grants, NEW n \in 1..MaxTokens,
         PresentToken(c, g, n)
  PROVE  ChainInv' /\ CodeInv' /\ GivenInv' /\ LimitInv'
<1>1. /\ exchange'[c].grant = g /\ exchange'[c].token = n /\ n \in 1..mcpGrant[g].made
      /\ \A d \in Exchanges \ {c} : exchange'[d] = exchange[d]
  BY DEF PresentToken, Asks, McpIInv, McpTypeOK
<1>2. UNCHANGED <<authorization, mcpGrant, renewals, reused>>
  BY DEF PresentToken
<1>3. GivenInv'
  BY <1>1, <1>2 DEF McpIInv, GivenInv
<1>4. Counted' = Counted
  BY <1>2 DEF Counted
<1>. QED
  BY <1>2, <1>3, <1>4
  DEF McpIInv, ChainInv, CodeInv, LimitInv, Made, OneGrantPerCode, GrantsWithinLimit

LEMMA OthersQuieten ==
  ASSUME McpIInv, McpNext
  PROVE  \/ Quietens
         \/ \E c \in Exchanges, g \in Grants : ExchangeCode(c, g)
         \/ \E c \in Exchanges : Refresh(c)
         \/ \E c \in Exchanges, g \in Grants, n \in 1..MaxTokens : PresentToken(c, g, n)
<1>. USE DEF McpIInv, McpTypeOK
<1>1. ASSUME NEW a \in Authorizations,
             Authorize(a) \/ CodeExpires(a)
                \/ \E s \in Sessions, allow \in BOOLEAN : Decide(a, s, allow)
      PROVE  Quietens
  BY <1>1 DEF Authorize, CodeExpires, Decide, Quietens, Wanes
<1>2. ASSUME NEW c \in Exchanges, GivesUp(c) \/ \E a \in Authorizations : PresentCode(c, a)
      PROVE  Quietens
  BY <1>2 DEF GivesUp, PresentCode, Answered, Asks, Quiet, Quietens, Wanes
<1>3. ASSUME NEW g \in Grants, Revokes(g)
      PROVE  (\A k \in Grants : Wanes(k)) /\ mcpGrant'[g].state = "revoked"
  BY <1>3 DEF Revokes, Wanes
<1>4. ASSUME NEW c \in Exchanges, ReuseToken(c)
      PROVE  Quietens
  <2>1. exchange[c].grant \in Grants
    BY <1>4, ExchangeRows DEF ReuseToken
  <2>2. /\ \A k \in Grants : Wanes(k)
        /\ mcpGrant'[exchange[c].grant].state = "revoked"
    BY <1>3, <1>4, <2>1 DEF ReuseToken, Punishes
  <2>. QED
    BY <1>4, <2>2 DEF ReuseToken, Answered, Quiet, Quietens
<1>5. ASSUME NEW g \in Grants, DisconnectGrant(g) \/ RevokeToken(g)
      PROVE  Quietens
  BY <1>3, <1>5 DEF DisconnectGrant, RevokeToken, Quietens
<1>6. ASSUME NEW g \in Grants, GrantExpires(g)
      PROVE  Quietens
  BY <1>6 DEF GrantExpires, Quietens, Wanes
<1>7. ASSUME NEW s \in Sessions, SessionExpires(s)
      PROVE  Quietens
  BY <1>7 DEF SessionExpires, Quietens, Wanes
<1>8. ASSUME NEW s \in Sessions, SessionOpens(s)
      PROVE  Quietens
  BY <1>8 DEF SessionOpens, Quietens, Wanes
<1>9. ASSUME NEW S \in SUBSET Sessions, SessionsEnd(S)
      PROVE  Quietens
  BY <1>9 DEF SessionsEnd, Quietens, Wanes
<1>. QED
  BY <1>1, <1>2, <1>4, <1>5, <1>6, <1>7, <1>8, <1>9 DEF McpNext

LEMMA McpStarts == ASSUME McpInit PROVE McpIInv
<1>. USE McpAssumption DEF McpInit
<1>1. McpTypeOK
  BY DEF McpTypeOK, NoGrant, TokenRequests
<1>2. ChainInv /\ CodeInv /\ GivenInv
  BY DEF ChainInv, CodeInv, OneGrantPerCode, GivenInv, Made, NoGrant, Quiet
<1>3. Counted = {}
  BY DEF Counted, NoGrant
<1>. QED
  BY <1>1, <1>2, <1>3, FS_EmptySet DEF McpIInv, LimitInv, GrantsWithinLimit

LEMMA McpSound == McpSpec => []McpIInv
<1>1. ASSUME McpIInv, [McpNext]_mcpVars
      PROVE  McpIInv'
  <2>1. CASE McpNext
    <3>1. McpTypeOK'
      BY <1>1, <2>1, McpTypes DEF McpIInv
    <3>2. ChainInv' /\ CodeInv' /\ GivenInv' /\ LimitInv'
      BY <1>1, <2>1, OthersQuieten, QuietensKeeps, ExchangeKeeps, RefreshKeeps, PresentKeeps
    <3>. QED
      BY <3>1, <3>2 DEF McpIInv
  <2>2. CASE UNCHANGED mcpVars
    BY <1>1, <2>2
    DEF mcpVars, McpIInv, McpTypeOK, ChainInv, CodeInv, GivenInv, LimitInv, Made, Counted,
        OneGrantPerCode, GrantsWithinLimit
  <2>. QED
    BY <1>1, <2>1, <2>2
<1>. QED
  BY <1>1, McpStarts, PTL DEF McpSpec

\* The rows of the connections of AI clients have their types (modules/roomora-mcp).
THEOREM McpTypeCorrect == McpSpec => []McpTypeOK
<1>1. McpIInv => McpTypeOK
  BY DEF McpIInv
<1>. QED
  BY <1>1, McpSound, PTL

\* An approval gives one connection and a refresh token one next token, and the
\* connections in use stay within the limit, for any number of clients that
\* repeat their requests (McpOAuthService).
THEOREM TokensOnce == McpSpec => []TokensActOnce
<1>1. ASSUME McpIInv PROVE ChainNeverForks
  <2>1. ASSUME NEW g \in Grants, Made(g)
        PROVE  Cardinality((1..mcpGrant[g].made) \ mcpGrant[g].spent) = 1
    <3>1. mcpGrant[g].made \in Nat /\ mcpGrant[g].made > 0
      BY <1>1, <2>1, McpAssumption DEF McpIInv, McpTypeOK, ChainInv
    <3>2. (1..mcpGrant[g].made) \ mcpGrant[g].spent = {mcpGrant[g].made}
      BY <1>1, <2>1, <3>1 DEF McpIInv, ChainInv
    <3>. QED
      BY <3>2, FS_Singleton
  <2>2. \A g \in Grants : \A n \in 1..MaxTokens : renewals[g][n] <= 1
    BY <1>1 DEF McpIInv, ChainInv
  <2>. QED
    BY <1>1, <2>1, <2>2 DEF McpIInv, ChainInv, ChainNeverForks
<1>2. McpIInv => TokensActOnce
  BY <1>1 DEF McpIInv, CodeInv, LimitInv, TokensActOnce
<1>. QED
  BY <1>2, McpSound, PTL

-----------------------------------------------------------------------------
(* Pictures.  The argument: a publicId belongs to one request until it is in a *)
(* row (FreshInv); a request whose version still holds found its album as it  *)
(* still is (FoundInv), so what it replaces or removes leaves the rows before *)
(* it is deleted.  What is on its way after its clean-up went astray.         *)

\* Stages between the reading of an album and the writing of it.
Acting(h) == task[h].stage \in {"uploading", "saving", "removing"}
Uploading(h) == task[h].stage \in {"uploading", "saving"}

Distinct(h, k) == h # k /\ Uploading(h) => task[h].image \notin Pending(k)

FreshInv ==
  /\ Shown \subseteq used /\ late \subseteq astray
  /\ \A h \in Handlers : Pending(h) \subseteq used
  /\ \A h \in Handlers : Uploading(h) => task[h].image \notin Shown
  /\ \A h, k \in Handlers : Distinct(h, k)
  /\ \A h \in Handlers : task[h].stage = "saving" => task[h].image \in stored

\* While the version holds, the album is as the request found it.
Found(h) ==
  Acting(h) /\ task[h].version >= version[task[h].album] =>
    /\ task[h].version = version[task[h].album]
    /\ task[h].old \subseteq rows[task[h].album]
    /\ Uploading(h) => task[h].old = Replaced(task[h].album)
    /\ task[h].stage = "removing" => task[h].old # {}

FoundInv ==
  /\ rows["listing"] \cap rows["profile"] = {}
  /\ \A i, j \in rows["profile"] : i = j
  /\ \A h \in Handlers : Found(h)

IInv ==
  /\ PicturesTypeOK /\ IsFiniteSet(rows["listing"])
  /\ FreshInv /\ FoundInv /\ PicturesAreStored

\* A commit, whether its answer arrives or not.
LEMMA RowCommits ==
  ASSUME PicturesTypeOK, NEW h \in Handlers, task[h] \in RowTasks,
         NEW new \in [Albums -> SUBSET Images], NEW done \in SUBSET Images,
         NEW failed \in SUBSET Images, NEW ids \in SUBSET Images,
         Commits(h, new, done, failed, ids), UNCHANGED <<removed, stored, late, used>>
  PROVE  PicturesTypeOK'
BY DEF PicturesTypeOK, Idle, RowTasks, Commits, CleanUp, Mishap, NoMishap

LEMMA Types == ASSUME PicturesTypeOK, PicturesNext PROVE PicturesTypeOK'
<1>. USE DEF PicturesTypeOK, Idle, RowTasks, Albums
<1>1. ASSUME NEW h \in Handlers, NEW a \in Albums, NEW i \in Images,
             BeginUpload(h, a, i) \/ BeginRemove(h, a, i)
      PROVE  PicturesTypeOK'
  BY <1>1 DEF BeginUpload, BeginRemove, Replaced, NoMishap
<1>2. ASSUME NEW h \in Handlers, Uploaded(h) \/ UploadFails(h)
      PROVE  PicturesTypeOK'
  BY <1>2 DEF Uploaded, UploadFails, CleanUp, Mishap, NoMishap
<1>3. ASSUME NEW h \in Handlers, SaveRow(h)
      PROVE  PicturesTypeOK'
  <2>1. task[h] \in RowTasks
    BY <1>3 DEF SaveRow
  <2>2. Added(task[h]) \in [Albums -> SUBSET Images]
    BY <2>1 DEF Added
  <2>3. ASSUME Commits(h, Added(task[h]), task[h].old, {task[h].image},
                       {task[h].image} \cup task[h].old)
        PROVE  PicturesTypeOK'
    <3>1. /\ task[h].old \in SUBSET Images /\ {task[h].image} \in SUBSET Images
          /\ {task[h].image} \cup task[h].old \in SUBSET Images
      BY <2>1
    <3>2. UNCHANGED <<removed, stored, late, used>>
      BY <1>3 DEF SaveRow
    <3>. HIDE DEF PicturesTypeOK, RowTasks
    <3>. QED
      BY <2>1, <2>2, <2>3, <3>1, <3>2, RowCommits
  <2>. QED
    BY <1>3, <2>1, <2>3 DEF SaveRow, CleanUp, NoMishap
<1>4. ASSUME NEW h \in Handlers, RemoveRow(h)
      PROVE  PicturesTypeOK'
  <2>1. task[h] \in RowTasks
    BY <1>4 DEF RemoveRow
  <2>2. Without(task[h]) \in [Albums -> SUBSET Images]
    BY <2>1 DEF Without
  <2>. QED
    BY <1>4, <2>1, <2>2, RowCommits DEF RemoveRow, CleanUp, NoMishap
<1>5. ASSUME NEW h \in Handlers, DeleteDraft(h)
      PROVE  PicturesTypeOK'
  BY <1>5 DEF DeleteDraft, CleanUp, Mishap, NoMishap
<1>6. ASSUME NEW h \in Handlers, DeleteAssets(h) \/ ProcessDies(h)
      PROVE  PicturesTypeOK'
  <2>1. Pending(h) \subseteq Images
    BY DEF Pending
  <2>. QED
    BY <1>6, <2>1 DEF DeleteAssets, ProcessDies, Mishap, NoMishap
<1>7. ASSUME NEW a \in Albums, EditAlbum(a)
      PROVE  PicturesTypeOK'
  BY <1>7 DEF EditAlbum, NoMishap
<1>8. ASSUME NEW i \in Images, ArrivesLate(i)
      PROVE  PicturesTypeOK'
  BY <1>8 DEF ArrivesLate, NoMishap
<1>. QED
  BY <1>1, <1>2, <1>3, <1>4, <1>5, <1>6, <1>7, <1>8 DEF PicturesNext

LEMMA StartsTyped == PicturesInit => PicturesTypeOK
<1>. SUFFICES ASSUME PicturesInit PROVE PicturesTypeOK
  OBVIOUS
<1>1. task \in [Handlers -> {Idle}]
  BY DEF PicturesInit
<1>2. rows \in [Albums -> SUBSET Images] /\ version \in [Albums -> Nat]
  BY DEF PicturesInit
<1>. QED
  BY <1>1, <1>2 DEF PicturesInit, PicturesTypeOK

\* The types of the albums and of the photos of a listing, for any images.
THEOREM PicturesTypeCorrect == PicturesSpec => []PicturesTypeOK
<1>1. PicturesInit => PicturesTypeOK
  BY StartsTyped
<1>2. PicturesTypeOK /\ [PicturesNext]_pictureVars => PicturesTypeOK'
  BY Types DEF pictureVars, PicturesTypeOK
<1>. QED
  BY <1>1, <1>2, PTL DEF PicturesSpec

(* Steps.                                                                     *)

LEMMA Others ==
  ASSUME PicturesTypeOK, NEW h \in Handlers, NEW t, task' = [task EXCEPT ![h] = t]
  PROVE  /\ task'[h] = t
         /\ \A k \in Handlers \ {h} : task'[k] = task[k] /\ Pending(k)' = Pending(k)
BY DEF PicturesTypeOK, Pending

\* Only the request that acts takes pictures up or lets go of them.
LEMMA Attends ==
  ASSUME NEW h \in Handlers, \A k \in Handlers \ {h} : Pending(k)' = Pending(k)
  PROVE  /\ Attended \subseteq Attended' \cup Pending(h)
         /\ Pending(h)' \subseteq Attended'
BY DEF Attended

LEMMA BeginUploadKeeps ==
  ASSUME IInv, PicturesTypeOK', NEW h \in Handlers, NEW a \in Albums, NEW i \in Images,
         BeginUpload(h, a, i)
  PROVE  IInv'
<1>. DEFINE t == [stage |-> "uploading", album |-> a, image |-> i, version |-> version[a],
                  old |-> Replaced(a)]
<1>1. /\ task'[h] = t
      /\ \A k \in Handlers \ {h} : task'[k] = task[k] /\ Pending(k)' = Pending(k)
  BY Others DEF BeginUpload, IInv
<1>2. Pending(h) = {} /\ Pending(h)' = {i}
  BY <1>1 DEF BeginUpload, Pending, Idle
<1>3. i \notin used /\ used' = used \cup {i} /\ Shown' = Shown
  BY DEF BeginUpload, Shown
<1>4. FreshInv'
  <2>1. \A k \in Handlers : Pending(k)' \subseteq used'
    BY <1>1, <1>2, <1>3 DEF IInv, FreshInv
  <2>2. ASSUME NEW k \in Handlers, NEW l \in Handlers
        PROVE  Distinct(k, l)'
    <3>1. CASE k = h
      BY <1>1, <1>3, <3>1 DEF IInv, FreshInv, Distinct
    <3>2. CASE k # h /\ l = h
      <4>1. Uploading(k) => task[k].image \in used
        BY DEF IInv, FreshInv, Uploading, Pending
      <4>. QED
        BY <1>1, <1>2, <1>3, <3>2, <4>1 DEF Distinct, Uploading
    <3>3. CASE k # h /\ l # h
      BY <1>1, <3>3 DEF IInv, FreshInv, Distinct, Uploading
    <3>. QED
      BY <3>1, <3>2, <3>3
  <2>3. Shown' \subseteq used' /\ late' \subseteq astray'
    BY <1>3 DEF BeginUpload, NoMishap, IInv, FreshInv
  <2>4. ASSUME NEW k \in Handlers, task'[k].stage = "saving"
        PROVE  task'[k].image \in stored'
    BY <1>1, <2>4 DEF BeginUpload, IInv, FreshInv
  <2>5. ASSUME NEW k \in Handlers, Uploading(k)'
        PROVE  task'[k].image \notin Shown'
    BY <1>1, <1>3, <2>5 DEF IInv, FreshInv, Uploading
  <2>. QED
    BY <2>1, <2>2, <2>3, <2>4, <2>5 DEF FreshInv
<1>5. FoundInv'
  <2>1. Replaced(a) \subseteq rows[a] /\ Replaced(a)' = Replaced(a)
    BY DEF Replaced, BeginUpload
  <2>. QED
    BY <1>1, <2>1 DEF BeginUpload, IInv, FoundInv, Found, PicturesTypeOK, Acting, Uploading, Replaced
<1>6. PicturesAreStored'
  BY <1>1, <1>2, <1>3, Attends DEF BeginUpload, NoMishap, IInv, FreshInv, PicturesAreStored
<1>. QED
  BY <1>4, <1>5, <1>6 DEF IInv, BeginUpload

LEMMA UploadedKeeps ==
  ASSUME IInv, PicturesTypeOK', NEW h \in Handlers, Uploaded(h)
  PROVE  IInv'
<1>. DEFINE t == [task[h] EXCEPT !.stage = "saving"]
<1>1. /\ task'[h] = t
      /\ \A k \in Handlers \ {h} : task'[k] = task[k] /\ Pending(k)' = Pending(k)
  BY Others DEF Uploaded, IInv
<1>2. task[h] \in RowTasks
  BY DEF Uploaded, IInv, PicturesTypeOK, Idle
<1>3. t.stage = "saving" /\ t.image = task[h].image /\ t.album = task[h].album
      /\ t.version = task[h].version /\ t.old = task[h].old
  BY <1>2 DEF RowTasks
<1>4. Pending(h)' = Pending(h) /\ Pending(h) = {task[h].image} /\ Shown' = Shown
  BY <1>1, <1>3 DEF Uploaded, Pending, Shown
<1>5. FreshInv'
  BY <1>1, <1>3, <1>4 DEF Uploaded, NoMishap, IInv, FreshInv, Distinct, Uploading
<1>6. FoundInv'
  BY <1>1, <1>3 DEF Uploaded, IInv, FoundInv, Found, Acting, Uploading, Replaced
<1>7. PicturesAreStored'
  BY <1>1, <1>3, <1>4, Attends DEF Uploaded, NoMishap, IInv, FreshInv, PicturesAreStored
<1>. QED
  BY <1>5, <1>6, <1>7 DEF IInv, Uploaded

LEMMA UploadFailsKeeps ==
  ASSUME IInv, PicturesTypeOK', NEW h \in Handlers, UploadFails(h)
  PROVE  IInv'
<1>. DEFINE t == [stage |-> "deleting", images |-> {task[h].image}]
<1>1. /\ task'[h] = t
      /\ \A k \in Handlers \ {h} : task'[k] = task[k] /\ Pending(k)' = Pending(k)
  BY Others DEF UploadFails, CleanUp, IInv
<1>2. Pending(h)' = {task[h].image} /\ Pending(h) = {task[h].image} /\ Shown' = Shown
  BY <1>1 DEF UploadFails, Pending, Shown
<1>3. /\ stored \subseteq stored' /\ stored' \subseteq stored \cup {task[h].image}
      /\ astray \subseteq astray' /\ astray' \subseteq astray \cup {task[h].image}
  BY DEF UploadFails, Mishap, NoMishap
<1>4. FreshInv'
  <2>1. late' \subseteq astray'
    BY DEF UploadFails, Mishap, NoMishap, IInv, FreshInv
  <2>. QED
    BY <1>1, <1>2, <1>3, <2>1 DEF UploadFails, IInv, FreshInv, Distinct, Uploading
<1>5. FoundInv'
  BY <1>1 DEF UploadFails, IInv, FoundInv, Found, Acting, Uploading, Replaced
<1>6. PicturesAreStored'
  BY <1>1, <1>2, <1>3, Attends DEF UploadFails, IInv, PicturesAreStored
<1>. QED
  BY <1>4, <1>5, <1>6 DEF IInv, UploadFails

\* A request that gives up, or deletes what it uploaded, changes no row.
LEMMA ClearsUp ==
  ASSUME IInv, NEW h \in Handlers, NEW images \in SUBSET Images, CleanUp(h, images)
  PROVE  /\ task'[h].stage \in {"idle", "deleting"}
         /\ Pending(h)' = images
         /\ \A k \in Handlers \ {h} : task'[k] = task[k] /\ Pending(k)' = Pending(k)
<1>. DEFINE t == IF images = {} THEN Idle ELSE [stage |-> "deleting", images |-> images]
<1>1. /\ task'[h] = t
      /\ \A k \in Handlers \ {h} : task'[k] = task[k] /\ Pending(k)' = Pending(k)
  BY Others DEF CleanUp, IInv
<1>. QED
  BY <1>1 DEF Pending, Idle

LEMMA SaveRowKeeps ==
  ASSUME IInv, PicturesTypeOK', NEW h \in Handlers, SaveRow(h)
  PROVE  IInv'
<1>. DEFINE t == task[h]
            a == t.album
<1>1. t \in RowTasks /\ t.stage = "saving" /\ a \in Albums
      /\ t.image \in Images /\ t.old \in SUBSET Images
  BY DEF SaveRow, IInv, PicturesTypeOK, Idle, RowTasks
<1>2. Pending(h) = {t.image} /\ t.image \notin Shown /\ t.image \in stored
  BY <1>1 DEF Pending, Uploading, IInv, FreshInv
<1>3. \A k \in Handlers \ {h} : t.image \notin Pending(k)
  BY <1>1 DEF IInv, FreshInv, Distinct, Uploading
<1>4. ASSUME Unchanged(h), a = "listing" => Cardinality(rows["listing"]) < MaxPhotos,
             Commits(h, Added(t), t.old, {t.image}, {t.image} \cup t.old)
      PROVE  IInv'
  <2>1. /\ rows' = [rows EXCEPT ![a] = (IF a = "listing" THEN @ ELSE {}) \cup {t.image}]
        /\ version' = [version EXCEPT ![a] = @ + 1]
        /\ UNCHANGED <<removed, stored, late, used>>
    BY <1>4 DEF SaveRow, Commits, Added
  <2>2. t.old = Replaced(a) /\ t.version = version[a]
    BY <1>1, <1>4 DEF Unchanged, IInv, FoundInv, Found, Acting, Uploading, PicturesTypeOK
  <2>3. /\ task'[h].stage \in {"idle", "deleting"}
        /\ \/ Pending(h)' = t.old /\ astray' = astray
           \/ Pending(h)' = {t.image} /\ astray' = astray \cup {t.image} \cup t.old
        /\ \A k \in Handlers \ {h} : task'[k] = task[k] /\ Pending(k)' = Pending(k)
    <3>1. \/ CleanUp(h, t.old) /\ NoMishap
          \/ CleanUp(h, {t.image}) /\ Mishap({t.image} \cup t.old)
      BY <1>4 DEF Commits
    <3>2. CASE CleanUp(h, t.old) /\ NoMishap
      BY <1>1, <3>2, ClearsUp DEF NoMishap
    <3>3. CASE CleanUp(h, {t.image}) /\ Mishap({t.image} \cup t.old)
      BY <1>1, <3>3, ClearsUp DEF Mishap
    <3>. QED
      BY <3>1, <3>2, <3>3
  <2>4. /\ rows'["listing"] = IF a = "listing" THEN rows["listing"] \cup {t.image} ELSE rows["listing"]
        /\ rows'["profile"] = IF a = "listing" THEN rows["profile"] ELSE {t.image}
        /\ Shown = rows["listing"] \cup rows["profile"]
        /\ Shown' = rows'["listing"] \cup rows'["profile"]
    <3>1. /\ Shown = rows["listing"] \cup rows["profile"]
          /\ Shown' = rows'["listing"] \cup rows'["profile"]
      BY DEF Albums, Shown
    <3>. QED
      BY <1>1, <2>1, <3>1 DEF Albums, IInv, PicturesTypeOK
  <2>5. FreshInv'
    <3>1. t.old \subseteq Shown
      BY <1>1, <2>2, <2>4 DEF Replaced, Albums
    <3>2. Shown' \subseteq Shown \cup {t.image}
      BY <2>4
    <3>3. Shown' \subseteq used' /\ late' \subseteq astray'
      BY <1>2, <2>1, <2>3, <3>2 DEF IInv, FreshInv
    <3>4. \A k \in Handlers : Pending(k)' \subseteq used'
      BY <1>2, <2>1, <2>3, <3>1 DEF IInv, FreshInv
    <3>5. ASSUME NEW k \in Handlers, NEW l \in Handlers
          PROVE  Distinct(k, l)'
      <4>1. CASE k = h
        BY <2>3, <4>1 DEF Distinct, Uploading
      <4>2. CASE k # h /\ l = h
        <5>1. Uploading(k) => task[k].image \notin Shown /\ task[k].image # t.image
          BY <1>2, <4>2 DEF IInv, FreshInv, Distinct
        <5>. QED
          BY <2>3, <3>1, <4>2, <5>1 DEF Distinct, Uploading
      <4>3. CASE k # h /\ l # h
        BY <2>3, <4>3 DEF IInv, FreshInv, Distinct, Uploading
      <4>. QED
        BY <4>1, <4>2, <4>3
    <3>6. ASSUME NEW k \in Handlers, task'[k].stage = "saving"
          PROVE  task'[k].image \in stored'
      BY <2>1, <2>3, <3>6 DEF IInv, FreshInv
    <3>7. ASSUME NEW k \in Handlers, Uploading(k)'
          PROVE  task'[k].image \notin Shown'
      <4>1. k # h /\ task'[k] = task[k] /\ Uploading(k)
        BY <2>3, <3>7 DEF Uploading
      <4>2. task[k].image \notin Shown /\ task[k].image # t.image
        BY <1>2, <4>1 DEF IInv, FreshInv, Distinct
      <4>. QED
        BY <3>2, <4>1, <4>2
    <3>. QED
      BY <3>3, <3>4, <3>5, <3>6, <3>7 DEF FreshInv
  <2>6. FoundInv'
    <3>1. rows'["listing"] \cap rows'["profile"] = {}
      BY <1>2, <2>4 DEF IInv, FoundInv
    <3>2. \A i, j \in rows'["profile"] : i = j
      BY <2>4 DEF IInv, FoundInv
    <3>3. ASSUME NEW k \in Handlers, Acting(k)', task'[k].version >= version'[task'[k].album]
          PROVE  Found(k)'
      <4>1. k # h /\ task'[k] = task[k] /\ Acting(k)
        BY <2>3, <3>3 DEF Acting
      <4>2. task[k] \in RowTasks
        BY <4>1 DEF Acting, IInv, PicturesTypeOK, Idle
      <4>3. task[k].album \in Albums /\ task[k].version \in Nat
        BY <4>2 DEF RowTasks
      <4>4. Found(k)
        BY DEF IInv, FoundInv
      <4>5. task[k].album # a
        BY <2>1, <3>3, <4>1, <4>3, <4>4, <1>1 DEF IInv, Found, PicturesTypeOK
      <4>6. version'[task[k].album] = version[task[k].album] /\ rows'[task[k].album] = rows[task[k].album]
        BY <2>1, <4>3, <4>5, <1>1 DEF IInv, PicturesTypeOK
      <4>. QED
        BY <3>3, <4>1, <4>4, <4>6 DEF Found, Acting, Uploading, Replaced
    <3>. QED
      BY <3>1, <3>2, <3>3 DEF FoundInv, Found
  <2>7. IsFiniteSet(rows'["listing"]) /\ Cardinality(rows'["listing"]) <= MaxPhotos
    <3>1. CASE a = "listing"
      <4>1. Cardinality(rows["listing"] \cup {t.image}) = Cardinality(rows["listing"]) + 1
            /\ IsFiniteSet(rows["listing"] \cup {t.image})
        BY <1>2, <2>4, FS_AddElement DEF IInv
      <4>2. Cardinality(rows["listing"]) \in Nat
        BY FS_CardinalityType DEF IInv
      <4>. QED
        BY <1>4, <2>4, <3>1, <4>1, <4>2, PicturesAssumption
    <3>. QED
      BY <2>4, <3>1 DEF IInv, PicturesAreStored
  <2>8. PicturesAreStored'
    <3>1. Shown' \subseteq stored' \cup astray'
      BY <1>2, <2>1, <2>3, <2>4 DEF IInv, PicturesAreStored
    <3>2. \A k \in Handlers : Pending(k)' \cap Shown' \subseteq astray'
      <4>1. t.old \cap Shown' = {}
        BY <1>1, <1>2, <2>2, <2>4 DEF IInv, FoundInv, Replaced, Albums
      <4>2. \A k \in Handlers \ {h} : Pending(k) \cap Shown' \subseteq astray
        BY <1>3, <2>4 DEF IInv, PicturesAreStored
      <4>. QED
        BY <2>3, <4>1, <4>2
    <3>3. stored' \subseteq Shown' \cup Attended' \cup astray'
      <4>1. Shown \subseteq Shown' \cup t.old /\ t.image \in Shown'
        BY <1>1, <2>2, <2>4 DEF Replaced, Albums
      <4>2. stored \subseteq Shown \cup Attended \cup astray
        BY DEF IInv, PicturesAreStored
      <4>. QED
        BY <1>2, <2>1, <2>3, <4>1, <4>2, Attends
    <3>. QED
      BY <2>7, <3>1, <3>2, <3>3 DEF PicturesAreStored
  <2>. QED
    BY <2>5, <2>6, <2>7, <2>8 DEF IInv
<1>5. ASSUME CleanUp(h, {t.image}), NoMishap, UNCHANGED <<rows, version>>
      PROVE  IInv'
  <2>1. CleanUp(h, {t.image})
        /\ UNCHANGED <<rows, version, removed, stored, late, used, astray>>
    BY <1>5 DEF SaveRow, NoMishap
  <2>2. /\ task'[h].stage \in {"idle", "deleting"}
        /\ Pending(h)' = {t.image} /\ Shown' = Shown
        /\ \A k \in Handlers \ {h} : task'[k] = task[k] /\ Pending(k)' = Pending(k)
    BY <1>1, <2>1, ClearsUp DEF Shown
  <2>3. FreshInv'
    BY <1>2, <2>1, <2>2 DEF IInv, FreshInv, Distinct, Uploading
  <2>4. FoundInv'
    BY <2>1, <2>2 DEF IInv, FoundInv, Found, Acting, Uploading, Replaced
  <2>5. PicturesAreStored'
    BY <1>2, <2>1, <2>2, Attends DEF IInv, PicturesAreStored
  <2>. QED
    BY <2>1, <2>3, <2>4, <2>5 DEF IInv
<1>. QED
  BY <1>4, <1>5 DEF SaveRow

LEMMA BeginRemoveKeeps ==
  ASSUME IInv, PicturesTypeOK', NEW h \in Handlers, NEW a \in Albums, NEW i \in Images,
         BeginRemove(h, a, i)
  PROVE  IInv'
<1>. DEFINE t == [stage |-> "removing", album |-> a, image |-> i, version |-> version[a],
                  old |-> {i}]
<1>1. /\ task'[h] = t
      /\ \A k \in Handlers \ {h} : task'[k] = task[k] /\ Pending(k)' = Pending(k)
  BY Others DEF BeginRemove, IInv
<1>2. Pending(h) = {} /\ Pending(h)' = {} /\ Shown' = Shown
  BY <1>1 DEF BeginRemove, Pending, Idle, Shown
<1>3. FreshInv'
  BY <1>1, <1>2 DEF BeginRemove, NoMishap, IInv, FreshInv, Distinct, Uploading
<1>4. FoundInv'
  BY <1>1 DEF BeginRemove, IInv, FoundInv, Found, Acting, Uploading, Replaced, PicturesTypeOK
<1>5. PicturesAreStored'
  BY <1>1, <1>2, Attends DEF BeginRemove, NoMishap, IInv, PicturesAreStored
<1>. QED
  BY <1>3, <1>4, <1>5 DEF IInv, BeginRemove

\* Rows are taken out of an album, on its next version; then their assets are
\* deleted, or the answer was lost.
TakesOut(h, a, gone) ==
  /\ rows' = [rows EXCEPT ![a] = @ \ gone] /\ version' = [version EXCEPT ![a] = @ + 1]
  /\ \/ CleanUp(h, gone) /\ NoMishap
     \/ CleanUp(h, {}) /\ Mishap(gone)
  /\ UNCHANGED <<stored, late, used>>

LEMMA Removes ==
  ASSUME IInv, NEW h \in Handlers, NEW a \in Albums, NEW gone \in SUBSET rows[a],
         TakesOut(h, a, gone), ~Uploading(h), Pending(h) = {}, PicturesTypeOK'
  PROVE  IInv'
<1>1. /\ task'[h].stage \in {"idle", "deleting"}
      /\ \/ Pending(h)' = gone /\ astray' = astray
         \/ Pending(h)' = {} /\ astray' = astray \cup gone
      /\ \A k \in Handlers \ {h} : task'[k] = task[k] /\ Pending(k)' = Pending(k)
  <2>1. gone \in SUBSET Images
    BY DEF IInv, PicturesTypeOK
  <2>2. CASE CleanUp(h, gone) /\ NoMishap
    BY <2>1, <2>2, ClearsUp DEF NoMishap
  <2>3. CASE CleanUp(h, {}) /\ Mishap(gone)
    BY <2>3, ClearsUp DEF Mishap
  <2>. QED
    BY <2>2, <2>3 DEF TakesOut
<1>2. /\ rows'["listing"] = IF a = "listing" THEN rows["listing"] \ gone ELSE rows["listing"]
      /\ rows'["profile"] = IF a = "listing" THEN rows["profile"] ELSE rows["profile"] \ gone
      /\ Shown = rows["listing"] \cup rows["profile"]
      /\ Shown' = rows'["listing"] \cup rows'["profile"]
  <2>1. Shown = rows["listing"] \cup rows["profile"] /\ Shown' = rows'["listing"] \cup rows'["profile"]
    BY DEF Albums, Shown
  <2>. QED
    BY <2>1 DEF TakesOut, Albums, IInv, PicturesTypeOK
<1>3. gone \subseteq Shown /\ Shown' = Shown \ gone
  BY <1>2 DEF Albums, IInv, FoundInv
<1>4. FreshInv'
  <2>1. Shown' \subseteq used' /\ late' \subseteq astray'
    BY <1>1, <1>3 DEF TakesOut, IInv, FreshInv
  <2>2. \A k \in Handlers : Pending(k)' \subseteq used'
    BY <1>1, <1>3 DEF TakesOut, IInv, FreshInv
  <2>3. ASSUME NEW k \in Handlers, NEW l \in Handlers
        PROVE  Distinct(k, l)'
    BY <1>1, <1>3 DEF IInv, FreshInv, Distinct, Uploading
  <2>4. ASSUME NEW k \in Handlers, Uploading(k)'
        PROVE  task'[k].image \notin Shown'
    BY <1>1, <1>3, <2>4 DEF IInv, FreshInv, Uploading
  <2>. QED
    BY <1>1, <2>1, <2>2, <2>3, <2>4 DEF TakesOut, IInv, FreshInv
<1>5. FoundInv'
  <2>1. ASSUME NEW k \in Handlers, Acting(k)', task'[k].version >= version'[task'[k].album]
        PROVE  Found(k)'
    <3>1. k # h /\ task'[k] = task[k] /\ Acting(k)
      BY <1>1, <2>1 DEF Acting
    <3>2. task[k] \in RowTasks
      BY <3>1 DEF Acting, IInv, PicturesTypeOK, Idle
    <3>3. task[k].album \in Albums /\ task[k].version \in Nat /\ Found(k)
      BY <3>2 DEF RowTasks, IInv, FoundInv
    <3>4. task[k].album # a
      BY <2>1, <3>1, <3>3 DEF TakesOut, IInv, Found, PicturesTypeOK
    <3>5. version'[task[k].album] = version[task[k].album] /\ rows'[task[k].album] = rows[task[k].album]
      BY <3>3, <3>4 DEF TakesOut, IInv, PicturesTypeOK
    <3>. QED
      BY <2>1, <3>1, <3>3, <3>5 DEF Found, Acting, Uploading, Replaced
  <2>2. rows'["listing"] \cap rows'["profile"] = {} /\ \A i, j \in rows'["profile"] : i = j
    BY <1>2 DEF IInv, FoundInv
  <2>. QED
    BY <2>1, <2>2 DEF FoundInv, Found
<1>6. IsFiniteSet(rows'["listing"]) /\ Cardinality(rows'["listing"]) <= MaxPhotos
  <2>1. rows'["listing"] \subseteq rows["listing"]
    BY <1>2
  <2>2. Cardinality(rows["listing"]) \in Nat /\ Cardinality(rows["listing"]) <= MaxPhotos
    BY FS_CardinalityType DEF IInv, PicturesAreStored
  <2>3. IsFiniteSet(rows'["listing"]) /\ Cardinality(rows'["listing"]) <= Cardinality(rows["listing"])
    BY <2>1, FS_Subset DEF IInv
  <2>4. Cardinality(rows'["listing"]) \in Nat
    BY <2>3, FS_CardinalityType
  <2>. QED
    BY <2>2, <2>3, <2>4, PicturesAssumption
<1>7. PicturesAreStored'
  <2>1. Shown' \subseteq stored' \cup astray'
        /\ \A k \in Handlers : Pending(k)' \cap Shown' \subseteq astray'
    BY <1>1, <1>3 DEF TakesOut, IInv, PicturesAreStored
  <2>2. stored' \subseteq Shown' \cup Attended' \cup astray'
    BY <1>1, <1>3, Attends DEF TakesOut, IInv, PicturesAreStored
  <2>. QED
    BY <1>6, <2>1, <2>2 DEF PicturesAreStored
<1>. QED
  BY <1>4, <1>5, <1>6, <1>7 DEF IInv

LEMMA RemoveRowKeeps ==
  ASSUME IInv, PicturesTypeOK', NEW h \in Handlers, RemoveRow(h)
  PROVE  IInv'
<1>. DEFINE t == task[h]
            a == t.album
<1>1. t \in RowTasks /\ t.stage = "removing" /\ a \in Albums /\ ~Uploading(h) /\ Pending(h) = {}
  BY DEF RemoveRow, IInv, PicturesTypeOK, Idle, RowTasks, Uploading, Pending
<1>2. ASSUME Unchanged(h), Commits(h, Without(t), t.old, {}, t.old)
      PROVE  IInv'
  <2>1. t.old \in SUBSET rows[a]
    BY <1>1, <1>2 DEF Unchanged, IInv, FoundInv, Found, Acting, PicturesTypeOK
  <2>2. /\ rows' = [rows EXCEPT ![a] = IF a = "listing" THEN @ \ t.old ELSE {}]
        /\ version' = [version EXCEPT ![a] = @ + 1]
        /\ (CleanUp(h, t.old) /\ NoMishap) \/ (CleanUp(h, {}) /\ Mishap(t.old))
        /\ UNCHANGED <<stored, late, used>>
    BY <1>2 DEF RemoveRow, Commits, Without
  <2>3. rows' = [rows EXCEPT ![a] = @ \ t.old]
    <3>1. t.old # {}
      BY <1>1, <1>2 DEF Unchanged, IInv, FoundInv, Found, Acting, PicturesTypeOK
    <3>2. a # "listing" => rows[a] \ t.old = {}
      BY <1>1, <2>1, <3>1 DEF IInv, FoundInv, Albums
    <3>. QED
      BY <1>1, <2>2, <3>2 DEF IInv, PicturesTypeOK
  <2>. QED
    <3>1. TakesOut(h, a, t.old)
      BY <2>2, <2>3 DEF TakesOut
    <3>. QED
      BY <1>1, <2>1, <3>1, Removes
<1>3. ASSUME CleanUp(h, {}), NoMishap, UNCHANGED <<rows, version>>
      PROVE  IInv'
  <2>1. CleanUp(h, {}) /\ UNCHANGED <<rows, version, removed, stored, late, used, astray>>
    BY <1>3 DEF RemoveRow, NoMishap
  <2>2. /\ task'[h].stage \in {"idle", "deleting"}
        /\ Pending(h)' = {} /\ Shown' = Shown
        /\ \A k \in Handlers \ {h} : task'[k] = task[k] /\ Pending(k)' = Pending(k)
    BY <2>1, ClearsUp DEF Shown
  <2>3. FreshInv'
    BY <2>1, <2>2 DEF IInv, FreshInv, Distinct, Uploading
  <2>4. FoundInv'
    BY <2>1, <2>2 DEF IInv, FoundInv, Found, Acting, Uploading, Replaced
  <2>5. PicturesAreStored'
    BY <1>1, <2>1, <2>2, Attends DEF IInv, PicturesAreStored
  <2>. QED
    BY <2>1, <2>3, <2>4, <2>5 DEF IInv
<1>. QED
  BY <1>2, <1>3 DEF RemoveRow

LEMMA DeleteDraftKeeps ==
  ASSUME IInv, PicturesTypeOK', NEW h \in Handlers, DeleteDraft(h)
  PROVE  IInv'
<1>1. rows' = [rows EXCEPT !["listing"] = @ \ rows["listing"]]
  BY DEF DeleteDraft, IInv, PicturesTypeOK, Albums
<1>2. ~Uploading(h) /\ Pending(h) = {}
  BY DEF DeleteDraft, Uploading, Pending, Idle
<1>. QED
  BY <1>1, <1>2, Removes DEF DeleteDraft, TakesOut, Albums

\* A request that ends, or loses its way, leaves rows as they are.
LEMMA DeleteAssetsKeeps ==
  ASSUME IInv, PicturesTypeOK', NEW h \in Handlers, DeleteAssets(h)
  PROVE  IInv'
<1>1. /\ task'[h] = Idle
      /\ \A k \in Handlers \ {h} : task'[k] = task[k] /\ Pending(k)' = Pending(k)
  BY Others DEF DeleteAssets, IInv
<1>2. Pending(h) = task[h].images /\ Pending(h)' = {} /\ Shown' = Shown
  BY <1>1 DEF DeleteAssets, Pending, Idle, Shown
<1>3. /\ stored \ Pending(h) \subseteq stored' /\ stored' \subseteq stored
      /\ astray \subseteq astray' /\ stored' \subseteq (stored \ Pending(h)) \cup astray'
  BY <1>2 DEF DeleteAssets, Mishap, NoMishap
<1>4. FreshInv'
  <2>1. ASSUME NEW k \in Handlers, task'[k].stage = "saving"
        PROVE  task'[k].image \in stored'
    <3>1. k # h /\ task[k].stage = "saving" /\ task'[k] = task[k]
      BY <1>1, <2>1 DEF Idle
    <3>2. task[k].image \notin Pending(h) /\ task[k].image \in stored
      BY <3>1 DEF IInv, FreshInv, Distinct, Uploading
    <3>. QED
      BY <1>3, <3>1, <3>2
  <2>. QED
    BY <1>1, <1>2, <1>3, <2>1 DEF DeleteAssets, IInv, FreshInv, Distinct, Uploading, Idle
<1>5. FoundInv'
  BY <1>1 DEF DeleteAssets, IInv, FoundInv, Found, Acting, Uploading, Replaced, Idle
<1>6. PicturesAreStored'
  BY <1>1, <1>2, <1>3, Attends DEF DeleteAssets, IInv, PicturesAreStored
<1>. QED
  BY <1>4, <1>5, <1>6 DEF IInv, DeleteAssets

LEMMA ProcessDiesKeeps ==
  ASSUME IInv, PicturesTypeOK', NEW h \in Handlers, ProcessDies(h)
  PROVE  IInv'
<1>1. /\ task'[h] = Idle
      /\ \A k \in Handlers \ {h} : task'[k] = task[k] /\ Pending(k)' = Pending(k)
  BY Others DEF ProcessDies, IInv
<1>2. Pending(h)' = {} /\ Shown' = Shown /\ astray' = astray \cup Pending(h)
      /\ late' \subseteq late \cup Pending(h)
  BY <1>1 DEF ProcessDies, Mishap, Pending, Idle, Shown
<1>3. FreshInv'
  BY <1>1, <1>2 DEF ProcessDies, IInv, FreshInv, Distinct, Uploading, Idle
<1>4. FoundInv'
  BY <1>1 DEF ProcessDies, IInv, FoundInv, Found, Acting, Uploading, Replaced, Idle
<1>5. PicturesAreStored'
  BY <1>1, <1>2, Attends DEF ProcessDies, IInv, PicturesAreStored
<1>. QED
  BY <1>3, <1>4, <1>5 DEF IInv, ProcessDies

\* An edit outdates what was read of the album.
LEMMA EditAlbumKeeps ==
  ASSUME IInv, PicturesTypeOK', NEW a \in Albums, EditAlbum(a)
  PROVE  IInv'
<1>1. UNCHANGED <<rows, removed, stored, late, used, task, astray>>
      /\ version' = [version EXCEPT ![a] = @ + 1]
  BY DEF EditAlbum, NoMishap
<1>2. FreshInv' /\ PicturesAreStored'
  <2>1. Shown' = Shown /\ Attended' = Attended /\ \A h \in Handlers : Pending(h)' = Pending(h)
    BY <1>1 DEF Shown, Pending, Attended
  <2>. QED
    BY <1>1, <2>1 DEF IInv, FreshInv, Distinct, Uploading, PicturesAreStored
<1>3. ASSUME NEW k \in Handlers, Acting(k)', task'[k].version >= version'[task'[k].album]
      PROVE  Found(k)'
  <2>1. task[k] \in RowTasks
    BY <1>1, <1>3 DEF Acting, IInv, PicturesTypeOK, Idle
  <2>2. task[k].album \in Albums /\ task[k].version \in Nat /\ Found(k) /\ Acting(k)
    BY <1>1, <1>3, <2>1 DEF RowTasks, IInv, FoundInv, Acting
  <2>3. task[k].album # a
    BY <1>1, <1>3, <2>2 DEF IInv, Found, PicturesTypeOK
  <2>. QED
    BY <1>1, <1>3, <2>2, <2>3 DEF Found, Uploading, Replaced, IInv, PicturesTypeOK
<1>. QED
  BY <1>1, <1>2, <1>3 DEF IInv, FoundInv, Found

\* An upload arrives that was cleaned up before.
LEMMA ArrivesLateKeeps ==
  ASSUME IInv, PicturesTypeOK', NEW i \in Images, ArrivesLate(i)
  PROVE  IInv'
<1>1. UNCHANGED <<rows, version, removed, used, task, astray>>
      /\ i \in astray /\ stored' = stored \cup {i} /\ late' \subseteq late
  BY DEF ArrivesLate, NoMishap, IInv, FreshInv
<1>2. Shown' = Shown /\ Attended' = Attended /\ \A h \in Handlers : Pending(h)' = Pending(h)
  BY <1>1 DEF Shown, Pending, Attended
<1>3. FreshInv'
  BY <1>1, <1>2 DEF IInv, FreshInv, Distinct, Uploading
<1>4. FoundInv'
  BY <1>1 DEF IInv, FoundInv, Found, Acting, Uploading, Replaced
<1>5. PicturesAreStored'
  BY <1>1, <1>2 DEF IInv, PicturesAreStored
<1>. QED
  BY <1>1, <1>3, <1>4, <1>5 DEF IInv

LEMMA Inductive == IInv /\ [PicturesNext]_pictureVars => IInv'
<1>. SUFFICES ASSUME IInv, [PicturesNext]_pictureVars PROVE IInv'
  OBVIOUS
<1>1. CASE PicturesNext
  <2>1. PicturesTypeOK'
    BY <1>1, Types DEF IInv
  <2>. QED
    BY <1>1, <2>1, BeginUploadKeeps, BeginRemoveKeeps, UploadedKeeps, UploadFailsKeeps, SaveRowKeeps,
       RemoveRowKeeps, DeleteDraftKeeps, DeleteAssetsKeeps, ProcessDiesKeeps, EditAlbumKeeps,
       ArrivesLateKeeps DEF PicturesNext
<1>2. CASE UNCHANGED pictureVars
  <2>. USE <1>2 DEF pictureVars
  <2>1. PicturesTypeOK' /\ IsFiniteSet(rows'["listing"])
    BY DEF IInv, PicturesTypeOK
  <2>2. Shown' = Shown /\ Attended' = Attended /\ \A h \in Handlers : Pending(h)' = Pending(h)
    BY DEF Shown, Pending, Attended
  <2>3. FreshInv'
    BY <2>2 DEF IInv, FreshInv, Distinct, Uploading
  <2>4. FoundInv'
    BY DEF IInv, FoundInv, Found, Acting, Uploading, Replaced
  <2>5. PicturesAreStored'
    BY <2>2 DEF IInv, PicturesAreStored
  <2>. QED
    BY <2>1, <2>3, <2>4, <2>5 DEF IInv
<1>. QED
  BY <1>1, <1>2

\* For any number of photos, requests, edits and mishaps: what is shown is stored,
\* nobody is about to delete it, and what has no row is on its way out, except the
\* pictures that a mishap happened to themselves.
THEOREM PicturesSound == PicturesSpec => []PicturesAreStored
<1>1. PicturesInit => IInv
  <2>. SUFFICES ASSUME PicturesInit PROVE IInv
    OBVIOUS
  <2>1. PicturesTypeOK
    BY StartsTyped
  <2>2. /\ rows["listing"] = {} /\ rows["profile"] = {} /\ Shown = {}
        /\ \A h \in Handlers : task[h] = Idle
    BY DEF PicturesInit, Albums, Shown
  <2>3. IsFiniteSet({}) /\ Cardinality({}) = 0
    BY FS_EmptySet
  <2>4. \A h \in Handlers : Pending(h) = {} /\ ~Acting(h) /\ ~Uploading(h)
    BY <2>2 DEF Pending, Acting, Uploading, Idle
  <2>5. FreshInv /\ FoundInv
    BY <2>2, <2>4 DEF PicturesInit, FreshInv, FoundInv, Found, Distinct, Idle
  <2>6. PicturesAreStored
    <3>1. stored = {}
      BY DEF PicturesInit
    <3>. QED
      BY <2>2, <2>3, <2>4, <3>1, PicturesAssumption DEF PicturesAreStored
  <2>. QED
    BY <2>1, <2>2, <2>3, <2>5, <2>6 DEF IInv
<1>2. IInv => PicturesAreStored
  BY DEF IInv
<1>. QED
  BY <1>1, <1>2, Inductive, PTL DEF PicturesSpec
=============================================================================

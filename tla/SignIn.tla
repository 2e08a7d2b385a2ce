------------------------------- MODULE SignIn -------------------------------
(* One account (modules/auth): its password, the codes sent to its address,   *)
(* the grants that let it set a new password, and its sessions.               *)
(*                                                                            *)
(* A request reads rows, hashes a password or waits for its sender, and only  *)
(* then runs a transaction under the lock of the user row: pending[r] holds   *)
(* what it read, and a transaction is one step.  Limits on how often somebody *)
(* may ask are left out, they only refuse; a refusal is Drop.  Sessions that  *)
(* were opened by the same proof are alike, so signedIn is a set of proofs.   *)
EXTENDS Community, Integers, FiniteSets

CONSTANTS
  Secrets,      \* passwords
  ResetGrants,  \* auth_tokens of type PASSWORD_RESET_GRANT
  Visitors,     \* requests in progress at the same time
  MaxAttempts,  \* OTP_MAX_ATTEMPTS
  MaxCodes      \* bound on the codes of each type

Purposes == {"EMAIL_VERIFICATION", "PASSWORD_RESET", "ACCOUNT_CLOSURE"}

ASSUME SignInAssumption ==
  /\ None \notin Secrets
  /\ MaxAttempts \in Nat \ {0}
  /\ MaxCodes \in [Purposes -> Nat]

VARIABLES
  standing,   \* "none" before registration, "open", "locked", "closed"
  verified,   \* emailVerifiedAt
  google,     \* a Google account is linked
  password,   \* what passwordHash was made of: the secret, and whether by old parameters
  code,       \* auth_otps, by type: the last challenge
  resetGrant, \* auth_tokens: "none", "live", "over" (consumed or expired)
  signedIn,   \* proofs of the sessions that are neither revoked nor expired
  pending,    \* requests in progress
  answers,    \* history: wrong and right answers to the last challenge of a type
  resets      \* history: the passwords each grant has set

accountVars == <<standing, verified, google, password>>
proofVars == <<code, resetGrant, signedIn>>
historyVars == <<answers, resets>>
signInVars == <<accountVars, proofVars, pending, historyVars>>

Hash(secret, old) == [secret |-> secret, old |-> old]
NoHash == Hash(None, FALSE)
NoCode == [id |-> 0, state |-> "none", mine |-> FALSE, wrong |-> 0]
NoAnswers == [wrong |-> 0, right |-> 0]
Nothing == [op |-> "nothing"]

-----------------------------------------------------------------------------
(* Requests.                                                                  *)

Arrives(r, row) == pending[r] = Nothing /\ pending' = [pending EXCEPT ![r] = row]
Is(r, op) == pending[r].op = op
Goes(r, row) == pending' = [pending EXCEPT ![r] = row]
Done(r) == Goes(r, Nothing)

\* The request was refused, its client is gone or its process has stopped.
Drop(r) ==
  /\ pending[r] # Nothing /\ Done(r)
  /\ UNCHANGED <<accountVars, proofVars, historyVars>>

\* Every code and grant of the account is consumed.
Consumed(codes) ==
  [t \in Purposes |-> IF codes[t].mine THEN [codes[t] EXCEPT !.state = "over"] ELSE codes[t]]
Spent(grants) == [g \in ResetGrants |-> IF grants[g] = "live" THEN "over" ELSE grants[g]]

-----------------------------------------------------------------------------
(* Codes.                                                                     *)

Eligible(type) ==
  /\ standing = "open"
  /\ CASE type = "EMAIL_VERIFICATION" -> ~verified
       [] type = "ACCOUNT_CLOSURE" -> verified
       [] type = "PASSWORD_RESET" -> password # NoHash

\* issue() looks for the account by its address before its transaction; only
\* the owner, signed in, asks for the code that closes it.
AskForCode(r, type) ==
  /\ type = "ACCOUNT_CLOSURE" => signedIn # {}
  /\ Arrives(r, [op |-> "issue", type |-> type, known |-> standing # "none"])
  /\ UNCHANGED <<accountVars, proofVars, historyVars>>

\* A code for nobody looks the same to whoever asked, but is of no account.
Issue(r) ==
  LET type == pending[r].type IN
  /\ Is(r, "issue")
  /\ code[type].id < MaxCodes[type]
  /\ code' = [code EXCEPT ![type] =
       [id |-> @.id + 1, state |-> "live", wrong |-> 0,
        mine |-> pending[r].known /\ Eligible(type)]]
  /\ answers' = [answers EXCEPT ![type] = NoAnswers]
  /\ Done(r)
  /\ UNCHANGED <<accountVars, resetGrant, signedIn, resets>>

\* consume() finds the challenge before its transaction, to know whom to lock.
EnterCode(r, type) ==
  /\ code[type].id # 0
  /\ type = "ACCOUNT_CLOSURE" => signedIn # {}
  /\ Arrives(r, [op |-> "consume", type |-> type, saved |-> code[type]])
  /\ UNCHANGED <<accountVars, proofVars, historyVars>>

\* Under the locks the challenge is read again, unless a newer one replaced it.
Challenge(r) ==
  IF code[pending[r].type].id = pending[r].saved.id THEN code[pending[r].type] ELSE NoCode

WrongCode(r) ==
  LET type == pending[r].type
      wrong == Challenge(r).wrong + 1
  IN
  /\ Is(r, "consume") /\ Challenge(r).state = "live"
  /\ code' = [code EXCEPT ![type] =
       [Challenge(r) EXCEPT !.wrong = wrong,
                            !.state = IF wrong >= MaxAttempts THEN "over" ELSE "live"]]
  /\ answers' = [answers EXCEPT ![type].wrong = @ + 1]
  /\ Done(r)
  /\ UNCHANGED <<accountVars, resetGrant, signedIn, resets>>

\* The right code of an account that may still use it.
Accepts(r, type) ==
  /\ Is(r, "consume") /\ pending[r].type = type
  /\ Challenge(r).state = "live" /\ Challenge(r).mine /\ Eligible(type)
  /\ answers' = [answers EXCEPT ![type].right = @ + 1]

Used(type) == [code EXCEPT ![type].state = "over"]

\* confirmEmail(): the session is opened after the transaction.
ConfirmEmail(r) ==
  /\ Accepts(r, "EMAIL_VERIFICATION")
  /\ verified' = TRUE
  /\ code' = Used("EMAIL_VERIFICATION")
  /\ Goes(r, [op |-> "open", hash |-> NoHash])
  /\ UNCHANGED <<standing, google, password, resetGrant, signedIn, resets>>

\* verifyPasswordOtp(): a new grant, which replaces the ones before.
VerifyPasswordOtp(r, g) ==
  /\ Accepts(r, "PASSWORD_RESET")
  /\ resetGrant[g] = "none"
  /\ code' = Used("PASSWORD_RESET")
  /\ resetGrant' = [Spent(resetGrant) EXCEPT ![g] = "live"]
  /\ Done(r)
  /\ UNCHANGED <<accountVars, signedIn, resets>>

\* close(), of an account that owes nothing.
Close(r) ==
  /\ Accepts(r, "ACCOUNT_CLOSURE")
  /\ standing' = "closed"
  /\ signedIn' = {}
  /\ code' = Consumed(code)
  /\ resetGrant' = Spent(resetGrant)
  /\ Done(r)
  /\ UNCHANGED <<verified, google, password, resets>>

-----------------------------------------------------------------------------
(* Registration and new passwords.                                            *)

\* register() goes on to send the first code.
Register(r, secret) ==
  /\ standing = "none"
  /\ standing' = "open"
  /\ password' = Hash(secret, FALSE)
  /\ Arrives(r, [op |-> "issue", type |-> "EMAIL_VERIFICATION", known |-> TRUE])
  /\ UNCHANGED <<verified, google, proofVars, historyVars>>

\* resetPassword() reads the grant, hashes the password, then locks the user.
BeginReset(r, g, secret) ==
  /\ resetGrant[g] = "live"
  /\ Arrives(r, [op |-> "reset", grant |-> g, secret |-> secret])
  /\ UNCHANGED <<accountVars, proofVars, historyVars>>

Faulty_StillGranted(g) == TRUE
StillGranted(g) == resetGrant[g] = "live"

ResetPassword(r) ==
  LET g == pending[r].grant IN
  /\ Is(r, "reset")
  /\ password # NoHash /\ standing = "open" /\ StillGranted(g)
  /\ password' = Hash(pending[r].secret, FALSE)
  /\ signedIn' = {}
  /\ resetGrant' = Spent(resetGrant)
  /\ code' = [code EXCEPT !["PASSWORD_RESET"].state = IF @ = "live" THEN "over" ELSE @]
  /\ resets' = [resets EXCEPT ![g] = @ + 1]
  /\ Done(r)
  /\ UNCHANGED <<standing, verified, google, answers>>

-----------------------------------------------------------------------------
(* Sessions.                                                                  *)

\* login() verifies the right password against the hash it read.
Login(r) ==
  /\ standing # "none" /\ password # NoHash /\ verified
  /\ Arrives(r, [op |-> "open", hash |-> password])
  /\ UNCHANGED <<accountVars, proofVars, historyVars>>

\* A Google sign-in finds the linked account, or makes one without a password.
GoogleCallback(r) ==
  /\ google \/ standing = "none"
  /\ IF standing = "none"
     THEN standing' = "open" /\ verified' = TRUE /\ google' = TRUE
     ELSE UNCHANGED <<standing, verified, google>>
  /\ Arrives(r, [op |-> "open", hash |-> NoHash])
  /\ UNCHANGED <<password, proofVars, historyVars>>

\* create(): under the row lock, for the hash that was verified; a hash made by
\* old parameters is replaced.
Faulty_Current(hash) == TRUE
Current(hash) == hash \in {NoHash, password}

OpenSession(r) ==
  LET hash == pending[r].hash IN
  /\ Is(r, "open")
  /\ standing = "open" /\ Current(hash)
  /\ password' = IF hash.old THEN Hash(hash.secret, FALSE) ELSE password
  /\ signedIn' = signedIn \cup {hash.secret}
  /\ Done(r)
  /\ UNCHANGED <<standing, verified, google, code, resetGrant, historyVars>>

\* Sessions end: by revokeCurrent(), revokeOne(), revokeAll(), or with time.
SignOut ==
  /\ \E left \in SUBSET signedIn : left # signedIn /\ signedIn' = left
  /\ UNCHANGED <<accountVars, code, resetGrant, pending, historyVars>>

\* linkAccount() looks at the session of its sender, then writes the link.
BeginLink(r) ==
  /\ signedIn # {} /\ password # NoHash /\ ~google
  /\ Arrives(r, [op |-> "link"])
  /\ UNCHANGED <<accountVars, proofVars, historyVars>>
Link(r) ==
  /\ Is(r, "link") /\ ~google
  /\ google' = TRUE
  /\ Done(r)
  /\ UNCHANGED <<standing, verified, password, proofVars, historyVars>>

-----------------------------------------------------------------------------
(* Administrators, and time.                                                  *)

\* setLock(locked)
LockAccount ==
  /\ standing = "open"
  /\ standing' = "locked"
  /\ code' = Consumed(code)
  /\ resetGrant' = Spent(resetGrant)
  /\ signedIn' = {}
  /\ UNCHANGED <<verified, google, password, pending, historyVars>>

\* setLock(unlocked), and restore() of a closed account.
UnlockAccount ==
  /\ standing \in {"locked", "closed"}
  /\ standing' = "open"
  /\ UNCHANGED <<verified, google, password, proofVars, pending, historyVars>>

Expires ==
  /\ \/ \E t \in Purposes :
          /\ code[t].state = "live" /\ code' = Used(t) /\ UNCHANGED resetGrant
     \/ \E g \in ResetGrants :
          /\ resetGrant[g] = "live" /\ resetGrant' = [resetGrant EXCEPT ![g] = "over"]
          /\ UNCHANGED code
  /\ UNCHANGED <<accountVars, signedIn, pending, historyVars>>
-----------------------------------------------------------------------------
\* Nobody has registered, or somebody has long ago, when passwords were hashed
\* by old parameters.
SignInInit ==
  /\ \/ standing = "none" /\ verified = FALSE /\ password = NoHash
     \/ standing = "open" /\ verified = TRUE /\ password \in {Hash(s, TRUE) : s \in Secrets}
  /\ google = FALSE
  /\ code = [t \in Purposes |-> NoCode]
  /\ resetGrant = [g \in ResetGrants |-> "none"]
  /\ signedIn = {}
  /\ pending = [r \in Visitors |-> Nothing]
  /\ answers = [t \in Purposes |-> NoAnswers]
  /\ resets = [g \in ResetGrants |-> 0]

Visit(r) ==
  \/ \E t \in Purposes : AskForCode(r, t) \/ EnterCode(r, t)
  \/ \E s \in Secrets : Register(r, s) \/ \E g \in ResetGrants : BeginReset(r, g, s)
  \/ Login(r) \/ GoogleCallback(r) \/ BeginLink(r)

Continue(r) ==
  \/ Issue(r) \/ WrongCode(r) \/ ConfirmEmail(r) \/ Close(r)
  \/ \E g \in ResetGrants : VerifyPasswordOtp(r, g)
  \/ ResetPassword(r) \/ OpenSession(r) \/ Link(r) \/ Drop(r)

SignInNext ==
  \/ \E r \in Visitors : Visit(r) \/ Continue(r)
  \/ SignOut \/ LockAccount \/ UnlockAccount \/ Expires

SignInSpec == SignInInit /\ [][SignInNext]_signInVars

-----------------------------------------------------------------------------
(* Properties.                                                                *)

Hashes == [secret : Secrets \cup {None}, old : BOOLEAN]
Challenges == [id : Nat, state : {"none", "live", "over"}, mine : BOOLEAN, wrong : Nat]
Rows ==
  {Nothing} \cup [op : {"link"}] \cup [op : {"open"}, hash : Hashes]
  \cup [op : {"issue"}, type : Purposes, known : BOOLEAN]
  \cup [op : {"consume"}, type : Purposes, saved : Challenges]
  \cup [op : {"reset"}, grant : ResetGrants, secret : Secrets]

\* The types of the account's rows.
SignInTypeOK ==
  /\ standing \in {"none", "open", "locked", "closed"}
  /\ verified \in BOOLEAN /\ google \in BOOLEAN /\ password \in Hashes
  /\ code \in [Purposes -> Challenges]
  /\ resetGrant \in [ResetGrants -> {"none", "live", "over"}]
  /\ signedIn \subseteq Secrets \cup {None}
  /\ pending \in [Visitors -> Rows]
  /\ answers \in [Purposes -> [wrong : Nat, right : Nat]]
  /\ resets \in [ResetGrants -> Nat]

\* A session that can be used was opened by what is the password now, and its
\* account is open: no login that was on its way while the password was reset,
\* the account locked, closed or opened again leaves a session behind
\* (SessionService.create checks both under the row lock).
SessionsAreCurrent ==
  \A p \in signedIn : standing = "open" /\ p \in {None, password.secret}

\* A code is accepted once, and takes no more wrong answers than the limit, however
\* many answers to it run at the same time (AuthOtpService.consume).
CodesActOnce ==
  \A t \in Purposes :
    /\ answers[t].right <= 1 /\ answers[t].wrong <= MaxAttempts
    /\ answers[t].right = 1 => answers[t].wrong < MaxAttempts

\* A confirmed code changes the password at most once, the account has at most one
\* grant to do so, and none while it is locked or closed: what was confirmed before
\* a reset or a lock sets no password after it (AuthRecoveryService).
ResetsByOneGrant ==
  /\ \A g, h \in ResetGrants : resetGrant[g] = "live" /\ resetGrant[h] = "live" => g = h
  /\ \A g \in ResetGrants :
       resets[g] <= 1 /\ (resetGrant[g] = "live" => standing = "open" /\ resets[g] = 0)

\* Neither a code nor what it grants acts twice, whatever requests race for it.
ProofsActOnce == CodesActOnce /\ ResetsByOneGrant
=============================================================================

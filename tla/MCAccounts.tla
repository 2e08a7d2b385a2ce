----------------------------- MODULE MCAccounts -----------------------------
(* One account: its password and the ways back into it, the account itself,   *)
(* or the connections of its AI clients.  One house: the reminders of its     *)
(* debts, its recurring bills, or the AI summary of one of its months.  The   *)
(* pictures of a listing and a profile.  Each behaviour explores one of       *)
(* these; the others stand still.                                             *)
EXTENDS SignIn, McpOAuth, DebtReminders, RecurringBills, HouseSummary, Pictures, TLC

VARIABLE focus

CodeLimits == [t \in Purposes |-> IF t = "PASSWORD_RESET" THEN 2 ELSE 1]
Calendar == <<2, 1, 2>>

\* Balances of three participants, and what of them waits to be confirmed.
Owe(x, y, z, waiting) == [balance |-> <<x, y, z>>, waiting |-> waiting]
OneToTwo == {[from |-> 1, to |-> 2, amount |-> 1]}
SomeBooks ==
  {Owe(0, 0, 0, {}), Owe(-2, 1, 1, {}), Owe(-2, 1, 1, OneToTwo), Owe(-1, 1, 0, {}),
   Owe(-1, -1, 2, {}), Owe(-3, 2, 1, {})}

FocusInit ==
  /\ focus \in {"recovery", "account", "clients", "debts", "bills", "summary", "pictures"}
  /\ SignInInit /\ McpInit /\ DebtInit /\ RecurringInit /\ SummaryInit /\ PicturesInit
  /\ focus \notin {"recovery", "account"} => standing = "none"
  /\ focus = "recovery" => standing = "open"

\* Passwords, codes and sessions of an old account; or everything but the codes
\* that reset a password.
SignInFocus ==
  /\ SignInNext
  /\ IF focus = "recovery" THEN ~google' /\ code'["ACCOUNT_CLOSURE"].id = 0
     ELSE code'["PASSWORD_RESET"].id = 0
  /\ UNCHANGED <<mcpVars, debtVars, billVars, summaryVars, pictureVars>>

FocusNext ==
  /\ \/ focus \in {"recovery", "account"} /\ SignInFocus
     \/ focus = "clients" /\ McpNext /\ UNCHANGED <<signInVars, debtVars, billVars, summaryVars, pictureVars>>
     \/ focus = "debts" /\ DebtNext /\ UNCHANGED <<signInVars, mcpVars, billVars, summaryVars, pictureVars>>
     \/ focus = "bills" /\ RecurringNext /\ UNCHANGED <<signInVars, mcpVars, debtVars, summaryVars, pictureVars>>
     \/ /\ focus = "summary" /\ SummaryNext
        /\ UNCHANGED <<signInVars, mcpVars, debtVars, billVars, pictureVars>>
     \/ /\ focus = "pictures" /\ PicturesNext
        /\ UNCHANGED <<signInVars, mcpVars, debtVars, billVars, summaryVars>>
  /\ UNCHANGED focus

\* Two secrets, sessions, mails, saves or images; two requests, schedulers or
\* tabs; two grants or generations.
Symmetry == Permutations(Secrets) \cup Permutations(Visitors) \cup Permutations(Grants)

FocusSpec == FocusInit /\ [][FocusNext]_<<signInVars, mcpVars, debtVars, billVars, summaryVars, pictureVars, focus>>
=============================================================================

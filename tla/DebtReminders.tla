---------------------------- MODULE DebtReminders ----------------------------
(* Reminders of unpaid debts in one house: promises to pay on a day, the week *)
(* between two reminders, and the mails that wait to be sent.  Every change   *)
(* of the books ends with sync() under the house lock; what the books may     *)
(* say comes from HouseLedger and is only chosen here.  Moments are kept as   *)
(* the ticks that are left until them, so that time never ends.               *)
EXTENDS Community, Integers, Sequences, FiniteSets, FiniteSetsExt, SequencesExt

CONSTANTS
  Debtors,     \* the participants of the house, by number
  Unregistered, \* those without an account
  Books,       \* bound: [balance, waiting] of the house that may occur
  Mails,       \* bound: notifications kept at once
  Mailers,     \* processes that send mails
  Week,        \* ticks between two reminders
  MaxPromise,  \* bound: ticks until the end of the promised day
  MaxTries     \* email_attempts before a mail is given up

Worth(transfers) == [t \in transfers |-> t.amount]
Sent(waiting, p) == SumFunctionOnSet(Worth(waiting), {t \in waiting : t.from = p})
Received(waiting, p) == SumFunctionOnSet(Worth(waiting), {t \in waiting : t.to = p})

ASSUME RemindersAssumption ==
  /\ None \notin Nat /\ IsFiniteSet(Debtors) /\ Debtors \subseteq Nat
  /\ Unregistered \subseteq Debtors
  /\ Week \in Nat \ {0} /\ MaxPromise \in Nat /\ MaxTries \in Nat \ {0}
  /\ \A book \in Books :
       /\ book.balance \in [Debtors -> Int]
       /\ SumFunctionOnSet(book.balance, Debtors) = 0
       /\ \A p \in Debtors :
            /\ Sent(book.waiting, p) <= Max({0, -book.balance[p]})
            /\ Received(book.waiting, p) <= Max({0, book.balance[p]})

VARIABLES
  book,     \* balances, and transfers that wait for their recipient
  owed,     \* the transfers the last sync() found missing
  promise,  \* repayment_promises: amount and ticks left, 0 where there is none
  reminder, \* debt_reminders
  mail,     \* notifications with a mail
  mailer    \* what each process has claimed, and what it is sending

debtVars == <<book, owed, promise, reminder, mail, mailer>>

NoPromise == [amount |-> 0, left |-> 0]
NoDebt == [open |-> FALSE, age |-> 0, unpaid |-> 0, paused |-> 0, next |-> None]
NoMail == [state |-> "none", to |-> None, amount |-> 0, tries |-> 0, leased |-> FALSE]
Resting == [batch |-> {}, sending |-> None]

-----------------------------------------------------------------------------
(* settlementTransfers(): the largest debts meet the largest claims.          *)

Queue(amount) ==
  LET open == {p \in Debtors : amount[p] > 0}
      Before(p) == {q \in open : amount[q] > amount[p] \/ (amount[q] = amount[p] /\ q <= p)}
  IN [i \in 1..Cardinality(open) |->
        LET p == CHOOSE p \in open : Cardinality(Before(p)) = i IN [id |-> p, left |-> amount[p]]]

Faulty_Less(row, n) == <<>>
Less(row, n) == IF row.left = n THEN <<>> ELSE <<[row EXCEPT !.left = @ - n]>>

Paired(d, c) == IF d.left < c.left THEN d.left ELSE c.left

\* The first debt is paid to the first claim; what is left of either comes next.
Repayment(q) ==
  [from |-> Head(q[1]).id, to |-> Head(q[2]).id, amount |-> Paired(Head(q[1]), Head(q[2]))]
Remaining(q) ==
  LET n == Repayment(q).amount
  IN <<Less(Head(q[1]), n) \o Tail(q[1]), Less(Head(q[2]), n) \o Tail(q[2])>>

Piles == Seq([id : Nat, left : Nat])
Meet[q \in Piles \X Piles] ==
  IF q[1] = <<>> \/ q[2] = <<>> THEN {} ELSE {Repayment(q)} \cup Meet[Remaining(q)]

Transfers(balance) ==
  Meet[<<Queue([p \in Debtors |-> -balance[p]]), Queue(balance)>>]

\* As if the waiting transfers were confirmed.
Available(b) ==
  Transfers([p \in Debtors |-> b.balance[p] + Sent(b.waiting, p) - Received(b.waiting, p)])

-----------------------------------------------------------------------------
(* sync()                                                                     *)

\* A promise stays while both sides are open and it covers what is owed.
Kept(b, missing, promises) ==
  [d \in Debtors |-> [c \in Debtors |->
     IF /\ b.balance[d] < 0 /\ b.balance[c] > 0
        /\ ~\E t \in missing : t.from = d /\ t.to = c /\ t.amount > promises[d][c].amount
     THEN promises[d][c] ELSE NoPromise]]

Covers(p, t) == p.amount >= t.amount /\ p.left > 0

\* The first day promised, if every transfer that p owes is promised.
PausedUntil(missing, promises, p) ==
  LET creditors == {c \in Debtors : \E t \in missing : t.from = p /\ t.to = c} IN
  IF creditors # {} /\ \A t \in missing : t.from = p => Covers(promises[p][t.to], t)
  THEN Min({promises[p][c].left : c \in creditors}) ELSE 0

Unpaid(b, p) == Max({0, -b.balance[p] - Sent(b.waiting, p)})

Faulty_NextAt(old, unpaid, paused) == IF unpaid = 0 THEN None ELSE Max({Week - old.age, old.paused})
NextAt(old, unpaid, paused) == IF unpaid = 0 THEN None ELSE Max({Week - old.age, paused})

Synced(b, missing, promises, p) ==
  LET old == reminder[p]
      unpaid == Unpaid(b, p)
      paused == PausedUntil(missing, promises, p)
  IN IF p \in Unregistered \/ b.balance[p] >= 0 THEN NoDebt
     ELSE [open |-> TRUE, age |-> old.age, unpaid |-> unpaid, paused |-> paused,
           next |-> NextAt(old, unpaid, paused)]

\* The mails of p that wait are cancelled when they no longer say the truth.
Faulty_Outdated(p, new) == ~new.open \/ new.unpaid = 0
Outdated(p, new) ==
  ~new.open \/ new.unpaid = 0 \/ new.paused > 0 \/ new.unpaid # reminder[p].unpaid

Cancelled(m) == [mail[m] EXCEPT !.state = IF @ = "queued" THEN "off" ELSE @]

SyncReminders(b, missing, promises) ==
  LET kept == Kept(b, missing, promises)
      new == [p \in Debtors |-> Synced(b, missing, kept, p)]
  IN /\ book' = b /\ owed' = missing
     /\ promise' = kept
     /\ reminder' = new
     /\ mail' = [m \in Mails |->
          IF mail[m].to # None /\ Outdated(mail[m].to, new[mail[m].to])
          THEN Cancelled(m) ELSE mail[m]]
     /\ UNCHANGED mailer

\* Any change of expenses or transfers.
BooksChange(b) == b # book /\ SyncReminders(b, Available(b), promise)

\* save() and cancel() of a promise; what is not owed now cannot be promised.
MakePromise(t, left) ==
  /\ t \in owed /\ t.from \notin Unregistered
  /\ SyncReminders(book, owed, [promise EXCEPT ![t.from][t.to] = [amount |-> t.amount, left |-> left]])
CancelPromise(d, c) ==
  /\ promise[d][c] # NoPromise
  /\ SyncReminders(book, owed, [promise EXCEPT ![d][c] = NoPromise])

-----------------------------------------------------------------------------
(* The schedulers of reminders and of mails.                                  *)

Held(m) == \E i \in Mailers : m \in mailer[i].batch \/ mailer[i].sending = m

\* runDue(): after sync(), a new mail replaces the one of the week before.
RunDue ==
  LET kept == Kept(book, owed, promise)
      new == [p \in Debtors |-> Synced(book, owed, kept, p)]
      due == {p \in Debtors : new[p].unpaid > 0 /\ new[p].next = 0}
      left == {m \in Mails : mail[m].state # "queued" /\ ~Held(m)}
  IN \E row \in [due -> left] :
       /\ \A p, q \in due : row[p] = row[q] => p = q
       /\ promise' = kept
       /\ reminder' = [p \in Debtors |->
            IF p \in due THEN [new[p] EXCEPT !.age = 0, !.next = Week] ELSE new[p]]
       /\ mail' = [m \in Mails |->
            IF \E p \in due : row[p] = m
            THEN LET p == CHOOSE p \in due : row[p] = m IN
                 [NoMail EXCEPT !.state = "queued", !.to = p, !.amount = new[p].unpaid]
            ELSE IF mail[m].to # None /\ (mail[m].to \in due \/ Outdated(mail[m].to, new[mail[m].to]))
            THEN Cancelled(m) ELSE mail[m]]
       /\ UNCHANGED <<book, owed, mailer>>

\* deliver(): a batch is claimed for five minutes,
ClaimMails(i) ==
  LET batch == {m \in Mails : mail[m].state = "queued" /\ ~mail[m].leased /\ mail[m].tries < MaxTries} IN
  /\ mailer[i] = Resting /\ batch # {}
  /\ mailer' = [mailer EXCEPT ![i].batch = batch]
  /\ mail' = [m \in Mails |->
       IF m \in batch THEN [mail[m] EXCEPT !.tries = @ + 1, !.leased = TRUE] ELSE mail[m]]
  /\ UNCHANGED <<book, owed, promise, reminder>>

\* each mail is read again, and dropped if its debt is paid, waiting or promised,
CheckMail(i, m) ==
  LET of == reminder[mail[m].to]
      wanted == of.open /\ of.unpaid > 0 /\ of.paused = 0
  IN
  /\ mailer[i].sending = None /\ m \in mailer[i].batch
  /\ mailer' = [mailer EXCEPT ![i] =
       [batch |-> @.batch \ {m},
        sending |-> IF mail[m].state # "off" /\ wanted THEN m ELSE None]]
  /\ mail' = IF wanted THEN mail ELSE [mail EXCEPT ![m].state = "off"]
  /\ UNCHANGED <<book, owed, promise, reminder>>

\* and marked when it was sent; otherwise it is tried again after the lease.
MarkSent(i) ==
  LET m == mailer[i].sending IN
  /\ m # None
  /\ mail' = [mail EXCEPT ![m].state = IF @ = "off" THEN "off" ELSE "sent"]
  /\ mailer' = [mailer EXCEPT ![i].sending = None]
  /\ UNCHANGED <<book, owed, promise, reminder>>

\* The mail cannot be sent, or was sent and could not be marked.
SendFails(i) ==
  /\ mailer[i].sending # None
  /\ mailer' = [mailer EXCEPT ![i].sending = None]
  /\ UNCHANGED <<book, owed, promise, reminder, mail>>

MailerStops(i) ==
  /\ mailer[i] # Resting
  /\ mailer' = [mailer EXCEPT ![i] = Resting]
  /\ UNCHANGED <<book, owed, promise, reminder, mail>>

LeaseLapses(m) ==
  /\ mail[m].leased
  /\ mail' = [mail EXCEPT ![m].leased = FALSE]
  /\ UNCHANGED <<book, owed, promise, reminder, mailer>>

Sooner(n) == IF n = None \/ n = 0 THEN n ELSE n - 1

DebtsAge ==
  /\ promise' = [d \in Debtors |-> [c \in Debtors |-> [promise[d][c] EXCEPT !.left = Sooner(@)]]]
  /\ reminder' = [p \in Debtors |->
       [reminder[p] EXCEPT !.age = IF reminder[p].open /\ @ < Week THEN @ + 1 ELSE @,
                           !.paused = Sooner(@), !.next = Sooner(@)]]
  /\ UNCHANGED <<book, owed, mail, mailer>>

-----------------------------------------------------------------------------
DebtInit ==
  /\ book \in {b \in Books : \A p \in Debtors : b.balance[p] = 0}
  /\ owed = Available(book)
  /\ promise = [d \in Debtors |-> [c \in Debtors |-> NoPromise]]
  /\ reminder = [p \in Debtors |-> NoDebt]
  /\ mail = [m \in Mails |-> NoMail]
  /\ mailer = [i \in Mailers |-> Resting]

DebtNext ==
  \/ \E b \in Books : BooksChange(b)
  \/ \E t \in owed, left \in 1..MaxPromise : MakePromise(t, left)
  \/ \E d, c \in Debtors : CancelPromise(d, c)
  \/ RunDue \/ DebtsAge
  \/ \E i \in Mailers :
       \/ ClaimMails(i) \/ MarkSent(i) \/ SendFails(i) \/ MailerStops(i)
       \/ \E m \in Mails : CheckMail(i, m)
  \/ \E m \in Mails : LeaseLapses(m)

DebtSpec == DebtInit /\ [][DebtNext]_debtVars

-----------------------------------------------------------------------------
(* Properties.                                                                *)

\* The proposed transfers pay every debt and claim exactly: each pair pays what its
\* debt and its claim have in common when both are laid out in order.
TransfersAreExact ==
  LET paid == Transfers(book.balance) IN
  /\ \A p \in Debtors : Received(paid, p) - Sent(paid, p) = book.balance[p]
  /\ \A t \in paid : t.amount > 0
  /\ Cardinality(paid) < Cardinality({p \in Debtors : book.balance[p] # 0}) \/ paid = {}

\* A mail that waits is the only one to its debtor and says the truth: the debt is
\* open, of the amount in its title, and not promised for a later day; whatever was
\* recorded, paid, confirmed or promised since it was written (cancelQueued).
WaitingMailIsTrue ==
  \A m \in Mails : mail[m].state = "queued" =>
    LET of == reminder[mail[m].to] IN
    /\ of.open /\ of.paused = 0
    /\ mail[m].amount > 0 /\ mail[m].amount = Unpaid(book, mail[m].to)
    /\ \A n \in Mails \ {m} : mail[n].state = "queued" => mail[n].to # mail[m].to

\* Nothing puts a reminder off for longer than a week after the last one, but for a
\* promise until its day: neither changes of the books nor promises that were kept,
\* cancelled or broken (ExpenseRemindersService.sync).
NobodyIsForgotten ==
  \A p \in Debtors : reminder[p].unpaid > 0 /\ reminder[p].paused = 0 =>
    reminder[p].next <= Week - reminder[p].age
=============================================================================

# Roomora: a TLA+ verification project

Roomora (`src/backend`, NestJS, Prisma and PostgreSQL; `src/frontend`, Next.js) lets people find
rooms and roommates, share a household's expenses, and buy paid services. This directory models the
parts of it where money, permissions and messages meet concurrency, failure and stale clients, checks
the models with TLC and proves what matters most with TLAPS.

## 1. Inventory

Every request handler runs one or more database transactions; rows are locked with
`SELECT ... FOR UPDATE`, so a transaction is atomic once it has its locks, and the interesting
interleavings lie *between* transactions: around calls to PayOS, MoMo, the AI provider, Cloudinary and
the mail server, while a password is hashed, between a page a client shows and the form it sends, and
between timers and handlers. The API may run in several processes; only PostgreSQL and Redis are shared.

| Component | State | Operations | Hard part | What makes it correct |
|---|---|---|---|---|
| Service orders and payments (`modules/billing`) | `service_orders`, `listing_boosts`, `ai_credit_packs` | create, checkout, sync, webhook, expiry, reconciliation | links opened outside transactions under a 45 s lease; late, repeated, lost and reordered notifications | one waiting order per round; one outcome per payment; a payment is final; every full PayOS transfer is recorded |
| Refunds (`modules/billing`) | `service_refund_requests`, actions | request, review, recipient, verify, begin, reconcile, retry, fail, proof, complete | stale pages, MoMo calls between transactions, answers that never come | rejected only if no money went back, completed once and on returned money; money only to an attested account |
| AI credits (`modules/ai-credits`, `modules/ai`) | `ai_credit_uses`, `ai_credit_packs` | reserve, refund, buy, refund a pack | provider failures, concurrent uses, crashes, refunds of packs in use | never more uses than credits; a credit is spent or given back |
| AI summary of a month (`modules/ai`, `components/ai`) | `ai_house_summaries`, lease, notes | generate, regenerate, save notes | slow generations that outlive their lease; notes written in two tabs meanwhile | a credit buys exactly a saved summary; notes are never written over unseen |
| Listings, photos, moderation (`modules/listings`, `modules/admin`) | `listings`, `listing_photos` | edit, submit, review, close, delete, upload, remove | the posting round that ties payments to a posting; assets outside the transaction | closing ends the boost and the unpaid orders; what is shown is stored |
| Houses, memberships, invites (`modules/houses`) | `house_members`, `house_invites` | found, invite, accept, revoke, transfer, leave | two orders of row locks, deadlocks, checks made before a lock | one home per person, an owner among the members, every request ends |
| House chat, conversations (`modules/houses`, `modules/communications`, `components`) | messages, polls, read markers, what a tab shows | send, edit, delete, vote, read, load, sync | signals lost, answers out of order, retries of messages whose answer was lost | nothing on a screen goes back; it catches up; a message is stored once |
| Connections and visits (`modules/people`, `modules/communications`) | connections, blocks, appointments with history | invite, answer, block, propose, move, confirm, cancel | pairs that part and meet again in the other direction; stale terms | markers stay with people; both agreed on one time; nothing outlives the link |
| Expenses and debts (`modules/expenses`) | `expenses`, splits, supplier payments, `debt_payments`, corrections | create, edit, cancel, pay, confirm, reject, correct, settle | competing transfers, edits between payments, corrections over several rounds | balances sum to zero; a waiting transfer can be confirmed; rounds explain the balances |
| Promises and reminders (`modules/expenses`, `notifications`) | `repayment_promises`, `debt_reminders`, mail leases | promise, sync, run due, claim and send | debts paid while a mail waits; mail processes that die | a queued mail says the truth; nobody is put off for ever |
| Cost sharing (`modules/cost-sharing`) | periods, rounds, ballots, rules | vote, propose, resolve, reopen, count | members who come and go during a vote; stale rounds | nobody pays by a rule they did not agree to; an agreement stands |
| Recurring bills (`modules/household`) | rules, drafts | plan, draft, confirm, skip | downtime of months, two schedulers at once | each month is billed once, none is lost |
| Accounts (`modules/auth`) | users, `auth_otps`, `auth_tokens`, sessions | register, verify, log in, recover, link Google, lock, close | hashing and mailing between reads and writes; codes answered twice at once | a session is of the present password; a code or grant acts once |
| MCP and OAuth (`modules/roomora-mcp`) | authorizations, grants, refresh tokens | authorize, decide, exchange, refresh, revoke | codes and tokens presented twice and at once | one grant per code; the chain of tokens never forks |
| Listing quota, identity declarations, support, admin views, lookup, locations, receipts, mail, deployment | single rows or none | reads and single-row updates | none of the above | – |

They interact by shared rows and direct calls: a payment reads the listing's state and the account's,
grants a boost or an AI pack, or opens a refund; a refund that completes ends the boost or the pack;
closing a listing expires its orders; closing an account requires that orders, refunds and houses are
settled and ends connections, codes and sessions; every change of the books ends with the reminders'
`sync()`; a month's rule splits the expenses recurring bills produce; the browser hears of changes by
signals that carry nothing and asks for everything anew.

## 2. Modules

| Module | Role |
|---|---|
| `Absent`, `Community` | the null column and the people, shared by the modules that are checked together |
| `ServiceBilling` | orders, checkout, notifications, PayOS reconciliation, the benefit, and the listing and account steps around them |
| `RefundLifecycle` | abstract: what a refund promises |
| `RefundWorkflow` | the refund as the staff, the buyer and MoMo carry it out; implements `RefundLifecycle` |
| `AiCredits` | the credit wallet and the provider call that spends it |
| `DebtBook` | abstract: what the shared ledger of a house promises |
| `HouseLedger` | expenses, supplier payments, transfers, settlement and corrections of one house; implements `DebtBook` |
| `HouseRoster` | abstract: founding, joining, leaving, passing on a house, one atomic step each |
| `HouseMembership` | the same as requests that read, wait for row locks and write; implements `HouseRoster` |
| `CostSharing` | the votes on how a house shares its costs; extends `HouseRoster`, whose steps move the members |
| `Contacts` | connections, blocks, conversations and visits of pairs of people |
| `LiveUpdates` | a tab that shows a conversation or a house chat, the server behind it and the signals between them |
| `Composer` | the box in which a message is written, recorded and sent again |
| `SignIn` | one account: password, codes, reset grants, sessions |
| `McpOAuth` | the connections of the account's AI clients |
| `DebtReminders` | settlement transfers, promises, reminders and the mails that wait |
| `RecurringBills` | rules, drafts and schedulers |
| `HouseSummary` | the AI summary of one month, its lease, credit and notes, in several tabs |
| `Pictures` | listing photos and the avatar against Cloudinary |
| `MC*` | instances for TLC; each `.cfg` is one run |
| `Sums` | lemmas about sums over finite sets |
| `ServiceBilling_proofs`, `RefundWorkflow_proofs`, `HouseLedger_proofs`, `HouseMembership_proofs` (with `CostSharing` and `AiCredits`, which the run `fairness` composes too), `Contacts_proofs` (with `Composer` and `LiveUpdates`), `Accounts_proofs` (`SignIn`, `McpOAuth`, `Pictures`), `HouseMonths_proofs` (`RecurringBills`, `HouseSummary`, `DebtReminders`) | theorems |

Conventions. An action is one database transaction, or one step of a handler between two
transactions. A handler that talks to an external service is a record (`task`, `call`, `pending`, `gen`)
that carries what it read; anything may happen before its next step. A request that is refused changes
nothing, so refusals are disabled actions. Rate limits, which only refuse, are left out. Variables
commented *history* record what happened and guard nothing. Definitions named `Faulty_*` are
the plausible bugs each property is tried against; no action uses them.

### ServiceBilling

* `terms`, `status`, `due`, `url`, `saved`, `lease`, `lapsed`, `transfer` are columns of
  `service_orders`. Times appear only as what is compared with them: `due` (`expiresAt` passed),
  `lapsed` (lease older than 45 s). `saved` stands for `providerLinkId`.
* `listing[l]` holds status, posting round (`boostRound`), `isFull`, and the order behind
  `boostUntil`. Its end by elapsed time is not modelled: nothing depends on it but the ranking and
  the quota.
* `link` and `captured` are the gateway's side: the payment link of an order, the transfers on it.
* `create()` and `createAi()` are `BeginCreate`, `Read`/`Join`, `Settle`, `CommitCreate`; `checkout()`
  is `BeginOrder`, `Read`, `Settle`, `Claim`, `Gateway`, `Save`, `Finally`; `sync()` and
  `reconcilePayos()` are the shorter paths. `Join` is the in-memory map that shares a read.
* `Webhook` delivers anything the gateway could report, at any time and any number of times. The
  table of signatures that makes a repeated event return early is left out: a repeat is handled as a
  new event, so what holds does not rest on it.
* A refund has the four states of `RefundLifecycle`.

### RefundLifecycle and RefundWorkflow

`RefundLifecycle` says that a refund opens once, is rejected only if the gateway returned nothing,
returns money only while open, and completes once and on money that went back. `RefundWorkflow`
keeps `service_refund_requests` column by column. The optimistic `version` is modelled by what it
decides: `current` holds the people whose page shows the latest version, every change empties it for
that refund, and `requireVersion` is membership; so no bound on versions is needed. `BeginMomo`,
`Original`, `SendRefund`, `ApplyGateway` are `begin()` with `MomoRefundsService.create()`;
`Reconcile`, `Query`, `ApplyGateway` are `reconcile()`. Every call may fail on either side of its
effect (`Uncertain`), die (`Abandon`), and MoMo may end a refund order later (`Resolve`) or the
payment may be returned in its console (`ReturnOutside`). `Stage` maps the seven statuses to the four
abstract ones.

### AiCredits

`used` is `freeUsed` of a wallet or `used` of a pack; `status`, `source` are `ai_credit_uses`; `held`
and `revoked` are the columns that block a pack. `Reserve` is `reserve()` with the `recover()` it
begins with; the provider call is the `call` of a user on an instance; `Complete`, `Release` are the
two ways out, `ReleaseLost`, `Crash` the failures. The credits of a user are one-off (`freeAiCredits`),
not monthly.

### DebtBook and HouseLedger

`DebtBook` knows only balances and promised transfers: the balances always sum to zero, a change of
the records moves them while no transfer waits, and a transfer is promised and paid only out of a
debt and into a claim. `HouseLedger` has the rows of one house:

* `presence[p]` is `leftAt` of a participant, member or guest; `closed` is the house's `closedAt`.
  Any member or guest joins and leaves; that an owner transfers the house before leaving is the matter
  of `HouseRoster`.
* `expense[e]` holds status, payer, amount, splits (`shares`, a share of zero being the same as not
  being listed) and `paidAmount`; `supplier[e]` is the sum of its supplier payments. `ADJUSTMENT_REQUIRED`
  is read but never written by the code, so it does not appear.
* `corrections[e]` is in order of `version`: what the expense says from then on (`to`), the
  difference booked (`delta`) and whether it is settled. `payment[q]` is a `debt_payments` row.
* `Balance` is `calculateHouseBalances()`: nothing is stored, everything is added up from the rows.
* Each service method is one action, because all take the row lock of the house first. `Splits(n)`
  are all splits that add up to `n`: both ways in which the code makes them (`expenseSplits`, or
  `sharingAmounts` of a monthly rule) are among them. A stale `version` is refused, and a repeated
  `clientId` answered from the stored row; both leave the state alone.

### HouseRoster, HouseMembership, CostSharing

`HouseRoster` has the rows of houses and members and one atomic step per operation. In
`HouseMembership` a request (`call[c]`) reads before its transaction (`ReadFirst`), then waits for the
user's row, the house's row or both (`LockUser`, `LockHouse`; a closure locks every house its user was
ever in, in order), waits once more for the user rows its new rows refer to (`Mentioned`, the share
lock of a foreign key), and writes. `Deadlocked` requests wait for each other; PostgreSQL rolls one of
them back (`RollBack`).

In `CostSharing` every operation takes the row of the house and is one step, but members move by the
steps of `HouseRoster` between them. A period keeps its latest round: the phase, the members it began
with (`hash`, `sharingHash()` of who is a member since when), the rule that is put to the vote, the
votes. `Refreshed` is `refresh()`, `Sync` is `sync()`, in `Look` with what `list()` then refreshes to show it; `Vote` and `Proposal` name the round their page
showed. `assent` and `pledges` record who agreed to which rule.

### Contacts, LiveUpdates, Composer

In `Contacts` a pair has one connection and one conversation for ever, reused when it meets again in
either direction; the columns `senderRead` and `receiverRead` change sides with it. `seen[u][v]`
is the appointment as u's page last loaded it: answers name its version. A message keeps the hash of what
was first sent, by which a repeated `clientId` is recognised.

`LiveUpdates` is one tab in front of the server. `PeerSends`, `PeerEdits`, `LinkChanges`, `Own*` change
rows and raise a signal, which carries nothing and is lost while the server does not listen
(`ListenerLost`) or the stream is broken; the stream ticks every minute (`Tick`). On the tab, `Syncs`
starts `load()`, which asks for the conversation (`RoomReceived`), then for the newest page or
those after the oldest one shown, merged by version (`Merged`, `mergeMessages`), and last marks what it
shows as read (`Loaded`); a refusal of any of these takes the thread off the screen (`LoadDenied`).
Answers are computed in one step (`LoadAnswered`) and received in another, so they come late and in any
order.

`Composer` is `message-composer.tsx` with the requests it sends (`requests`), which may arrive after
the box gave them up, and the messages stored under a `clientId`. `SameDraft` is the test by which a
retry keeps its `clientId`. The recorder has the states of `MediaRecorder`, and the browser may grant
the microphone after the page is gone.

### SignIn, McpOAuth

In `SignIn` a request reads rows, hashes or mails, and only then runs its transaction: `pending[r]` is
what it read. A session is known by the proof that opened it (a password, or Google), since those of
one proof are alike. `code[t]` is the last challenge of a type with its wrong answers; `resetGrant` are
the tokens by which a confirmed code may set a password. In `McpOAuth`, `exchange[c]` is a request for
tokens between its first read and its lock; `mcpGrant[g]` holds how many refresh tokens were made and
which are spent. Sessions end in any number at once (`SessionsEnd`): signing out, a reset or a lock.

### DebtReminders, RecurringBills, HouseSummary, Pictures

`DebtReminders` takes the balances a house may have as `Books`, and keeps what `sync()` derives from
them: `promise`, `reminder` and the queued `mail`s. Moments are the ticks left until them. A mail
process claims a batch under a lease, checks each mail again and marks it when sent; it may stop
anywhere. `Transfers` is `settlementTransfers()`. In `RecurringBills` a process reads the day and the due
rules (`BeginRun`) and then makes at most `CatchUp` drafts of a rule in each transaction
(`GenerateDrafts`). `HouseSummary` follows a generation from the request over the lease and the provider
to the saved row and the answer, which may be lost, and tabs that show a version of the row while notes
are typed into them. `Pictures` uploads before the row and deletes after it; a request found the album
in some version and writes only if it still has it. No step spans the database and Cloudinary, so a
`Mishap` can leave them apart: the process dies (`ProcessDies`), a clean-up fails (`DeleteAssets`), an
upload that was given up after 45 s arrives when its clean-up found nothing and ended well (`UploadFails`,
`ArrivesLate`), or a transaction commits and its answer is lost, so that the new asset is deleted
although its row is there (`Commits`). `astray` records the pictures such a mishap happened to;
`PicturesAreStored` says that it happens to no other.

## 3. Runs

Several small subsystems that do not interact are checked in one run: `focus` is chosen in
the first state and says which of them moves; the others stand still. So a run's states are the sum of
the parts and not the product, and every action is still the one of its module.

| Run | Properties | Shows |
|---|---|---|
| `billing_orders` | `OrdersAreExclusive` `OneBenefitPerRound` `MoneyAccounted` `BoostIsEarned` | two handlers against two orders of one listing, leases lapsing, two transfers; or the listing is closed and posted again while the old payment pages stay payable |
| `billing_life` | `ClosedAccountIsQuiet` `PaidIsFinal` `PaidIsSettled` | every listing and account operation and every notification against one order at either gateway; with every webhook lost, the worker records each full PayOS payment |
| `refunds` | `OneCallPerRefund` `RecipientAttested` `KeepsPromise` `ReachedResolves` | administrators and the buyer work from stale pages; `RefundWorkflow` implements `RefundLifecycle`; a refund order that reached MoMo leaves PROCESSING |
| `refunds_stuck` | `UncertainResolves` | **violated**: finding 1 |
| `refunds_references` | `TransfersDistinct` | **violated**: finding 2 |
| `ledger` | `WaitingIsCovered` `SupplierAccounted` `RoundsAddUp` `KeepsBook` | two expenses and two transfers of three people that compete for one debt or one claim; or a bill that is edited, paid in parts, settled and corrected over several rounds while people leave, return or close the house; `HouseLedger` implements `DebtBook` |
| `ledger_settled` | `SettledMeansBalanced` | **violated**: finding 3 |
| `community` | `ReadMarkersFollowPeople` `RetryIsRecognised` `NothingOutlivesTheLink` `VisitsAreAgreed` `HousesAreSound` `VotesAreSound` `AgreementStands` `ComposerIsSound` | two people: their connection with messages, or with visits; two requests on two houses; the votes of a house; the message box |
| `fairness` | `CreditsAreSound` `RosterSpec` `VotesAreCounted` `EveryCallEnds` `EveryUseSettles` | what ends although much fails: requests on a house, deadlocks included, which implement the roster; votes whose deadline passed; reserved AI credits |
| `accounts` | `SessionsAreCurrent` `ProofsActOnce` `TokensActOnce` `TransfersAreExact` `WaitingMailIsTrue` `NobodyIsForgotten` `EachMonthIsBilledOnce` `SummariesArePaid` `NotesAreKept` `PicturesAreStored` | one account under two concurrent requests; its AI clients; a house's reminders, recurring bills and summaries; pictures |
| `clients_limit` | `LimitCanBeLifted` | **violated**: finding 4 |
| `screens` | `NothingGoesBack` `ScreenCatchesUp` | a tab while others write, edit and delete, links are cut and restored, and signals, connections and answers are lost or late |

### Findings

1. `admin-refunds.service.ts:248`. A MoMo refund whose order never reached MoMo (the process died
   after `begin()` committed, or the query before the refund timed out) stays PROCESSING: `reconcile()`
   asks only for an order MoMo does not have, `retry()` needs FAILED, and no other operation accepts
   it. The module's README says an uncertain refund is reconciled before it is tried again.
2. `admin-refunds.service.ts:428`. `complete()` compares a reference in upper case with the
   identifiers of its own refund, but looks for other refunds with it as typed: two spellings of one
   bank transfer complete two refunds, which the README's unique reference is meant to exclude.
3. `expense-balances.service.ts:68`. `get()` reports `isSettled` when some expense exists and nothing
   is unsettled, without looking at the balances. If an expense is paid back and then cancelled after
   an earlier round was settled, the page says everything is settled and disables settling while two
   people owe each other; the module's README says settlement needs every balance at zero.
4. `mcp-oauth.service.ts:243`. The limit of ten connections counts grants whose session has ended, the
   settings page lists only those whose session lives: after ten such connections a new one is refused
   with "Revoke an existing connection", and there is none to revoke for up to fourteen days.

### Bounds

* Sets: one user, account or house, at most two listings, orders, refunds, handlers, requests,
  administrators, tabs and clients; two is where conflicts between *two* rows or actors happen, and the
  theorems below hold for any number. Three people where two creditors meet one debtor (`ledger`,
  `DebtReminders`).
* `MaxRound` = 2: one late round against the current one. `Explored` and `Offered` restrict which
  listing states, account states and order targets an instance visits; every action fires in some run.
* `Uses` = 2 in `fairness`: a free credit and one of a pack. `RefundWorkflow` has no numeric bound.
* `ledger`: `Amounts` 1 and 2 let a bill be paid in parts and a correction grow or shrink; `Unpaid`
  bounds the open part of a new bill, `MaxCorrections` = 2 its corrections, so that one is settled
  before the next.
* `community`: `MaxInvited` = 4 lets a pair part and meet again in the other direction, `MaxMoved` = 2
  and two `Starts` let a visit be moved under a stale page, `MaxRounds` = 2 lets a vote be reopened;
  `MaxAttachments`, `MaxSends`, `MaxDrops` let a message be sent three times with two answers lost.
* `accounts`: `MaxAttempts` = 2 for wrong answers that race for the last attempt; `MaxTokens` = 3 for a
  token that comes back two renewals later; `Week` = 2 and `MaxPromise` = 1; `Calendar` has months of
  different lengths, the last one only to be planned for; `CatchUp` = 1, so downtime needs several
  batches; two faults or one mishap, beside which a second picture must stay as it should be.
* `screens`: two messages, one to a page, two changes, one fault.

Symmetry is used on handlers, transfers, staff, people, texts, secrets and identifiers, and in no run
that checks liveness. `CHECK_DEADLOCK FALSE` appears where identifiers run out or a focus comes to its
end: `ledger`, `community`, `fairness`, `accounts`, `screens` and their violated variants.

### Fairness

* `ServiceBilling`: the scheduler calls `expire()` every minute and takes the linked order reconciled
  longest ago, so each waits finitely long for its claim (`SF` on `Reconcile`); a read of PayOS fails
  now and then, not for ever (`SF` on the worker's `Read` and `Settle`); a handler with an answer
  ends. Nothing is assumed of webhooks or buyers. This needs `BILLING_RECONCILE_ENABLED`.
* `RefundWorkflow`: no timer reconciles refunds, so this is an assumption about people: the staff
  keeps opening what is in process and reconciling it, and a call that brings news sometimes succeeds.
  MoMo ends what it accepted.
* `AiCredits`: time passes, and the user opens an AI page again, each of which recovers old uses.
* `HouseMembership`: PostgreSQL grants a row lock in the order of the requests for it, so who can
  proceed again and again does (`SF`), and it looks for deadlocks after a second (`WF` on rolling back).
* `CostSharing`: the scheduler runs every minute. That one house which cannot be synchronised ends the
  scheduler's whole run is outside this (a hazard without a property).
* `LiveUpdates`: requests are answered or given up, timers fire, the server listens again, a broken
  stream is opened again or refused. A load ends before the next tick of 60 s, as `apiFetch` gives up
  after less.
* `Contacts`, `Composer`, `HouseLedger` and the modules of `accounts` have no fairness: nobody must
  write, pay or answer anything, and only safety is claimed.

## 4. Proofs

All theorems are stated as `Spec => []P` or `Spec => P` for every value of the constants that meets the
assumptions of the module: types, disjointness of names, and finiteness where something is counted or added
up (`Uses` and `Packs`; the people, expenses and transfers of a house, and its debtors; sessions, members
and photos are shown to be finite). The bounds of the runs are constants too and may be any number. The runs
check the same definitions, and also stand for the assumptions, which TLC evaluates.

* **ServiceBilling_proofs.** First `TypeOK` (it also says a handler's order exists, which every later
  step needs). `SafetyInv` adds `PaymentInv`: nothing was granted or refunded by the system before an
  order is paid. Each step is then shown to be `Quiet` (no payment, no benefit) or `Capturing`, and
  only the latter needs an argument: `Eligible` excludes a second benefit of the round. `BoostInv` adds
  `RoundInv` (an order never belongs to a round its listing has not reached; otherwise the round that
  begins could find a payment waiting for it) and `RefundInv` (only paid orders have refunds).
  `OrdersExclusive` needs `LeaseInv`: a handler that asks the gateway holds the lease of its order
  unless the order stopped waiting, because a dead link clears the lease and lets another handler take
  it. `ClosedSafe` needs that a listing off the market has no boost (`QuietInv`).
* **RefundWorkflow_proofs.** `CallInv`: a call holds the lease of its refund, which stays PROCESSING
  meanwhile. So what it learned (`AnswerInv`) is still true when it is applied, and MoMo holds money
  only for a refund in process or completed (`MoneyInv`). From these, every step is a step of
  `RefundLifecycle` or a stutter (`Implements`).
* **Sums.** A sum over a set (`SumFunctionOnSet`) is a recursive function on its subsets. `SumIs` says
  that what adds one member at a time is that sum; it is proved by taking a least set on which the two
  would differ, which needs no induction theorem. The other lemmas follow from it (one summand changes,
  a sum of a sum, over a part, over other names).
* **HouseLedger_proofs.** A balance is one sum over expenses and one over transfers, of which an operation
  changes a row (`BalancesAre`). `LInv` is inductive: `RowsInv` (splits add up, only settled expenses are
  corrected, a transfer waits between two people), `WaitingIsCovered`, `RoundsAddUp` and `ZeroSum` need each
  other: an expense changes while nothing waits, so it cannot uncover anything; a settlement needs the rows
  of the round to explain the balances, so what it marks adds up to nothing. `Implements` then maps every
  operation to a step of `DebtBook`. `SettledStays` follows action by action.
* **HouseMembership_proofs.** What a request found under its locks still holds when it writes: a join
  or a closure holds the row of its user, so nobody else gives that user a house (`UserInv`); other
  writes, and an accept, hold the row of their house, so nobody closes it (`HouseInv`). `InviteInv`:
  an invitation counts one joining more. With these each commit is a step of `HouseRoster`
  (`Implements`). For `CostSharing`: only members of a round vote in it and those whose vote agrees are
  on record (`RowSound`, for each period), and what a period falls back on was agreed by the members
  it names; so whatever a round decides was agreed to by every payer. For
  `AiCredits`: `CreditsInv` conjoins the checked invariant with `RefundBlocksPack` (a pack with an open
  refund is held, with a completed one revoked): without it a pack under refund could be charged again.
  That the counters are right needs cardinality lemmas, since one step of `recover()` may give back
  several uses. `SettledForGood` follows from the same invariant.
* **Contacts_proofs.** The sides of a connection are its two people and exchange markers when they
  exchange places (`MarkersInv`); whatever blocks a pair or closes an account severs its link and ends
  its visits in one step; a version of a visit has one row for ever (`VisitInv`), so a client whose
  version is current confirms what it was shown. For `Composer`: a `clientId` stands for one content
  until the box is emptied (`IdsInv`), and a recorder and a request exclude each other
  (`RecorderInv`). For `LiveUpdates`: whatever is shown or on its way to the tab is a version the server
  has or had (`LiveInv`), and merging never prefers the older one.
* **Accounts_proofs.** `CodesInv` and `GrantsInv` for `SignIn`: a live challenge is the row of its type,
  its attempts are the wrong answers to it, and a grant nobody was given has set no password. `ChainInv` for
  `McpOAuth`: of the tokens of a grant all but the last are spent. `FreshInv` and `FoundInv` for
  `Pictures`: a publicId belongs to one request until it is in a row, a request whose version still
  holds found the album as it is, and what is still on its way after its clean-up went astray. So only a
  picture that a mishap happened to is ever missing or left behind, for any number of mishaps.
* **HouseMonths_proofs.** `RecurringBills`: the day a rule is due next is later than any it was billed
  for, on a date of its own. `HouseSummary`: who holds the lease was the last to take it
  (`LeaseInv`), so summaries are saved and paid in that order (`PaidInv`), and a version is one content
  (`SeenInv`). `DebtReminders`: a reminder says what is owed (`RemindersInv`), and a mail that waits
  agrees with it (`MailsInv`). `TransfersExact` is about the loop of `settlementTransfers()` for any number
  of debtors and creditors. The set it proposes is a recursive function of the two queues, so first some
  function obeys its equation: the one that collects what every relation closed under the equation
  relates to the queues (`Unfolds`, `MeetIs`). A repayment leaves fewer rows, and what it pays is what
  the two people lose (`StepPays`); so a pair of queues with equal totals that is not paid off, and is
  shortest, would leave a shorter one (`AllPay`). Last, the order of a queue puts everybody with an open
  amount into it once (`Ranked`, `QueueFacts`), and since the balances add up to nothing, the two
  queues add up to the same.

Only model-checked:

* The liveness properties (`PaidIsSettled`, `ReachedResolves`, `VotesAreCounted`, `EveryCallEnds`,
  `EveryUseSettles`, `ScreenCatchesUp`): fairness and ENABLED are outside the prover's reach.
* The invariants of `AiCredits` are proved for a user's one wallet and packs as the module has them; that
  HouseSummary's credit is one of those is only by the shape of the two modules.

## 5. Limits

* A second transfer on a paid PayOS link is answered 409 and never recorded; the model keeps it at the
  gateway and shows only that it disturbs nothing. A lost MoMo order notification is never looked up.
* Amounts of orders are not modelled: PayOS compares the amount paid with the order's before it is a full
  transfer, and a different sum is the link state `partial`.
* The 24 hours in which a buyer may ask for a refund are the guard of `Request`, not a clock.
* A checkout that fails to save the link it opened gives that link to nobody, so `Pay` needs a saved one;
  that the link stays open at the gateway is a hazard without a property.
* No job looks for pictures that went astray: an upload that arrives after its clean-up stays in
  Cloudinary, and when the answer to a COMMIT is lost the row of a photo names an asset that was deleted.
  `PicturesAreStored` shows that this is all that can happen to them, not that it cannot.
* Receipts, proofs, titles and dates of expenses, and who may see or do what in the ledger, are left out:
  as long as a house is open its owner, who may do all of it, is a member.
* `LiveUpdates` shows one screen of one tab; a stream that was refused for good stays so until the
  page is opened anew (a hazard without a property), as is the conflict message of `AiSummary`, after
  which the user's own notes stay in the box.
* Of the source lines, most are forms, lists and markup of the browser client, tables of data, request
  validation and queries: they hold no state that a step could leave wrong. The components with status
  `not_modelled` have no behaviour worth a model (reads, single-row updates under one lock, wrappers of
  external services).

## 6. Plan

1. That the reminders' books are those of `HouseLedger`: `DebtReminders` assumes of `Books` what
   `DebtBook` promises.
2. That the credit of `HouseSummary` is a use of `AiCredits`, as a refinement of its `use`.

--------------------------- MODULE ServiceBilling ---------------------------
(***************************************************************************)
(* Paid services: orders, checkout, payment notifications, reconciliation  *)
(* with PayOS, and the benefit each payment earns (modules/billing), with  *)
(* the listing, account and moderation steps that decide whether a late    *)
(* payment still earns it.                                                 *)
(*                                                                         *)
(* A database transaction locks user, listing and order rows in that order *)
(* and is one step.  Calls to the payment gateway happen between           *)
(* transactions: a request in flight carries what it read, and anything    *)
(* can happen before its next step.  The gateway, the buyer and the clock  *)
(* are the environment.  A refund is a state here (open, rejected,         *)
(* completed); module RefundWorkflow opens it up.                          *)
(***************************************************************************)
EXTENDS Naturals, FiniteSets

CONSTANTS
  Users,
  Listings,
  Owner,      \* the user who owns each listing
  Orders,     \* order numbers, given out in increasing order (createdAt)
  Requests,   \* HTTP handlers in flight
  Worker,     \* the background reconciliation task
  Transfers,  \* transaction references of the payment providers
  Providers,  \* values of BILLING_PAYMENT_PROVIDER over time
  ReconcileEnabled, \* BILLING_RECONCILE_ENABLED
  MaxRound,   \* bound on posting rounds
  Offered,    \* bound: what the orders of an instance may buy
  Explored,   \* bound: listing and account states an instance explores
  None

Tasks == Requests \cup {Worker}

\* What an order buys: a boost of a listing, or AI credits for a user.
Targets == Listings \cup Users

ASSUME BillingAssumption ==
  /\ Owner \in [Listings -> Users]
  /\ Listings \cap Users = {}
  /\ Orders \subseteq Nat
  /\ Worker \notin Requests
  /\ None \notin Tasks \cup Transfers \cup Orders \cup Targets
  /\ "dead" \notin Tasks
  /\ Providers \subseteq {"PAYOS", "MOMO_SANDBOX"}
  /\ ReconcileEnabled \in BOOLEAN
  /\ MaxRound \in Nat
  /\ Transfers \cap {"PENDING", "PROCESSING", "CANCELLED", "EXPIRED", "created", None} = {}

VARIABLES
  account,   \* account[u]: "open", "locked", "closed"
  listing,   \* listing[l]: status, posting round, isFull, order behind boostUntil
  terms,     \* terms[o]: what order o was created with
  status,    \* status[o]
  due,       \* orders whose expiresAt has passed
  url,       \* orders with a payUrl
  saved,     \* orders whose payment page was saved (PayOS: providerLinkId)
  lease,     \* lease[o]: the task behind checkoutLeaseAt, "dead" after it crashed
  lapsed,    \* orders whose checkout lease is older than 45 seconds
  transfer,  \* transfer[o]: providerTransId
  granted,   \* orders with a listing boost or an AI pack
  refund,    \* refund[o]: the refund request of the order
  system,    \* refund requests whose source is SYSTEM
  link,      \* link[o]: the payment link at the gateway
  captured,  \* captured[o]: transfers the gateway holds for the order
  task       \* task[r]: the HTTP handler or worker task r

orderVars   == <<terms, status, due, url, saved, lease, lapsed, transfer>>
benefitVars == <<granted, refund, system>>
gatewayVars == <<link, captured>>
vars == <<account, listing, orderVars, benefitVars, gatewayVars, task>>

-----------------------------------------------------------------------------
ClosedLink == {"CANCELLED", "EXPIRED"}
Answers == Transfers \cup {"PENDING", "PROCESSING", "created"} \cup ClosedLink

Idle == [stage |-> "idle", op |-> None, target |-> None, order |-> None, answer |-> None]
NoTerms == [target |-> None, round |-> 0, provider |-> None]

\* A notification, or the payment a read of the gateway returns.
Event == [order : Orders, result : {"paid", "failed", "pending"},
          transfer : Transfers \cup {None}]

ListingState ==
  [status : {"DRAFT", "PENDING", "PUBLISHED", "REJECTED", "CLOSED", "DELETED"},
   round : Nat, full : BOOLEAN, boost : Orders \cup {None}]
\* A create that asks the gateway nothing has no order yet.
Stages == {"read", "settle", "shared", "commit", "gateway", "save", "finally"}
CreateTask ==
  [stage : {"commit"}, op : {"create"}, target : Targets, order : {None}, answer : {None}]
OrderTask ==
  [stage : Stages, op : {"create", "checkout", "sync"}, target : Targets,
   order : Orders, answer : Answers \cup {None}]
TaskState == {Idle} \cup CreateTask \cup OrderTask

TypeOK ==
  /\ account \in [Users -> {"open", "locked", "closed"}]
  /\ listing \in [Listings -> ListingState]
  /\ terms \in [Orders ->
       {NoTerms} \cup [target : Targets, round : Nat, provider : Providers]]
  /\ status \in [Orders ->
       {"NONE", "PENDING", "PAID", "FAILED", "EXPIRED", "CANCELLED"}]
  /\ due \in SUBSET Orders /\ url \in SUBSET Orders /\ saved \in SUBSET Orders
  /\ lease \in [Orders -> Tasks \cup {None, "dead"}] /\ lapsed \in SUBSET Orders
  /\ transfer \in [Orders -> Transfers \cup {None}]
  /\ granted \in SUBSET Orders
  /\ refund \in [Orders -> {"NONE", "OPEN", "REJECTED", "COMPLETED"}]
  /\ system \in SUBSET Orders
  /\ link \in [Orders -> {"none", "open", "partial", "declined"} \cup ClosedLink]
  /\ captured \in [Orders -> SUBSET Transfers]
  /\ task \in [Tasks -> TaskState]
  /\ \A o \in Orders : status[o] # "NONE" => terms[o] # NoTerms
  /\ \A r \in Tasks : task[r].order # None => status[task[r].order] # "NONE"

-----------------------------------------------------------------------------
(* What the transactions read.                                             *)

Buyer(t) == IF t \in Listings THEN Owner[t] ELSE t
Round(t) == IF t \in Listings THEN listing[t].round ELSE 0
Exists(o) == status[o] # "NONE"
Fresh == {o \in Orders : ~Exists(o)}

Payos(o) == terms[o].provider = "PAYOS"
Linked(o) == Payos(o) /\ o \in saved
ForListing(o) == terms[o].target \in Listings
SameRound(p, o) ==
  terms[p].target = terms[o].target /\ terms[p].round = terms[o].round

\* requireUnpaid: no payment was recorded for this posting round.
Unpaid(t, n) ==
  \A o \in Orders : terms[o].target = t /\ terms[o].round = n => status[o] # "PAID"

Boostable(l) ==
  listing[l].status = "PUBLISHED" /\ ~listing[l].full /\ account[Owner[l]] = "open"

\* The order may still earn its benefit.
Faulty_EligibleTwice(o) ==
  IF ForListing(o)
  THEN Boostable(terms[o].target) /\ Round(terms[o].target) = terms[o].round
  ELSE account[terms[o].target] = "open"
Faulty_EligibleAnyRound(o) ==
  IF ForListing(o)
  THEN Boostable(terms[o].target) /\ Unpaid(terms[o].target, terms[o].round)
  ELSE account[terms[o].target] = "open"
Eligible(o) ==
  IF ForListing(o)
  THEN /\ Boostable(terms[o].target)
       /\ Round(terms[o].target) = terms[o].round
       /\ Unpaid(terms[o].target, terms[o].round)
  ELSE account[terms[o].target] = "open"

\* requirePayable.
Payable(o) == status[o] = "PENDING" /\ o \notin due /\ Eligible(o)

Waiting == {o \in Orders : status[o] = "PENDING"}

\* The PENDING order create() hands back instead of a second one.
Faulty_Pending(t) == {o \in Waiting : terms[o].target = t /\ o \in url}
Pending(t) == {o \in Waiting : terms[o].target = t /\ terms[o].round = Round(t)}

\* refreshPayos asks the gateway about order o in status s.
Refreshable(o, s) ==
  Payos(o) /\ s \in {"PENDING"} \cup ClosedLink /\ (o \in url \/ Linked(o))

\* The latest PayOS order of the target that might have been paid meanwhile.
Latest(t) ==
  LET open == {o \in Orders : /\ Payos(o)
                              /\ terms[o].target = t
                              /\ terms[o].round = Round(t)
                              /\ status[o] \in {"PENDING", "EXPIRED"}}
  IN {o \in open : \A p \in open : p <= o}

-----------------------------------------------------------------------------
Init ==
  /\ account = [u \in Users |-> "open"]
  /\ listing = [l \in Listings |->
       [status |-> "PUBLISHED", round |-> 1, full |-> FALSE, boost |-> None]]
  /\ terms = [o \in Orders |-> NoTerms]
  /\ status = [o \in Orders |-> "NONE"]
  /\ due = {} /\ url = {} /\ saved = {} /\ lapsed = {}
  /\ lease = [o \in Orders |-> None]
  /\ transfer = [o \in Orders |-> None]
  /\ granted = {} /\ system = {}
  /\ refund = [o \in Orders |-> "NONE"]
  /\ link = [o \in Orders |-> "none"]
  /\ captured = [o \in Orders |-> {}]
  /\ task = [r \in Tasks |-> Idle]

-----------------------------------------------------------------------------
(* Payment notifications: apply().                                         *)

\* 409: the order has another transfer, or another order has this one.  An event
\* whose signature is already recorded returns as early.  The signatures are
\* left out: a repeated event is handled like a new one here, so that what holds
\* does not rest on them.
Conflicting(e) ==
  /\ e.result = "paid"
  /\ \/ status[e.order] = "PAID" /\ transfer[e.order] # e.transfer
     \/ \E p \in Orders \ {e.order} :
          terms[p].provider = terms[e.order].provider /\ transfer[p] = e.transfer

Faulty_Captures(e) == e.result = "paid" /\ ~Conflicting(e)
Captures(e) == e.result = "paid" /\ ~Conflicting(e) /\ status[e.order] # "PAID"
Faulty_Fails(e) == e.result = "failed" /\ ~Payos(e.order)
Fails(e) == e.result = "failed" /\ ~Payos(e.order) /\ status[e.order] # "PAID"

\* Orders that stop waiting because o was paid for the same round.
Rivals(o) == {p \in Waiting \ {o} : ForListing(o) /\ SameRound(p, o)}

\* o is paid with transfer t: the benefit, or a refund request of the system.
Capture(o, t) ==
  /\ status' = [p \in Orders |->
       IF p = o THEN "PAID" ELSE IF p \in Rivals(o) THEN "EXPIRED" ELSE status[p]]
  /\ url' = url \ ({o} \cup Rivals(o))
  /\ transfer' = [transfer EXCEPT ![o] = t]
  /\ \/ /\ Eligible(o)
        /\ granted' = granted \cup {o}
        /\ listing' = [l \in Listings |->
             IF l = terms[o].target THEN [listing[l] EXCEPT !.boost = o] ELSE listing[l]]
        /\ UNCHANGED <<refund, system>>
     \/ /\ ~Eligible(o)
        /\ refund' = [refund EXCEPT ![o] = "OPEN"]
        /\ system' = system \cup {o}
        /\ UNCHANGED <<granted, listing>>
  /\ UNCHANGED <<terms, due, saved, lease, lapsed>>

Fail(o) ==
  /\ status' = [status EXCEPT ![o] = "FAILED"]
  /\ UNCHANGED <<terms, due, url, saved, lease, lapsed, transfer,
                 granted, refund, system, listing>>

Apply(e) ==
  \/ Captures(e) /\ Capture(e.order, e.transfer)
  \/ Fails(e) /\ Fail(e.order)
  \/ /\ ~Captures(e) /\ ~Fails(e)
     /\ UNCHANGED <<orderVars, benefitVars, listing>>

\* What the gateway can report of its own accord: PayOS only captured money,
\* MoMo every outcome.  A webhook may come late, out of order, twice or never.
Reportable(e) ==
  \/ e.result = "paid" /\ e.transfer \in captured[e.order]
  \/ /\ e.result \in {"failed", "pending"} /\ e.transfer = None
     /\ ~Payos(e.order)
     /\ link[e.order] = "declined" \/ (link[e.order] = "open" /\ e.result = "pending")

Webhook(e) ==
  /\ Exists(e.order)
  /\ Reportable(e)
  /\ Apply(e)
  /\ UNCHANGED <<account, gatewayVars, task>>

-----------------------------------------------------------------------------
(* Tasks: create, checkout, sync and the reconciliation worker.            *)

Become(r, stage, op, t, o) ==
  task' = [task EXCEPT ![r] =
    [stage |-> stage, op |-> op, target |-> t, order |-> o, answer |-> None]]
Move(r, stage) == task' = [task EXCEPT ![r].stage = stage, ![r].answer = None]
End(r) == task' = [task EXCEPT ![r] = Idle]

\* updateMany: orders of the set that are waiting past their deadline expire.
Expired(os) == [o \in Orders |-> IF o \in os \cap Waiting \cap due THEN "EXPIRED" ELSE status[o]]

\* create() and createAi() first check the latest PayOS order at the gateway.
BeginCreate(r, t) ==
  /\ task[r] = Idle /\ t \in Offered
  /\ \/ \E o \in Latest(t) : /\ Refreshable(o, status[o])
                             /\ Become(r, "read", "create", t, o)
     \/ /\ \A o \in Latest(t) : ~Refreshable(o, status[o])
        /\ Become(r, "commit", "create", t, None)
  /\ UNCHANGED <<account, listing, orderVars, benefitVars, gatewayVars>>

\* checkout() and sync() first expire and load the order: get().
BeginOrder(r, op, o) ==
  /\ task[r] = Idle
  /\ Exists(o)
  /\ status' = Expired({o})
  /\ \/ /\ Refreshable(o, status'[o])
        /\ Become(r, "read", op, terms[o].target, o)
     \/ /\ ~Refreshable(o, status'[o]) /\ op = "checkout"
        /\ Become(r, "commit", op, terms[o].target, o)
  /\ UNCHANGED <<account, listing, terms, due, url, saved, lease, lapsed,
                 transfer, benefitVars, gatewayVars>>

\* reconcilePayos() claims a linked order and refreshes it.
Faulty_Reconciled(o) == Linked(o) /\ status[o] = "PENDING"
Reconciled(o) == Linked(o) /\ status[o] \in {"PENDING", "EXPIRED", "CANCELLED"}
Reconcile(o) ==
  /\ ReconcileEnabled
  /\ task[Worker] = Idle
  /\ Reconciled(o)
  /\ Become(Worker, "read", "sync", terms[o].target, o)
  /\ UNCHANGED <<account, listing, orderVars, benefitVars, gatewayVars>>

\* The signed answer of the gateway about o: one full transfer is a payment,
\* any other money needs a human.
Answered(o, a) ==
  \/ link[o] # "partial" /\ captured[o] = {a}
  \/ a = "PROCESSING" /\ (link[o] = "partial" \/ Cardinality(captured[o]) > 1)
  \/ a = "PENDING" /\ link[o] = "open" /\ captured[o] = {}
  \/ a \in ClosedLink /\ link[o] = a /\ captured[o] = {}

Read(r) ==
  /\ task[r].stage = "read"
  /\ \E a \in Answers :
       /\ Answered(task[r].order, a)
       /\ task' = [task EXCEPT ![r].stage = "settle", ![r].answer = a]
  /\ UNCHANGED <<account, listing, orderVars, benefitVars, gatewayVars>>

\* syncPayos() in one process shares the read of the order already in flight.
Join(r, s) ==
  /\ task[r].stage = "read" /\ task[s].stage = "settle"
  /\ task[s].order = task[r].order
  /\ task' = [task EXCEPT ![r].stage = "shared", ![r].answer = task[s].answer]
  /\ UNCHANGED <<account, listing, orderVars, benefitVars, gatewayVars>>

\* closePayos().
Closes(o) == Payos(o) /\ status[o] \in {"PENDING", "EXPIRED", "CANCELLED"}
ClosePayos(o, s) ==
  \/ /\ Closes(o)
     /\ status' = [status EXCEPT ![o] = s]
     /\ url' = url \ {o}
     /\ lease' = [lease EXCEPT ![o] = None]
     /\ lapsed' = lapsed \ {o}
     /\ UNCHANGED <<terms, due, saved, transfer>>
  \/ ~Closes(o) /\ UNCHANGED orderVars

\* What follows an answer that found no money: an AI order past its deadline
\* whose link still works must wait, any other create or checkout goes on.
Stops(r) ==
  \/ task[r].op = "sync"
  \/ /\ task[r].op = "create" /\ task[r].target \in Users
     /\ task[r].answer = "PENDING" /\ task[r].order \in due
Proceed(r) == IF Stops(r) THEN End(r) ELSE Move(r, "commit")

\* syncPayos() records a payment it read, unless the read was another task's;
\* refreshPayos() closes a dead link.
Settle(r) ==
  LET o == task[r].order  a == task[r].answer IN
  /\ task[r].stage \in {"settle", "shared"}
  /\ \/ /\ a \in Transfers /\ task[r].stage = "settle"
        /\ Apply([order |-> o, result |-> "paid", transfer |-> a])
        /\ End(r)
     \/ /\ a = "PROCESSING" \/ (a \in Transfers /\ task[r].stage = "shared")
        /\ End(r)
        /\ UNCHANGED <<orderVars, benefitVars, listing>>
     \/ /\ a \in ClosedLink
        /\ ClosePayos(o, a)
        /\ Proceed(r)
        /\ UNCHANGED <<benefitVars, listing>>
     \/ /\ a = "PENDING"
        /\ Proceed(r)
        /\ UNCHANGED <<orderVars, benefitVars, listing>>
  /\ UNCHANGED <<account, gatewayVars>>

\* Due orders the transaction of a create expires: every order of the buyer,
\* or for AI credits only the AI orders, whose payUrl it clears as well.
Stale(t) ==
  {o \in Waiting \cap due :
     IF t \in Listings THEN Buyer(terms[o].target) = Owner[t] ELSE terms[o].target = t}

Orderable(t) ==
  IF t \in Listings THEN Boostable(t) /\ Unpaid(t, Round(t)) ELSE account[t] = "open"

\* The transaction of create() and createAi(): hand back the pending order or
\* place a new one.
CommitCreate(r) ==
  LET t == task[r].target IN
  /\ task[r].stage = "commit" /\ task[r].op = "create"
  /\ Orderable(t)
  /\ url' = IF t \in Listings THEN url ELSE url \ Stale(t)
  /\ \/ /\ Pending(t) \ Stale(t) # {}
        /\ status' = Expired(Stale(t))
        /\ UNCHANGED terms
     \/ /\ Pending(t) \subseteq Stale(t)
        /\ \E o \in Fresh, p \in Providers :
             /\ \A q \in Fresh : o <= q
             /\ status' = [Expired(Stale(t)) EXCEPT ![o] = "PENDING"]
             /\ terms' = [terms EXCEPT ![o] =
                  [target |-> t, round |-> Round(t), provider |-> p]]
  /\ End(r)
  /\ UNCHANGED <<account, listing, due, saved, lease, lapsed, transfer,
                 benefitVars, gatewayVars>>

\* The first transaction of checkout(): hand back the page or take the lease.
Leasable(o) == lease[o] = None \/ o \in lapsed
Claim(r) ==
  LET o == task[r].order IN
  /\ task[r].stage = "commit" /\ task[r].op = "checkout"
  /\ Payable(o)
  /\ \/ o \in url /\ End(r) /\ UNCHANGED <<lease, lapsed>>
     \/ /\ o \notin url /\ Leasable(o)
        /\ lease' = [lease EXCEPT ![o] = r]
        /\ lapsed' = lapsed \ {o}
        /\ Move(r, "gateway")
  /\ UNCHANGED <<account, listing, terms, status, due, url, saved, transfer,
                 benefitVars, gatewayVars>>

\* gateway.create(): opens the link of the order or finds the one it has.  The
\* call may fail on either side of opening it.
Gateway(r) ==
  LET o == task[r].order IN
  /\ task[r].stage = "gateway"
  /\ \/ link[o] = "none" /\ link' = [link EXCEPT ![o] = "open"]
     \/ UNCHANGED link
  /\ \/ /\ link'[o] = "open" /\ captured[o] = {}
        /\ task' = [task EXCEPT ![r].stage = "save", ![r].answer = "created"]
     \/ /\ link[o] \in ClosedLink /\ captured[o] = {}
        /\ task' = [task EXCEPT ![r].stage = "save", ![r].answer = link[o]]
     \/ Move(r, "finally")
  /\ UNCHANGED <<account, listing, orderVars, benefitVars, captured>>

\* The second transaction of checkout().
Savable(r, o) == Payable(o) /\ lease[o] = r
Save(r) ==
  LET o == task[r].order IN
  /\ task[r].stage = "save"
  /\ \/ /\ task[r].answer = "created" /\ Savable(r, o)
        /\ url' = url \cup {o}
        /\ saved' = saved \cup {o}
        /\ lease' = [lease EXCEPT ![o] = None]
        /\ lapsed' = lapsed \ {o}
        /\ End(r)
        /\ UNCHANGED <<terms, status, due, transfer>>
     \/ /\ task[r].answer = "created" /\ ~Savable(r, o)
        /\ Move(r, "finally")
        /\ UNCHANGED orderVars
     \/ /\ task[r].answer \in ClosedLink
        /\ ClosePayos(o, task[r].answer)
        /\ Move(r, "finally")
  /\ UNCHANGED <<account, listing, benefitVars, gatewayVars>>

\* The finally block gives back a lease the task still holds.
Finally(r) ==
  LET o == task[r].order IN
  /\ task[r].stage = "finally"
  /\ lease' = [lease EXCEPT ![o] = IF @ = r THEN None ELSE @]
  /\ lapsed' = IF lease[o] = r THEN lapsed \ {o} ELSE lapsed
  /\ End(r)
  /\ UNCHANGED <<account, listing, terms, status, due, url, saved, transfer,
                 benefitVars, gatewayVars>>

\* A guard refuses the task, a read of the gateway fails, or the process dies:
\* nothing more is written, and a lease stays behind.
Abandon(r) ==
  /\ task[r] # Idle
  /\ End(r)
  /\ lease' = [o \in Orders |-> IF lease[o] = r THEN "dead" ELSE lease[o]]
  /\ UNCHANGED <<account, listing, terms, status, due, url, saved, lapsed,
                 transfer, benefitVars, gatewayVars>>

-----------------------------------------------------------------------------
(* The buyer, the gateway and the clock.                                   *)

\* The buyer pays in full; at PayOS a second bank transfer can follow.
Pay(o, t) ==
  /\ o \in saved
  /\ link[o] \in {"open", "declined"}
  /\ Payos(o) \/ captured[o] = {}
  /\ \A p \in Orders : t \notin captured[p]
  /\ captured' = [captured EXCEPT ![o] = @ \cup {t}]
  /\ UNCHANGED <<account, listing, orderVars, benefitVars, link, task>>

\* PayOS receives less than the amount, or ends an unpaid link; a MoMo payment
\* is refused.
LinkEnds(o, s) ==
  /\ o \in saved
  /\ link[o] = "open" /\ captured[o] = {}
  /\ IF Payos(o) THEN s \in {"partial", "CANCELLED"} \/ (s = "EXPIRED" /\ o \in due)
     ELSE s = "declined"
  /\ link' = [link EXCEPT ![o] = s]
  /\ UNCHANGED <<account, listing, orderVars, benefitVars, captured, task>>

Elapse(o) ==
  /\ status[o] = "PENDING" /\ o \notin due
  /\ due' = due \cup {o}
  /\ UNCHANGED <<account, listing, terms, status, url, saved, lease, lapsed,
                 transfer, benefitVars, gatewayVars, task>>

\* 45 seconds pass since the claim.  A gateway call ends within 30.
Lapse(o) ==
  /\ lease[o] # None /\ o \notin lapsed
  /\ \A r \in Tasks : lease[o] = r => task[r].stage # "gateway"
  /\ lapsed' = lapsed \cup {o}
  /\ UNCHANGED <<account, listing, terms, status, due, url, saved, lease,
                 transfer, benefitVars, gatewayVars, task>>

\* The scheduler, get() and list() expire orders past their deadline.
ExpireOrder(o) ==
  /\ o \in Waiting \cap due
  /\ status' = Expired({o})
  /\ UNCHANGED <<account, listing, terms, due, url, saved, lease, lapsed,
                 transfer, benefitVars, gatewayVars, task>>

-----------------------------------------------------------------------------
(* Refunds, as far as they touch the benefit.                              *)

RequestRefund(o) ==
  /\ status[o] = "PAID" /\ refund[o] = "NONE"
  /\ refund' = [refund EXCEPT ![o] = "OPEN"]
  /\ UNCHANGED <<account, listing, orderVars, granted, system, gatewayVars, task>>

RejectRefund(o) ==
  /\ refund[o] = "OPEN"
  /\ refund' = [refund EXCEPT ![o] = "REJECTED"]
  /\ UNCHANGED <<account, listing, orderVars, granted, system, gatewayVars, task>>

\* complete() ends the boost the order paid for, and no other.
Ends(o) == o \in granted
CompleteRefund(o) ==
  /\ refund[o] = "OPEN"
  /\ refund' = [refund EXCEPT ![o] = "COMPLETED"]
  /\ listing' = [l \in Listings |->
       IF Ends(o) /\ terms[o].target = l /\ terms[o].round = listing[l].round
       THEN [listing[l] EXCEPT !.boost = None] ELSE listing[l]]
  /\ UNCHANGED <<account, orderVars, granted, system, gatewayVars, task>>

-----------------------------------------------------------------------------
(* Listings: their owner, moderators, and reports.  The session guard runs  *)
(* before the handler, so the account may be closed by the time it writes. *)

\* A change that keeps the posting round and the boost.
Relist(l, from, to, full) ==
  /\ listing[l].status \in from
  /\ to \in Explored /\ (full => "full" \in Explored)
  /\ listing' = [listing EXCEPT ![l].status = to, ![l].full = full]
  /\ UNCHANGED <<account, orderVars, benefitVars, gatewayVars, task>>

Edit(l) ==
  \E full \in {listing[l].full, FALSE} :
    Relist(l, {"DRAFT", "PENDING", "PUBLISHED", "REJECTED", "CLOSED"}, "DRAFT", full)
Submit(l) == Relist(l, {"DRAFT", "REJECTED", "CLOSED"}, "PENDING", listing[l].full)
Publish(l) ==
  account[Owner[l]] = "open" /\ Relist(l, {"PENDING"}, "PUBLISHED", listing[l].full)
Reject(l) == Relist(l, {"PENDING"}, "REJECTED", listing[l].full)
SetFull(l) == Relist(l, {"PUBLISHED"}, "PUBLISHED", ~listing[l].full)

\* The posting round of the listings ends, and their boost with it.
EndRound(ls, to) ==
  listing' = [l \in Listings |->
    IF l \in ls
    THEN [listing[l] EXCEPT !.status = to, !.round = @ + 1, !.boost = None]
    ELSE listing[l]]

\* One listing leaves the market: close(), deleteDraft(), a resolved report.
Withdraw(l, from, to) ==
  LET unpaid == {o \in Waiting : terms[o].target = l} IN
  /\ listing[l].status \in from
  /\ to \in Explored /\ listing[l].round < MaxRound
  /\ EndRound({l}, to)
  /\ status' = [o \in Orders |-> IF o \in unpaid THEN "EXPIRED" ELSE status[o]]
  /\ url' = url \ unpaid
  /\ UNCHANGED <<account, terms, due, saved, lease, lapsed, transfer,
                 benefitVars, gatewayVars, task>>

Close(l) == Withdraw(l, {"DRAFT", "PENDING", "PUBLISHED", "REJECTED"}, "CLOSED")
DeleteDraft(l) == Withdraw(l, {"DRAFT"}, "DELETED")
TakeDown(l) == Withdraw(l, {"PUBLISHED"}, "REJECTED")

-----------------------------------------------------------------------------
(* Accounts.                                                               *)

SetLock(u) ==
  /\ account[u] # "closed" /\ "locked" \in Explored
  /\ account' = [account EXCEPT ![u] = IF @ = "open" THEN "locked" ELSE "open"]
  /\ UNCHANGED <<listing, orderVars, benefitVars, gatewayVars, task>>

\* requireSettled: no order waits and no refund is open.
Faulty_Settled(u) ==
  \A o \in Orders : Exists(o) /\ Buyer(terms[o].target) = u => refund[o] # "OPEN"
Settled(u) ==
  \A o \in Orders : Exists(o) /\ Buyer(terms[o].target) = u =>
                      status[o] # "PENDING" /\ refund[o] # "OPEN"

CloseAccount(u) ==
  LET posted == {l \in Listings : Owner[l] = u /\ listing[l].status \notin {"CLOSED", "DELETED"}}
  IN
  /\ account[u] = "open"
  /\ Settled(u)
  /\ "closed" \in Explored /\ \A l \in posted : listing[l].round < MaxRound
  /\ account' = [account EXCEPT ![u] = "closed"]
  /\ EndRound(posted, "CLOSED")
  /\ UNCHANGED <<orderVars, benefitVars, gatewayVars, task>>

Reopen(u) ==
  /\ account[u] = "closed"
  /\ account' = [account EXCEPT ![u] = "open"]
  /\ UNCHANGED <<listing, orderVars, benefitVars, gatewayVars, task>>

-----------------------------------------------------------------------------
CheckoutStep(r) ==
  \/ Read(r)
  \/ \E s \in Tasks : Join(r, s)
  \/ Settle(r)
  \/ Abandon(r)
HandlerStep(r) ==
  \/ \E t \in Targets : BeginCreate(r, t)
  \/ \E o \in Orders, op \in {"checkout", "sync"} : BeginOrder(r, op, o)
  \/ CommitCreate(r)
  \/ Claim(r)
  \/ Gateway(r)
  \/ Save(r)
  \/ Finally(r)
OrderStep(o) ==
  \/ Reconcile(o)
  \/ \E t \in Transfers : Pay(o, t)
  \/ \E s \in {"partial", "CANCELLED", "EXPIRED", "declined"} : LinkEnds(o, s)
  \/ Elapse(o)
  \/ Lapse(o)
  \/ ExpireOrder(o)
  \/ RequestRefund(o)
  \/ RejectRefund(o)
  \/ CompleteRefund(o)
ListingStep(l) ==
  Edit(l) \/ Submit(l) \/ Publish(l) \/ Reject(l) \/ SetFull(l)
    \/ Close(l) \/ DeleteDraft(l) \/ TakeDown(l)
AccountStep(u) == SetLock(u) \/ CloseAccount(u) \/ Reopen(u)

Next ==
  \/ \E r \in Tasks : CheckoutStep(r)
  \/ \E r \in Requests : HandlerStep(r)
  \/ \E o \in Orders : OrderStep(o)
  \/ \E e \in Event : Webhook(e)
  \/ \E l \in Listings : ListingStep(l)
  \/ \E u \in Users : AccountStep(u)

Spec == Init /\ [][Next]_vars

\* The scheduler runs every minute and takes the order unreconciled for longest;
\* the gateway and the process fail now and then, but not every time.  No task
\* holds an answer for ever: its transaction commits, fails or times out.
Fairness ==
  /\ \A o \in Orders :
       /\ SF_vars(Reconcile(o))
       /\ SF_vars(task[Worker].order = o /\ Read(Worker))
       /\ SF_vars(task[Worker].order = o /\ task[Worker].stage = "settle" /\ Settle(Worker))
  /\ \A r \in Tasks :
       WF_vars(task[r].stage \in {"settle", "shared"} /\ (Settle(r) \/ Abandon(r)))
LiveSpec == Spec /\ Fairness

-----------------------------------------------------------------------------
(* Properties.                                                             *)

\* A recorded payment has exactly one outcome: the benefit, or a refund request
\* the system made on its own (apply: every path out of PAID).
MoneyAccounted ==
  \A o \in Orders : status[o] = "PAID" <=> (o \in granted) # (o \in system)

\* Two payments for one posting round never both earn a boost, however late
\* and in whatever order their notifications come.
OneBenefitPerRound ==
  \A p, o \in granted : ForListing(o) /\ SameRound(p, o) => p = o

\* The boost of a listing is the one an unrefunded order for its current posting
\* round earned: no other payment starts it, and neither an edit, a review, a
\* report nor the refund of another order ends it.
BoostIsEarned ==
  \A l \in Listings, o \in Orders :
    listing[l].boost = o <=> /\ o \in granted /\ refund[o] # "COMPLETED"
                            /\ terms[o].target = l
                            /\ terms[o].round = listing[l].round

\* One order waits for payment per posting round, and one AI order per user:
\* the unique index, across creates, expiry and PayOS closing links.
OnePending ==
  \A p, o \in Waiting : SameRound(p, o) => p = o

\* No two handlers ask the gateway for the link of one order at once.
GatewayExclusive ==
  \A r, s \in Requests :
    /\ task[r].stage = "gateway" /\ task[s].stage = "gateway"
    /\ task[r].order = task[s].order
    => r = s

\* What keeps a buyer from paying twice for one thing.
OrdersAreExclusive == OnePending /\ GatewayExclusive

\* A closed account has no order waiting for money and nothing published or
\* boosted, whatever handlers and notifications were under way when it closed.
ClosedAccountIsQuiet ==
  \A u \in Users : account[u] = "closed" =>
    /\ \A o \in Waiting : Buyer(terms[o].target) # u
    /\ \A l \in Listings : Owner[l] = u =>
         listing[l].status # "PUBLISHED" /\ listing[l].boost = None

\* A confirmed payment is never undone: late failures, closed links, expiry and
\* second transfers leave the order, its transfer and its benefit as they are.
PaidIsFinal ==
  [][\A o \in Orders : status[o] = "PAID" =>
       /\ status'[o] = "PAID" /\ transfer'[o] = transfer[o]
       /\ o \in granted <=> o \in granted']_vars

\* Money the gateway holds in one full transfer is recorded although every
\* webhook may be lost: the reconciliation worker gets to it.
PaidIsSettled ==
  \A o \in Orders :
    Cardinality(captured[o]) = 1 /\ link[o] # "partial" /\ Payos(o)
      ~> status[o] = "PAID" \/ Cardinality(captured[o]) > 1

=============================================================================

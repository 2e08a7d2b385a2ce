------------------------ MODULE ServiceBilling_proofs ------------------------
(***************************************************************************)
(* What ServiceBilling promises, for any users, listings, orders, requests *)
(* in flight and transfers.  Apart from the types, the argument has two    *)
(* parts: a step either captures one unpaid order or leaves every payment  *)
(* and every benefit alone (Quiet), and a capture looks at the payments of *)
(* the round before it grants anything.                                    *)
(***************************************************************************)
EXTENDS ServiceBilling, TLAPS

-----------------------------------------------------------------------------
(* Types.                                                                  *)

LEMMA TaskTypes ==
  ASSUME TypeOK, NEW r \in Tasks
  PROVE  /\ task[r] \in TaskState
         /\ task[r].stage \in Stages \ {"commit"} => task[r] \in OrderTask
         /\ task[r].stage = "commit" => task[r] \in OrderTask \cup CreateTask
         /\ task[r].stage = "commit" /\ task[r].op = "checkout" => task[r] \in OrderTask
BY DEF TypeOK, TaskState, OrderTask, CreateTask, Idle, Stages

LEMMA TaskOrder ==
  ASSUME TypeOK, NEW r \in Tasks, task[r].order # None
  PROVE  task[r].order \in Orders /\ Exists(task[r].order)
BY DEF TypeOK, TaskState, OrderTask, CreateTask, Idle, Exists

LEMMA TermsTypes ==
  ASSUME TypeOK, NEW o \in Orders, Exists(o)
  PROVE  terms[o] \in [target : Targets, round : Nat, provider : Providers]
BY DEF TypeOK, Exists

(* A task begins, moves on or ends with a well-formed state and an order    *)
(* that exists.                                                            *)
TasksOK ==
  /\ task \in [Tasks -> TaskState]
  /\ \A r \in Tasks : task[r].order # None => status[task[r].order] # "NONE"

Kept == \A o \in Orders : status[o] # "NONE" => status'[o] # "NONE"

LEMMA ReplaceType ==
  ASSUME TypeOK, Kept, NEW r \in Tasks, NEW next \in TaskState,
         next.order # None => Exists(next.order) /\ next.order \in Orders,
         task' = [task EXCEPT ![r] = next]
  PROVE  TasksOK'
<1>1. task \in [Tasks -> TaskState]
  BY DEF TypeOK
<1>2. ASSUME NEW q \in Tasks, task'[q].order # None
      PROVE  status'[task'[q].order] # "NONE"
  <2>1. CASE q = r
    BY <1>1, <1>2, <2>1 DEF Kept, Exists
  <2>2. CASE q # r
    <3>1. task'[q] = task[q]
      BY <1>1, <2>2
    <3>. QED
      BY <3>1, <1>2, TaskOrder DEF Kept, Exists
  <2>. QED
    BY <2>1, <2>2
<1>. QED
  BY <1>1, <1>2 DEF TasksOK

LEMMA SameTaskType ==
  ASSUME TypeOK, Kept, UNCHANGED task
  PROVE  TasksOK'
BY TaskOrder DEF TypeOK, TasksOK, Kept, Exists

LEMMA BecomeType ==
  ASSUME TypeOK, Kept, NEW r \in Tasks, NEW stage \in Stages,
         NEW op \in {"create", "checkout", "sync"}, NEW t \in Targets,
         NEW o \in Orders, Exists(o),
         Become(r, stage, op, t, o)
  PROVE  TasksOK'
<1> DEFINE next ==
      [stage |-> stage, op |-> op, target |-> t, order |-> o, answer |-> None]
<1>1. next \in TaskState
  BY DEF OrderTask, TaskState
<1>2. next.order = o /\ task' = [task EXCEPT ![r] = next]
  BY DEF Become
<1>. QED
  BY <1>1, <1>2, ReplaceType

LEMMA AdvanceType ==
  ASSUME TypeOK, Kept, NEW r \in Tasks, NEW stage \in Stages, NEW a \in Answers \cup {None},
         task[r] \in OrderTask,
         task' = [task EXCEPT ![r].stage = stage, ![r].answer = a]
  PROVE  TasksOK'
<1> DEFINE next == [[task[r] EXCEPT !.stage = stage] EXCEPT !.answer = a]
<1>1. next \in TaskState /\ next.order = task[r].order /\ task[r].order # None
  BY BillingAssumption DEF OrderTask, TaskState
<1>2. task \in [Tasks -> TaskState]
  BY DEF TypeOK
<1>3. task' = [task EXCEPT ![r] = next]
  BY <1>2
<1>. QED
  BY <1>1, <1>3, ReplaceType, TaskOrder

LEMMA MoveType ==
  ASSUME TypeOK, Kept, NEW r \in Tasks, NEW stage \in Stages, task[r] \in OrderTask,
         Move(r, stage)
  PROVE  TasksOK'
BY AdvanceType DEF Move

LEMMA EndType ==
  ASSUME TypeOK, Kept, NEW r \in Tasks, End(r)
  PROVE  TasksOK'
<1>1. Idle \in TaskState /\ Idle.order = None
  BY DEF TaskState, Idle
<1>. QED
  BY <1>1, ReplaceType DEF End

(* updateMany over due orders. *)
LEMMA ExpiredType ==
  ASSUME TypeOK, NEW os
  PROVE  /\ Expired(os) \in [Orders ->
              {"NONE", "PENDING", "PAID", "FAILED", "EXPIRED", "CANCELLED"}]
         /\ \A o \in Orders : Expired(os)[o] # "NONE" <=> Exists(o)
BY DEF TypeOK, Expired, Waiting, Exists

\* The parts of the state that handling a payment or a dead link touches.
OrderTypes ==
  /\ terms \in [Orders ->
       {NoTerms} \cup [target : Targets, round : Nat, provider : Providers]]
  /\ status \in [Orders ->
       {"NONE", "PENDING", "PAID", "FAILED", "EXPIRED", "CANCELLED"}]
  /\ \A o \in Orders : status[o] # "NONE" => terms[o] # NoTerms
  /\ due \in SUBSET Orders /\ url \in SUBSET Orders /\ saved \in SUBSET Orders
  /\ lease \in [Orders -> Tasks \cup {None, "dead"}] /\ lapsed \in SUBSET Orders
  /\ transfer \in [Orders -> Transfers \cup {None}]
BenefitTypes ==
  /\ granted \in SUBSET Orders
  /\ refund \in [Orders -> {"NONE", "OPEN", "REJECTED", "COMPLETED"}]
  /\ system \in SUBSET Orders
  /\ listing \in [Listings -> ListingState]

LEMMA ApplyType ==
  ASSUME TypeOK, NEW o \in Orders, Exists(o), NEW e,
         e.order = o, e.result = "paid" => e.transfer \in Transfers, Apply(e)
  PROVE  OrderTypes' /\ BenefitTypes' /\ Kept
<1>1. CASE Captures(e) /\ Capture(o, e.transfer)
  <2>1. e.transfer \in Transfers
    BY <1>1 DEF Captures
  <2>2. OrderTypes' /\ Kept
    BY <1>1, <2>1 DEF Capture, Rivals, Waiting, TypeOK, OrderTypes, Kept, Exists
  <2>3. \A l \in Listings : [listing[l] EXCEPT !.boost = o] \in ListingState
    BY DEF TypeOK, ListingState
  <2>4. BenefitTypes'
    BY <1>1, <2>3 DEF Capture, TypeOK, BenefitTypes
  <2>. QED
    BY <2>2, <2>4
<1>2. CASE Fail(o)
  BY <1>2 DEF Fail, TypeOK, OrderTypes, BenefitTypes, Kept, Exists
<1>3. CASE UNCHANGED <<orderVars, benefitVars, listing>>
  BY <1>3 DEF orderVars, benefitVars, TypeOK, OrderTypes, BenefitTypes, Kept
<1>. QED
  BY <1>1, <1>2, <1>3 DEF Apply

LEMMA ClosePayosType ==
  ASSUME TypeOK, NEW o \in Orders, NEW s \in ClosedLink, ClosePayos(o, s)
  PROVE  OrderTypes' /\ Kept
<1>1. CASE UNCHANGED orderVars
  BY <1>1 DEF orderVars, TypeOK, OrderTypes, Kept
<1>2. CASE Closes(o) /\ ~UNCHANGED orderVars
  BY <1>2 DEF ClosePayos, Closes, ClosedLink, TypeOK, OrderTypes, Kept
<1>. QED
  BY <1>1, <1>2 DEF ClosePayos


LEMMA OrderTypesKeep ==
  ASSUME TypeOK, UNCHANGED orderVars
  PROVE  OrderTypes' /\ Kept
BY DEF TypeOK, OrderTypes, Kept, orderVars

LEMMA BenefitTypesKeep ==
  ASSUME TypeOK, UNCHANGED <<benefitVars, listing>>
  PROVE  BenefitTypes'
BY DEF TypeOK, BenefitTypes, benefitVars

LEMMA TypesTogether ==
  ASSUME TypeOK, OrderTypes', BenefitTypes', TasksOK',
         account' \in [Users -> {"open", "locked", "closed"}],
         link' \in [Orders -> {"none", "open", "partial", "declined"} \cup ClosedLink],
         captured' \in [Orders -> SUBSET Transfers]
  PROVE  TypeOK'
BY DEF TypeOK, OrderTypes, BenefitTypes, TasksOK

(* The steps of a task. *)
LEMMA BeginType ==
  ASSUME TypeOK, NEW r \in Tasks,
         \/ \E t \in Targets : BeginCreate(r, t)
         \/ \E o \in Orders, op \in {"checkout", "sync"} : BeginOrder(r, op, o)
         \/ \E o \in Orders : Reconcile(o) /\ r = Worker
  PROVE  OrderTypes' /\ BenefitTypes' /\ TasksOK'
<1>1. ASSUME NEW t \in Targets, BeginCreate(r, t)
      PROVE  OrderTypes' /\ BenefitTypes' /\ TasksOK'
  <2>1. OrderTypes' /\ Kept /\ BenefitTypes'
    BY <1>1, OrderTypesKeep, BenefitTypesKeep DEF BeginCreate
  <2>2. ASSUME NEW o \in Latest(t), Become(r, "read", "create", t, o)
        PROVE  TasksOK'
    <3>1. o \in Orders /\ Exists(o)
      BY DEF Latest, Exists
    <3>. QED
      BY <2>1, <2>2, <3>1, BecomeType DEF Stages
  <2>3. ASSUME Become(r, "commit", "create", t, None)
        PROVE  TasksOK'
    <3> DEFINE next == [stage |-> "commit", op |-> "create", target |-> t,
                        order |-> None, answer |-> None]
    <3>1. next \in TaskState
      BY DEF CreateTask, TaskState
    <3>. QED
      BY <2>1, <2>3, <3>1, ReplaceType DEF Become
  <2>. QED
    BY <1>1, <2>1, <2>2, <2>3 DEF BeginCreate
<1>2. ASSUME NEW o \in Orders, NEW op \in {"checkout", "sync"}, BeginOrder(r, op, o)
      PROVE  OrderTypes' /\ BenefitTypes' /\ TasksOK'
  <2>1. OrderTypes' /\ Kept
    BY <1>2, ExpiredType DEF BeginOrder, OrderTypes, Kept, TypeOK, Exists
  <2>2. BenefitTypes'
    BY <1>2, BenefitTypesKeep DEF BeginOrder
  <2>3. terms[o].target \in Targets /\ Exists(o)
    BY <1>2, TermsTypes DEF BeginOrder
  <2>4. \/ Become(r, "read", op, terms[o].target, o)
        \/ Become(r, "commit", op, terms[o].target, o)
    BY <1>2 DEF BeginOrder
  <2>5. TasksOK'
    BY <2>1, <2>3, <2>4, BecomeType DEF Stages
  <2>. QED
    BY <2>1, <2>2, <2>5
<1>3. ASSUME NEW o \in Orders, Reconcile(o), r = Worker
      PROVE  OrderTypes' /\ BenefitTypes' /\ TasksOK'
  <2>1. OrderTypes' /\ Kept /\ BenefitTypes'
    BY <1>3, OrderTypesKeep, BenefitTypesKeep DEF Reconcile
  <2>2. terms[o].target \in Targets /\ Exists(o)
    BY <1>3, TermsTypes DEF Reconcile, Reconciled, Exists
  <2>. QED
    BY <1>3, <2>1, <2>2, BecomeType DEF Reconcile, Stages
<1>. QED
  BY <1>1, <1>2, <1>3


LEMMA SettleType ==
  ASSUME TypeOK, NEW r \in Tasks, Settle(r)
  PROVE  TypeOK'
<1> DEFINE o == task[r].order
           a == task[r].answer
<1>1. task[r] \in OrderTask /\ o \in Orders
  BY TaskTypes DEF Settle, Stages, OrderTask
<1>2. Exists(o)
  BY <1>1, TaskOrder, BillingAssumption
<1>3. OrderTypes' /\ BenefitTypes' /\ Kept
  <2>1. CASE a \in Transfers /\ task[r].stage = "settle"
               /\ Apply([order |-> o, result |-> "paid", transfer |-> a])
    <3> DEFINE e == [order |-> o, result |-> "paid", transfer |-> a]
    <3>1. e.order = o /\ e.transfer \in Transfers
      BY <2>1
    <3>. QED
      BY <2>1, <3>1, <1>1, <1>2, ApplyType
  <2>2. CASE UNCHANGED <<orderVars, benefitVars, listing>>
    BY <2>2, OrderTypesKeep, BenefitTypesKeep
  <2>3. CASE a \in ClosedLink /\ ClosePayos(o, a) /\ UNCHANGED <<benefitVars, listing>>
    BY <2>3, <1>1, ClosePayosType, BenefitTypesKeep
  <2>. QED
    BY <2>1, <2>2, <2>3 DEF Settle
<1>4. TasksOK'
  <2>1. End(r) \/ Move(r, "commit")
    BY DEF Settle, Proceed
  <2>. QED
    BY <1>1, <1>3, <2>1, EndType, MoveType DEF Stages
<1>5. UNCHANGED <<account, gatewayVars>>
  BY DEF Settle
<1>. QED
  BY <1>3, <1>4, <1>5, TypesTogether DEF TypeOK, gatewayVars

LEMMA ReadType ==
  ASSUME TypeOK, NEW r \in Tasks, Read(r) \/ \E s \in Tasks : Join(r, s)
  PROVE  TypeOK'
<1>1. OrderTypes' /\ BenefitTypes' /\ Kept /\ UNCHANGED <<account, gatewayVars>>
  BY OrderTypesKeep, BenefitTypesKeep DEF Read, Join
<1>2. task[r] \in OrderTask
  BY TaskTypes DEF Read, Join, Stages
<1>3. TasksOK'
  <2>1. ASSUME NEW x \in Answers,
               task' = [task EXCEPT ![r].stage = "settle", ![r].answer = x]
        PROVE  TasksOK'
    BY <1>1, <1>2, <2>1, AdvanceType DEF Stages
  <2>2. ASSUME NEW s \in Tasks, Join(r, s)
        PROVE  TasksOK'
    <3>1. task[s].answer \in Answers \cup {None}
      BY <2>2, TaskTypes DEF Join, Stages, OrderTask
    <3>. QED
      BY <1>1, <1>2, <2>2, <3>1, AdvanceType DEF Join, Stages
  <2>. QED
    BY <2>1, <2>2 DEF Read
<1>. QED
  BY <1>1, <1>3, TypesTogether DEF TypeOK, gatewayVars

LEMMA CommitCreateType ==
  ASSUME TypeOK, NEW r \in Tasks, CommitCreate(r)
  PROVE  TypeOK'
<1> DEFINE t == task[r].target
<1>1. t \in Targets
  BY TaskTypes DEF CommitCreate, OrderTask, CreateTask
<1>2. Round(t) \in Nat
  BY <1>1 DEF TypeOK, ListingState, Round
<1>3. OrderTypes' /\ Kept
  <2>1. url' \in SUBSET Orders
    BY DEF CommitCreate, TypeOK
  <2>2. CASE status' = Expired(Stale(t)) /\ UNCHANGED terms
    BY <2>1, <2>2, ExpiredType DEF CommitCreate, OrderTypes, Kept, TypeOK, Exists
  <2>3. ASSUME NEW o \in Fresh, NEW p \in Providers,
               status' = [Expired(Stale(t)) EXCEPT ![o] = "PENDING"],
               terms' = [terms EXCEPT ![o] =
                 [target |-> t, round |-> Round(t), provider |-> p]]
        PROVE  OrderTypes' /\ Kept
    <3> DEFINE new == [target |-> t, round |-> Round(t), provider |-> p]
    <3>1. new \in [target : Targets, round : Nat, provider : Providers] /\ new # NoTerms
      BY <1>1, <1>2, BillingAssumption DEF NoTerms
    <3>2. terms' \in [Orders ->
            {NoTerms} \cup [target : Targets, round : Nat, provider : Providers]]
      BY <3>1, <2>3 DEF TypeOK
    <3>3. \A q \in Orders : status'[q] # "NONE" => terms'[q] # NoTerms
      BY <3>1, <2>3, ExpiredType DEF TypeOK, Exists, Fresh
    <3>4. Kept /\ status' \in [Orders ->
            {"NONE", "PENDING", "PAID", "FAILED", "EXPIRED", "CANCELLED"}]
      BY <2>3, ExpiredType DEF Kept, Exists
    <3>. QED
      BY <2>1, <3>2, <3>3, <3>4 DEF CommitCreate, OrderTypes, TypeOK
  <2>. QED
    BY <2>2, <2>3 DEF CommitCreate
<1>4. BenefitTypes' /\ UNCHANGED <<account, gatewayVars>>
  BY BenefitTypesKeep DEF CommitCreate
<1>5. TasksOK'
  BY <1>3, EndType DEF CommitCreate
<1>. QED
  BY <1>3, <1>4, <1>5, TypesTogether DEF TypeOK, gatewayVars


LEMMA CheckoutType ==
  ASSUME TypeOK, NEW r \in Tasks,
         Claim(r) \/ Gateway(r) \/ Save(r) \/ Finally(r) \/ Abandon(r)
  PROVE  TypeOK'
<1> DEFINE o == task[r].order
<1>1. CASE Claim(r)
  <2>1. task[r] \in OrderTask /\ o \in Orders
    BY <1>1, TaskTypes DEF Claim, OrderTask
  <2>2. OrderTypes' /\ Kept
    BY <1>1, <2>1 DEF Claim, TypeOK, OrderTypes, Kept
  <2>3. BenefitTypes' /\ UNCHANGED <<account, gatewayVars>>
    BY <1>1, BenefitTypesKeep DEF Claim
  <2>4. TasksOK'
    BY <1>1, <2>1, <2>2, EndType, MoveType DEF Claim, Stages
  <2>. QED
    BY <2>2, <2>3, <2>4, TypesTogether DEF TypeOK, gatewayVars
<1>2. CASE Gateway(r)
  <2>1. task[r] \in OrderTask /\ o \in Orders
    BY <1>2, TaskTypes DEF Gateway, Stages, OrderTask
  <2>2. OrderTypes' /\ BenefitTypes' /\ Kept
    BY <1>2, OrderTypesKeep, BenefitTypesKeep DEF Gateway
  <2>3. link' \in [Orders -> {"none", "open", "partial", "declined"} \cup ClosedLink]
    BY <1>2 DEF Gateway, TypeOK
  <2>4. TasksOK'
    <3>1. \/ Move(r, "finally")
          \/ \E x \in Answers :
               task' = [task EXCEPT ![r].stage = "save", ![r].answer = x]
      BY <1>2 DEF Gateway, Answers
    <3>. QED
      BY <2>1, <2>2, <3>1, MoveType, AdvanceType DEF Stages
  <2>. QED
    BY <1>2, <2>2, <2>3, <2>4, TypesTogether DEF TypeOK, Gateway
<1>3. CASE Save(r)
  <2>1. task[r] \in OrderTask /\ o \in Orders
    BY <1>3, TaskTypes DEF Save, Stages, OrderTask
  <2>2. OrderTypes' /\ Kept
    <3>1. CASE task[r].answer \in ClosedLink /\ ClosePayos(o, task[r].answer)
      BY <3>1, <2>1, ClosePayosType
    <3>2. CASE UNCHANGED orderVars
      BY <3>2, OrderTypesKeep
    <3>3. CASE /\ url' = url \cup {o} /\ saved' = saved \cup {o}
               /\ lease' = [lease EXCEPT ![o] = None] /\ lapsed' = lapsed \ {o}
               /\ UNCHANGED <<terms, status, due, transfer>>
      BY <3>3, <2>1 DEF TypeOK, OrderTypes, Kept
    <3>. QED
      BY <1>3, <3>1, <3>2, <3>3 DEF Save
  <2>3. BenefitTypes' /\ UNCHANGED <<account, gatewayVars>>
    BY <1>3, BenefitTypesKeep DEF Save
  <2>4. TasksOK'
    BY <1>3, <2>1, <2>2, EndType, MoveType DEF Save, Stages
  <2>. QED
    BY <2>2, <2>3, <2>4, TypesTogether DEF TypeOK, gatewayVars
<1>4. CASE Finally(r) \/ Abandon(r)
  <2>1. OrderTypes' /\ Kept
    BY <1>4 DEF Finally, Abandon, TypeOK, OrderTypes, Kept
  <2>2. BenefitTypes' /\ UNCHANGED <<account, gatewayVars>>
    BY <1>4, BenefitTypesKeep DEF Finally, Abandon
  <2>3. TasksOK'
    BY <1>4, <2>1, EndType DEF Finally, Abandon
  <2>. QED
    BY <2>1, <2>2, <2>3, TypesTogether DEF TypeOK, gatewayVars
<1>. QED
  BY <1>1, <1>2, <1>3, <1>4

(* The steps of nobody's task: time, money, refunds, listings, accounts. *)
LEMMA OrderStepType ==
  ASSUME TypeOK, NEW o \in Orders, OrderStep(o)
  PROVE  TypeOK'
<1>1. CASE Reconcile(o)
  <2>1. OrderTypes' /\ BenefitTypes' /\ TasksOK'
    BY <1>1, BeginType DEF Tasks
  <2>. QED
    BY <1>1, <2>1, TypesTogether DEF Reconcile, TypeOK, gatewayVars
<1>2. CASE \/ \E t \in Transfers : Pay(o, t)
           \/ \E s \in {"partial", "CANCELLED", "EXPIRED", "declined"} : LinkEnds(o, s)
  <2>1. OrderTypes' /\ BenefitTypes' /\ TasksOK'
    BY <1>2, OrderTypesKeep, BenefitTypesKeep, SameTaskType DEF Pay, LinkEnds
  <2>2. captured' \in [Orders -> SUBSET Transfers]
    BY <1>2 DEF Pay, LinkEnds, TypeOK
  <2>3. link' \in [Orders -> {"none", "open", "partial", "declined"} \cup ClosedLink]
    BY <1>2 DEF Pay, LinkEnds, TypeOK, ClosedLink
  <2>. QED
    BY <1>2, <2>1, <2>2, <2>3, TypesTogether DEF Pay, LinkEnds, TypeOK
<1>3. CASE Elapse(o) \/ Lapse(o) \/ ExpireOrder(o)
  <2>1. OrderTypes' /\ Kept
    BY <1>3, ExpiredType DEF Elapse, Lapse, ExpireOrder, TypeOK, OrderTypes, Kept, Exists
  <2>2. BenefitTypes' /\ UNCHANGED <<account, gatewayVars, task>>
    BY <1>3, BenefitTypesKeep DEF Elapse, Lapse, ExpireOrder
  <2>. QED
    BY <2>1, <2>2, SameTaskType, TypesTogether DEF TypeOK, gatewayVars
<1>4. CASE RequestRefund(o) \/ RejectRefund(o) \/ CompleteRefund(o)
  <2>1. OrderTypes' /\ Kept /\ UNCHANGED <<account, gatewayVars, task>>
    BY <1>4, OrderTypesKeep DEF RequestRefund, RejectRefund, CompleteRefund
  <2>2. BenefitTypes'
    <3>1. \A l \in Listings : [listing[l] EXCEPT !.boost = None] \in ListingState
      BY DEF TypeOK, ListingState
    <3>. QED
      BY <1>4, <3>1
      DEF RequestRefund, RejectRefund, CompleteRefund, TypeOK, BenefitTypes
  <2>. QED
    BY <2>1, <2>2, SameTaskType, TypesTogether DEF TypeOK, gatewayVars
<1>. QED
  BY <1>1, <1>2, <1>3, <1>4 DEF OrderStep


LEMMA WebhookType ==
  ASSUME TypeOK, NEW e \in Event, Webhook(e)
  PROVE  TypeOK'
<1>1. e.order \in Orders /\ Exists(e.order)
  BY DEF Event, Webhook
<1>2. e.result = "paid" => e.transfer \in Transfers
  BY <1>1 DEF Webhook, Reportable, TypeOK
<1>3. OrderTypes' /\ BenefitTypes' /\ Kept
  BY <1>1, <1>2, ApplyType DEF Webhook
<1>. QED
  BY <1>3, SameTaskType, TypesTogether DEF Webhook, TypeOK, gatewayVars

LEMMA EndRoundType ==
  ASSUME TypeOK, NEW ls,
         NEW to \in {"DRAFT", "PENDING", "PUBLISHED", "REJECTED", "CLOSED", "DELETED"},
         EndRound(ls, to)
  PROVE  listing' \in [Listings -> ListingState]
<1>1. ASSUME NEW v \in ListingState
      PROVE  [v EXCEPT !.status = to, !.round = @ + 1, !.boost = None] \in ListingState
  <2>1. v.round + 1 \in Nat
    BY <1>1 DEF ListingState
  <2>2. [v EXCEPT !.status = to] \in ListingState
    BY <1>1 DEF ListingState
  <2>3. [[v EXCEPT !.status = to] EXCEPT !.round = v.round + 1] \in ListingState
    BY <2>1, <2>2 DEF ListingState
  <2>4. [v EXCEPT !.status = to, !.round = @ + 1, !.boost = None]
          = [[[v EXCEPT !.status = to] EXCEPT !.round = v.round + 1] EXCEPT !.boost = None]
    BY <1>1 DEF ListingState
  <2>. QED
    BY <2>3, <2>4 DEF ListingState
<1>2. \A l \in Listings : listing[l] \in ListingState
  BY DEF TypeOK
<1>. QED
  BY <1>1, <1>2 DEF EndRound

LEMMA ListingStepType ==
  ASSUME TypeOK, NEW l \in Listings, ListingStep(l)
  PROVE  TypeOK'
<1> DEFINE Statuses ==
      {"DRAFT", "PENDING", "PUBLISHED", "REJECTED", "CLOSED", "DELETED"}
<1>1. ASSUME NEW from, NEW to \in Statuses, NEW full \in BOOLEAN,
             Relist(l, from, to, full)
      PROVE  TypeOK'
  <2> DEFINE next == [[listing[l] EXCEPT !.status = to] EXCEPT !.full = full]
  <2>1. next \in ListingState
    <3>1. listing[l] \in ListingState
      BY DEF TypeOK
    <3>. QED
      BY <3>1 DEF ListingState
  <2>2. listing' = [listing EXCEPT ![l] = next]
    BY <1>1 DEF Relist, TypeOK
  <2>3. listing' \in [Listings -> ListingState]
    BY <2>1, <2>2 DEF TypeOK
  <2>4. BenefitTypes' /\ OrderTypes' /\ Kept
    BY <1>1, <2>3, OrderTypesKeep DEF Relist, BenefitTypes, benefitVars, TypeOK
  <2>. QED
    BY <1>1, <2>4, SameTaskType, TypesTogether DEF Relist, TypeOK, gatewayVars
<1>2. ASSUME NEW from, NEW to \in Statuses, Withdraw(l, from, to)
      PROVE  TypeOK'
  <2>1. listing' \in [Listings -> ListingState]
    BY <1>2, EndRoundType DEF Withdraw
  <2>2. OrderTypes' /\ Kept
    BY <1>2 DEF Withdraw, Waiting, TypeOK, OrderTypes, Kept
  <2>3. BenefitTypes'
    BY <1>2, <2>1 DEF Withdraw, BenefitTypes, benefitVars, TypeOK
  <2>. QED
    BY <1>2, <2>2, <2>3, SameTaskType, TypesTogether DEF Withdraw, TypeOK, gatewayVars
<1>3. listing[l].full \in BOOLEAN
  BY DEF TypeOK, ListingState
<1>4. CASE Edit(l)
  BY <1>1, <1>3, <1>4 DEF Edit
<1>5. CASE Submit(l) \/ Publish(l) \/ Reject(l)
  BY <1>1, <1>3, <1>5 DEF Submit, Publish, Reject
<1>6. CASE SetFull(l)
  BY <1>1, <1>3, <1>6 DEF SetFull
<1>7. CASE Close(l) \/ DeleteDraft(l) \/ TakeDown(l)
  BY <1>2, <1>7 DEF Close, DeleteDraft, TakeDown
<1>. QED
  BY <1>4, <1>5, <1>6, <1>7 DEF ListingStep

LEMMA AccountStepType ==
  ASSUME TypeOK, NEW u \in Users, AccountStep(u)
  PROVE  TypeOK'
<1>1. account' \in [Users -> {"open", "locked", "closed"}]
  BY DEF AccountStep, SetLock, CloseAccount, Reopen, TypeOK
<1>2. listing' \in [Listings -> ListingState]
  BY EndRoundType DEF AccountStep, SetLock, CloseAccount, Reopen, TypeOK
<1>3. UNCHANGED <<orderVars, benefitVars, gatewayVars, task>>
  BY DEF AccountStep, SetLock, CloseAccount, Reopen
<1>4. OrderTypes' /\ Kept /\ BenefitTypes'
  BY <1>2, <1>3, OrderTypesKeep DEF BenefitTypes, benefitVars, TypeOK
<1>. QED
  BY <1>1, <1>3, <1>4, SameTaskType, TypesTogether DEF TypeOK, gatewayVars

LEMMA TypeInductive ==
  ASSUME TypeOK, [Next]_vars
  PROVE  TypeOK'
<1>1. ASSUME NEW r \in Tasks, CheckoutStep(r)
      PROVE  TypeOK'
  BY <1>1, ReadType, SettleType, CheckoutType DEF CheckoutStep
<1>2. ASSUME NEW r \in Requests, HandlerStep(r)
      PROVE  TypeOK'
  <2>1. r \in Tasks
    BY DEF Tasks
  <2>2. CASE \/ \E t \in Targets : BeginCreate(r, t)
             \/ \E o \in Orders, op \in {"checkout", "sync"} : BeginOrder(r, op, o)
    <3>1. OrderTypes' /\ BenefitTypes' /\ TasksOK'
      BY <2>1, <2>2, BeginType
    <3>2. UNCHANGED <<account, gatewayVars>>
      BY <2>2 DEF BeginCreate, BeginOrder
    <3>. QED
      BY <3>1, <3>2, TypesTogether DEF TypeOK, gatewayVars
  <2>. QED
    BY <1>2, <2>1, <2>2, CommitCreateType, CheckoutType DEF HandlerStep
<1>3. CASE UNCHANGED vars
  <2>1. OrderTypes' /\ Kept /\ BenefitTypes'
    BY <1>3, OrderTypesKeep, BenefitTypesKeep DEF vars
  <2>. QED
    BY <1>3, <2>1, SameTaskType, TypesTogether DEF vars, TypeOK, gatewayVars
<1>. QED
  BY <1>1, <1>2, <1>3, OrderStepType, WebhookType, ListingStepType, AccountStepType
  DEF Next

(* Type correctness: every table stays within the states its column and    *)
(* the code's enumerations allow, and every task in flight works on an     *)
(* order that exists.                                                      *)
THEOREM TypeCorrect == Spec => []TypeOK
<1>1. Init => TypeOK
  BY BillingAssumption DEF Init, TypeOK, ListingState, TaskState, Idle
<1>. QED
  BY <1>1, TypeInductive, PTL DEF Spec

-----------------------------------------------------------------------------
(* Payments and benefits.                                                  *)

\* A step that neither records nor undoes a payment or a benefit.
Quiet ==
  /\ UNCHANGED <<granted, system, transfer>>
  /\ \A o \in Orders : status'[o] = "PAID" <=> status[o] = "PAID"
  /\ \A o \in Orders : Exists(o) => terms'[o] = terms[o]

Capturing ==
  \E o \in Orders, t \in Transfers :
    Exists(o) /\ status[o] # "PAID" /\ Capture(o, t)

LEMMA ApplyKind ==
  ASSUME TypeOK, NEW e, e.order \in Orders, Exists(e.order), Apply(e),
         e.result = "paid" => e.transfer \in Transfers
  PROVE  Quiet \/ Capturing
<1>1. CASE Captures(e) /\ Capture(e.order, e.transfer)
  BY <1>1 DEF Captures, Capturing
<1>2. CASE Fails(e) /\ Fail(e.order)
  BY <1>2 DEF Fails, Fail, Quiet, TypeOK
<1>3. CASE UNCHANGED <<orderVars, benefitVars, listing>>
  BY <1>3 DEF orderVars, benefitVars, Quiet
<1>. QED
  BY <1>1, <1>2, <1>3 DEF Apply

LEMMA ExpiredQuiet ==
  ASSUME TypeOK, NEW os, status' = Expired(os), UNCHANGED <<granted, system, transfer, terms>>
  PROVE  Quiet
BY DEF TypeOK, Expired, Waiting, Quiet

LEMMA ClosePayosQuiet ==
  ASSUME TypeOK, NEW o \in Orders, NEW s \in ClosedLink, ClosePayos(o, s),
         UNCHANGED <<granted, system>>
  PROVE  Quiet
<1>1. CASE UNCHANGED orderVars
  BY <1>1 DEF orderVars, Quiet
<1>2. CASE Closes(o) /\ status' = [status EXCEPT ![o] = s] /\ UNCHANGED <<terms, transfer>>
  BY <1>2 DEF Closes, ClosedLink, Quiet, TypeOK
<1>. QED
  BY <1>1, <1>2 DEF ClosePayos

LEMMA TaskKind ==
  ASSUME TypeOK, NEW r \in Tasks, CheckoutStep(r) \/ HandlerStep(r)
  PROVE  Quiet \/ Capturing
<1> DEFINE o == task[r].order
           a == task[r].answer
<1>1. CASE Settle(r)
  <2>1. task[r] \in OrderTask /\ o \in Orders
    BY <1>1, TaskTypes DEF Settle, Stages, OrderTask
  <2>2. CASE a \in Transfers /\ Apply([order |-> o, result |-> "paid", transfer |-> a])
    <3> DEFINE e == [order |-> o, result |-> "paid", transfer |-> a]
    <3>1. e.order \in Orders /\ e.transfer \in Transfers /\ Exists(e.order)
      BY <2>1, <2>2, TaskOrder, BillingAssumption
    <3>. QED
      BY <2>2, <3>1, ApplyKind
  <2>3. CASE UNCHANGED <<orderVars, benefitVars, listing>>
    BY <2>3 DEF orderVars, benefitVars, Quiet
  <2>4. CASE a \in ClosedLink /\ ClosePayos(o, a) /\ UNCHANGED <<benefitVars, listing>>
    BY <2>1, <2>4, ClosePayosQuiet DEF benefitVars
  <2>. QED
    BY <1>1, <2>2, <2>3, <2>4 DEF Settle
<1>2. CASE Save(r)
  <2>1. task[r] \in OrderTask /\ o \in Orders
    BY <1>2, TaskTypes DEF Save, Stages, OrderTask
  <2>2. CASE a \in ClosedLink /\ ClosePayos(o, a) /\ UNCHANGED benefitVars
    BY <2>1, <2>2, ClosePayosQuiet DEF benefitVars
  <2>3. CASE UNCHANGED <<terms, status, transfer, benefitVars>>
    BY <2>3 DEF benefitVars, Quiet
  <2>. QED
    BY <1>2, <2>2, <2>3 DEF Save, orderVars
<1>3. CASE CommitCreate(r)
  <2> DEFINE t == task[r].target
  <2>1. UNCHANGED <<granted, system, transfer>>
    BY <1>3 DEF CommitCreate, benefitVars
  <2>2. CASE status' = Expired(Stale(t)) /\ UNCHANGED terms
    BY <2>1, <2>2, ExpiredQuiet
  <2>3. ASSUME NEW new \in Fresh, NEW w,
               status' = [Expired(Stale(t)) EXCEPT ![new] = "PENDING"],
               terms' = [terms EXCEPT ![new] = w]
        PROVE  Quiet
    BY <2>1, <2>3 DEF Expired, Waiting, Fresh, Exists, Quiet, TypeOK
  <2>. QED
    BY <1>3, <2>2, <2>3 DEF CommitCreate
<1>4. CASE \E p \in Orders, op \in {"checkout", "sync"} : BeginOrder(r, op, p)
  BY <1>4, ExpiredQuiet DEF BeginOrder, benefitVars
<1>5. CASE Read(r) \/ (\E s \in Tasks : Join(r, s)) \/ Gateway(r)
             \/ (\E t \in Targets : BeginCreate(r, t))
  BY <1>5 DEF Read, Join, Gateway, BeginCreate, orderVars, benefitVars, Quiet
<1>6. CASE Abandon(r) \/ Claim(r) \/ Finally(r)
  BY <1>6 DEF Abandon, Claim, Finally, benefitVars, Quiet
<1>. QED
  BY <1>1, <1>2, <1>3, <1>4, <1>5, <1>6 DEF CheckoutStep, HandlerStep

LEMMA StepKind ==
  ASSUME TypeOK, [Next]_vars
  PROVE  Quiet \/ Capturing
<1>1. ASSUME NEW o \in Orders, OrderStep(o)
      PROVE  Quiet
  <2>1. CASE ExpireOrder(o)
    BY <2>1, ExpiredQuiet DEF ExpireOrder, benefitVars
  <2>2. CASE ~ExpireOrder(o)
    BY <1>1, <2>2
    DEF OrderStep, Reconcile, Pay, LinkEnds, Elapse, Lapse, RequestRefund,
        RejectRefund, CompleteRefund, orderVars, benefitVars, Quiet
  <2>. QED
    BY <2>1, <2>2
<1>2. ASSUME NEW e \in Event, Webhook(e)
      PROVE  Quiet \/ Capturing
  <2>1. e.order \in Orders
    BY DEF Event
  <2>2. e.result = "paid" => e.transfer \in Transfers
    BY <1>2, <2>1 DEF Webhook, Reportable, TypeOK
  <2>. QED
    BY <1>2, <2>1, <2>2, ApplyKind DEF Webhook
<1>3. ASSUME NEW l \in Listings, ListingStep(l)
      PROVE  Quiet
  <2>1. ASSUME NEW from, NEW to, Withdraw(l, from, to)
        PROVE  Quiet
    BY <2>1 DEF Withdraw, Waiting, benefitVars, Quiet, TypeOK
  <2>2. ASSUME NEW from, NEW to, NEW full, Relist(l, from, to, full)
        PROVE  Quiet
    BY <2>2 DEF Relist, orderVars, benefitVars, Quiet
  <2>. QED
    BY <1>3, <2>1, <2>2
    DEF ListingStep, Edit, Submit, Publish, Reject, SetFull, Close, DeleteDraft, TakeDown
<1>4. ASSUME NEW u \in Users, AccountStep(u)
      PROVE  Quiet
  BY <1>4 DEF AccountStep, SetLock, CloseAccount, Reopen, orderVars, benefitVars, Quiet
<1>5. CASE UNCHANGED vars
  BY <1>5 DEF vars, orderVars, benefitVars, Quiet
<1>6. ASSUME NEW r \in Requests
      PROVE  r \in Tasks
  BY DEF Tasks
<1>. QED
  BY <1>1, <1>2, <1>3, <1>4, <1>5, <1>6, TaskKind DEF Next

\* What recording a payment relies on: nothing was earned before it.
PaymentInv ==
  /\ \A o \in Orders : status[o] = "PAID" => (o \in granted) # (o \in system)
  /\ \A o \in Orders : status[o] # "PAID" => o \notin granted /\ o \notin system

SafetyInv == TypeOK /\ PaymentInv /\ OneBenefitPerRound

LEMMA SafetyInductive ==
  ASSUME SafetyInv, [Next]_vars
  PROVE  SafetyInv'
<1>1. TypeOK /\ TypeOK'
  BY TypeInductive DEF SafetyInv
<1>2. CASE Quiet
  <2>1. PaymentInv'
    BY <1>2 DEF SafetyInv, PaymentInv, Quiet
  <2>2. OneBenefitPerRound'
    <3>1. \A o \in granted : o \in Orders /\ Exists(o)
      BY <1>1 DEF SafetyInv, PaymentInv, TypeOK, Exists
    <3>2. \A o \in granted : terms'[o] = terms[o]
      BY <1>2, <3>1 DEF Quiet
    <3>. QED
      BY <1>2, <3>2 DEF SafetyInv, OneBenefitPerRound, ForListing, SameRound, Quiet
  <2>. QED
    BY <1>1, <2>1, <2>2 DEF SafetyInv
<1>3. ASSUME NEW o \in Orders, NEW t \in Transfers, status[o] # "PAID", Capture(o, t)
      PROVE  SafetyInv'
  <2>1. UNCHANGED terms /\ status'[o] = "PAID"
    BY <1>3 DEF Capture
  <2>2. \A p \in Orders \ {o} : status'[p] = "PAID" <=> status[p] = "PAID"
    BY <1>3 DEF Capture, Rivals, Waiting
  <2>3. o \notin granted /\ o \notin system
    BY <1>3 DEF SafetyInv, PaymentInv
  <2>4. PaymentInv'
    BY <1>3, <2>1, <2>2, <2>3 DEF SafetyInv, PaymentInv, Capture
  <2>5. OneBenefitPerRound'
    <3>1. CASE ~Eligible(o)
      BY <1>3, <2>1, <3>1
      DEF Capture, SafetyInv, OneBenefitPerRound, ForListing, SameRound
    <3>2. CASE Eligible(o) /\ ~ForListing(o)
      BY <1>3, <2>1, <3>2
      DEF Capture, SafetyInv, OneBenefitPerRound, ForListing, SameRound
    <3>3. CASE Eligible(o) /\ ForListing(o)
      <4>1. \A p \in granted : ~SameRound(p, o)
        BY <1>1, <3>3 DEF Eligible, Unpaid, SameRound, SafetyInv, PaymentInv, TypeOK
      <4>2. granted' = granted \cup {o}
        BY <1>3, <3>3 DEF Capture
      <4>. QED
        BY <2>1, <4>1, <4>2 DEF SafetyInv, OneBenefitPerRound, ForListing, SameRound
    <3>. QED
      BY <3>1, <3>2, <3>3
  <2>. QED
    BY <1>1, <2>4, <2>5 DEF SafetyInv
<1>. QED
  BY <1>1, <1>2, <1>3, StepKind DEF Capturing

THEOREM SafetyInvariance == Spec => []SafetyInv
<1>1. Init => SafetyInv
  <2>1. Init => TypeOK
    BY BillingAssumption DEF Init, TypeOK, ListingState, TaskState, Idle
  <2>. QED
    BY <2>1 DEF Init, SafetyInv, PaymentInv, OneBenefitPerRound
<1>. QED
  BY <1>1, SafetyInductive, PTL DEF Spec

(* Every recorded payment is accounted for: it earned its benefit, or the  *)
(* system asked for its refund, never both and never neither.              *)
THEOREM MoneySafe == Spec => []MoneyAccounted
<1>1. SafetyInv => MoneyAccounted
  BY DEF SafetyInv, PaymentInv, MoneyAccounted
<1>. QED
  BY <1>1, SafetyInvariance, PTL

(* Whatever notifications arrive, in any order and number, one posting     *)
(* round never earns two boosts.                                           *)
THEOREM NoDoubleBenefit == Spec => []OneBenefitPerRound
<1>1. SafetyInv => OneBenefitPerRound
  BY DEF SafetyInv
<1>. QED
  BY <1>1, SafetyInvariance, PTL

(* A confirmed payment keeps its state, its transfer and its benefit.      *)
THEOREM PaymentsFinal == Spec => PaidIsFinal
<1> DEFINE Final == \A o \in Orders : status[o] = "PAID" =>
       /\ status'[o] = "PAID" /\ transfer'[o] = transfer[o]
       /\ o \in granted <=> o \in granted'
<1>1. SafetyInv /\ [Next]_vars => [Final]_vars
  <2> SUFFICES ASSUME SafetyInv, [Next]_vars
               PROVE  Final
    OBVIOUS
  <2>1. CASE Quiet
    BY <2>1 DEF Quiet
  <2>2. ASSUME NEW p \in Orders, NEW t \in Transfers, status[p] # "PAID", Capture(p, t)
        PROVE  Final
    BY <2>2 DEF Capture, Rivals, Waiting, SafetyInv, TypeOK
  <2>. QED
    BY <2>1, <2>2, StepKind DEF SafetyInv, Capturing
<1>. QED
  BY <1>1, SafetyInvariance, PTL DEF Spec, PaidIsFinal

-----------------------------------------------------------------------------
(* Boosts.                                                                 *)

\* An order never belongs to a round its listing has not reached, and only paid
\* orders have refund requests.
RoundInv ==
  \A o \in Orders : Exists(o) /\ ForListing(o) =>
    terms[o].round <= listing[terms[o].target].round
RefundInv == \A o \in Orders : refund[o] # "NONE" => status[o] = "PAID"

BoostInv == SafetyInv /\ RoundInv /\ RefundInv /\ BoostIsEarned

\* A step that leaves rounds, boosts and refunds alone.
Steady ==
  /\ UNCHANGED refund
  /\ \A l \in Listings : listing'[l].boost = listing[l].boost
                         /\ listing'[l].round = listing[l].round

\* A step that ends rounds.
Ending == UNCHANGED refund /\ \E ls, to : EndRound(ls, to)

\* New orders belong to the current round of their listing.
Current ==
  \A o \in Orders : status'[o] # "NONE" /\ ~Exists(o) /\ terms'[o].target \in Listings =>
    terms'[o].round = listing[terms'[o].target].round

Refunding == \E o \in Orders : RequestRefund(o) \/ RejectRefund(o) \/ CompleteRefund(o)

LEMMA SameListingSteady ==
  ASSUME UNCHANGED <<refund, listing>>
  PROVE  Steady
BY DEF Steady

LEMMA ClosePayosCurrent ==
  ASSUME TypeOK, NEW o \in Orders, NEW t \in ClosedLink, ClosePayos(o, t)
  PROVE  Current
<1>1. CASE UNCHANGED orderVars
  BY <1>1 DEF orderVars, Current, Exists
<1>2. CASE Closes(o) /\ status' = [status EXCEPT ![o] = t]
  BY <1>2 DEF Closes, Current, Exists, TypeOK
<1>. QED
  BY <1>1, <1>2 DEF ClosePayos

LEMMA ApplyBoostKind ==
  ASSUME TypeOK, NEW e, e.order \in Orders, Exists(e.order), Apply(e),
         e.result = "paid" => e.transfer \in Transfers
  PROVE  Capturing \/ (Steady /\ Current)
<1>1. CASE Captures(e) /\ Capture(e.order, e.transfer)
  BY <1>1 DEF Captures, Capturing
<1>2. CASE Fails(e) /\ Fail(e.order)
  BY <1>2, SameListingSteady DEF Fails, Fail, Current, Exists, TypeOK
<1>3. CASE UNCHANGED <<orderVars, benefitVars, listing>>
  BY <1>3, SameListingSteady DEF orderVars, benefitVars, Current, Exists
<1>. QED
  BY <1>1, <1>2, <1>3 DEF Apply

LEMMA TaskBoostKind ==
  ASSUME TypeOK, NEW r \in Tasks, CheckoutStep(r) \/ HandlerStep(r)
  PROVE  Capturing \/ (Steady /\ Current)
<1>1. CASE Settle(r)
  <2> DEFINE o == task[r].order
             a == task[r].answer
  <2>1. task[r] \in OrderTask /\ o \in Orders
    BY <1>1, TaskTypes DEF Settle, Stages, OrderTask
  <2>2. CASE a \in Transfers /\ Apply([order |-> o, result |-> "paid", transfer |-> a])
    <3> DEFINE e == [order |-> o, result |-> "paid", transfer |-> a]
    <3>1. e.order \in Orders /\ e.transfer \in Transfers /\ Exists(e.order)
      BY <2>1, <2>2, TaskOrder, BillingAssumption
    <3>. QED
      BY <2>2, <3>1, ApplyBoostKind
  <2>3. CASE UNCHANGED <<orderVars, benefitVars, listing>>
    BY <2>3, SameListingSteady DEF orderVars, benefitVars, Current, Exists
  <2>4. CASE a \in ClosedLink /\ ClosePayos(o, a) /\ UNCHANGED <<benefitVars, listing>>
    BY <2>1, <2>4, ClosePayosCurrent, SameListingSteady DEF benefitVars
  <2>. QED
    BY <1>1, <2>2, <2>3, <2>4 DEF Settle
<1>2. CASE Save(r)
  <2>1. task[r] \in OrderTask /\ task[r].order \in Orders
    BY <1>2, TaskTypes DEF Save, Stages, OrderTask
  <2>2. Steady
    BY <1>2, SameListingSteady DEF Save, benefitVars
  <2>3. CASE task[r].answer \in ClosedLink /\ ClosePayos(task[r].order, task[r].answer)
    BY <2>1, <2>2, <2>3, ClosePayosCurrent
  <2>4. CASE UNCHANGED <<terms, status>>
    BY <2>2, <2>4 DEF Current, Exists
  <2>. QED
    BY <1>2, <2>3, <2>4 DEF Save, orderVars
<1>3. CASE CommitCreate(r)
  <2> DEFINE t == task[r].target
  <2>1. Steady
    BY <1>3, SameListingSteady DEF CommitCreate, benefitVars
  <2>2. CASE status' = Expired(Stale(t)) /\ UNCHANGED terms
    BY <2>1, <2>2, ExpiredType DEF Current
  <2>3. ASSUME NEW new \in Fresh, NEW p \in Providers,
               status' = [Expired(Stale(t)) EXCEPT ![new] = "PENDING"],
               terms' = [terms EXCEPT ![new] =
                 [target |-> t, round |-> Round(t), provider |-> p]]
        PROVE  Current
    <3>1. \A o \in Orders \ {new} : status'[o] # "NONE" => Exists(o)
      BY <2>3, ExpiredType
    <3>2. terms'[new] = [target |-> t, round |-> Round(t), provider |-> p]
      BY <2>3 DEF TypeOK, Fresh
    <3>. QED
      BY <3>1, <3>2 DEF Current, Round
  <2>. QED
    BY <1>3, <2>1, <2>2, <2>3 DEF CommitCreate
<1>4. CASE \E p \in Orders, op \in {"checkout", "sync"} : BeginOrder(r, op, p)
  BY <1>4, ExpiredType, SameListingSteady DEF BeginOrder, benefitVars, Current
<1>5. CASE Read(r) \/ (\E s \in Tasks : Join(r, s)) \/ Gateway(r)
             \/ (\E t \in Targets : BeginCreate(r, t))
  BY <1>5, SameListingSteady
  DEF Read, Join, Gateway, BeginCreate, orderVars, benefitVars, Current, Exists
<1>6. CASE Abandon(r) \/ Claim(r) \/ Finally(r)
  BY <1>6, SameListingSteady DEF Abandon, Claim, Finally, benefitVars, Current, Exists
<1>. QED
  BY <1>1, <1>2, <1>3, <1>4, <1>5, <1>6 DEF CheckoutStep, HandlerStep

LEMMA BoostKind ==
  ASSUME TypeOK, [Next]_vars
  PROVE  Capturing \/ (Current /\ (Steady \/ Ending \/ Refunding))
<1>1. ASSUME NEW o \in Orders, OrderStep(o)
      PROVE  Current /\ (Steady \/ Refunding)
  <2>1. CASE ExpireOrder(o)
    BY <2>1, ExpiredType, SameListingSteady DEF ExpireOrder, benefitVars, Current
  <2>2. CASE RequestRefund(o) \/ RejectRefund(o) \/ CompleteRefund(o)
    BY <2>2
    DEF RequestRefund, RejectRefund, CompleteRefund, orderVars, Current, Exists, Refunding
  <2>3. CASE \/ Reconcile(o) \/ Elapse(o) \/ Lapse(o)
             \/ \E t \in Transfers : Pay(o, t)
             \/ \E x \in {"partial", "CANCELLED", "EXPIRED", "declined"} : LinkEnds(o, x)
    BY <2>3, SameListingSteady
    DEF Reconcile, Pay, LinkEnds, Elapse, Lapse, orderVars, benefitVars, Current, Exists
  <2>. QED
    BY <1>1, <2>1, <2>2, <2>3 DEF OrderStep
<1>2. ASSUME NEW e \in Event, Webhook(e)
      PROVE  Capturing \/ (Current /\ Steady)
  <2>1. e.order \in Orders
    BY DEF Event
  <2>2. e.result = "paid" => e.transfer \in Transfers
    BY <1>2, <2>1 DEF Webhook, Reportable, TypeOK
  <2>. QED
    BY <1>2, <2>1, <2>2, ApplyBoostKind DEF Webhook
<1>3. ASSUME NEW l \in Listings, ListingStep(l)
      PROVE  Current /\ (Steady \/ Ending)
  <2>1. ASSUME NEW from, NEW to, Withdraw(l, from, to)
        PROVE  Current /\ Ending
    BY <2>1 DEF Withdraw, Waiting, benefitVars, Ending, Current, Exists, TypeOK
  <2>2. ASSUME NEW from, NEW to, NEW full, Relist(l, from, to, full)
        PROVE  Current /\ Steady
    <3>1. \A k \in Listings : listing'[k].boost = listing[k].boost
                              /\ listing'[k].round = listing[k].round
      BY <2>2 DEF Relist, TypeOK, ListingState
    <3>. QED
      BY <2>2, <3>1 DEF Relist, orderVars, benefitVars, Steady, Current, Exists
  <2>. QED
    BY <1>3, <2>1, <2>2
    DEF ListingStep, Edit, Submit, Publish, Reject, SetFull, Close, DeleteDraft, TakeDown
<1>4. ASSUME NEW u \in Users, AccountStep(u)
      PROVE  Current /\ (Steady \/ Ending)
  <2>1. CASE CloseAccount(u)
    BY <2>1 DEF CloseAccount, orderVars, benefitVars, Ending, Current, Exists
  <2>2. CASE SetLock(u) \/ Reopen(u)
    BY <2>2, SameListingSteady
    DEF SetLock, Reopen, orderVars, benefitVars, Current, Exists
  <2>. QED
    BY <1>4, <2>1, <2>2 DEF AccountStep
<1>5. CASE UNCHANGED vars
  BY <1>5, SameListingSteady DEF vars, orderVars, benefitVars, Current, Exists
<1>6. ASSUME NEW r \in Requests
      PROVE  r \in Tasks
  BY DEF Tasks
<1>. QED
  BY <1>1, <1>2, <1>3, <1>4, <1>5, <1>6, TaskBoostKind DEF Next

LEMMA CaptureKeepsBoosts ==
  ASSUME BoostInv, NEW o \in Orders, NEW t \in Transfers,
         Exists(o), status[o] # "PAID", Capture(o, t)
  PROVE  (RoundInv /\ RefundInv /\ BoostIsEarned)'
<1>1. TypeOK /\ PaymentInv
  BY DEF BoostInv, SafetyInv
<1>2. UNCHANGED terms /\ status'[o] = "PAID"
  BY DEF Capture
<1>3. \A p \in Orders \ {o} :
        (status'[p] = "PAID" <=> status[p] = "PAID") /\ (status'[p] # "NONE" <=> Exists(p))
  BY DEF Capture, Rivals, Waiting, Exists
<1>4. refund[o] = "NONE" /\ o \notin granted
  BY <1>1 DEF BoostInv, RefundInv, PaymentInv, TypeOK
<1>5. \A l \in Listings : listing'[l].round = listing[l].round
  BY <1>1 DEF Capture, TypeOK, ListingState
<1>6. RoundInv'
  BY <1>2, <1>3, <1>5 DEF RoundInv, BoostInv, ForListing, Exists
<1>7. RefundInv'
  BY <1>1, <1>2, <1>3 DEF RefundInv, BoostInv, Capture, TypeOK
<1>8. CASE Eligible(o) /\ ForListing(o)
  <2> DEFINE l == terms[o].target
  <2>1. granted' = granted \cup {o} /\ UNCHANGED refund
        /\ \A k \in Listings : listing'[k].boost = IF k = l THEN o ELSE listing[k].boost
    BY <1>1, <1>8 DEF Capture, TypeOK, ListingState
  <2>2. l \in Listings /\ terms[o].round = listing[l].round
    BY <1>8 DEF Eligible, Round, ForListing
  <2>3. \A p \in granted : ~(terms[p].target = l /\ terms[p].round = listing[l].round)
    BY <1>1, <1>8, <2>2 DEF Eligible, Unpaid, PaymentInv, TypeOK
  <2>. QED
    BY <1>2, <1>4, <1>5, <1>6, <1>7, <2>1, <2>2, <2>3 DEF BoostInv, BoostIsEarned
<1>9. CASE Eligible(o) /\ ~ForListing(o)
  <2>1. granted' = granted \cup {o} /\ UNCHANGED refund
        /\ \A k \in Listings : listing'[k].boost = listing[k].boost
    BY <1>1, <1>9 DEF Capture, TypeOK, ForListing
  <2>. QED
    BY <1>2, <1>4, <1>5, <1>6, <1>7, <1>9, <2>1 DEF BoostInv, BoostIsEarned, ForListing
<1>10. CASE ~Eligible(o)
  <2>1. UNCHANGED <<granted, listing>> /\ \A p \in Orders \ {o} : refund'[p] = refund[p]
    BY <1>1, <1>10 DEF Capture, TypeOK
  <2>. QED
    BY <1>2, <1>4, <1>6, <1>7, <2>1 DEF BoostInv, BoostIsEarned
<1>. QED
  BY <1>8, <1>9, <1>10

LEMMA BoostInductive ==
  ASSUME BoostInv, [Next]_vars
  PROVE  BoostInv'
<1>1. TypeOK /\ PaymentInv /\ SafetyInv'
  BY SafetyInductive DEF BoostInv, SafetyInv
<1>2. CASE Capturing
  BY <1>1, <1>2, CaptureKeepsBoosts DEF BoostInv, Capturing
<1>3. CASE Quiet /\ Current /\ (Steady \/ Ending \/ Refunding)
  <2>1. \A o \in granted : o \in Orders /\ Exists(o) /\ terms'[o] = terms[o]
    BY <1>1, <1>3 DEF PaymentInv, TypeOK, Exists, Quiet
  <2>2. granted' = granted
    BY <1>3 DEF Quiet
  <2>3. \A l \in Listings : listing[l].round \in Nat /\ listing'[l].round \in Nat
    BY <1>1 DEF SafetyInv, TypeOK, ListingState
  <2>4. CASE Steady
    <3>1. RoundInv'
      <4>1. \A l \in Listings : listing'[l].round = listing[l].round
        BY <2>4 DEF Steady
      <4>2. ASSUME NEW o \in Orders, Exists(o), ForListing(o)'
            PROVE  terms'[o].round <= listing'[terms'[o].target].round
        <5>1. terms'[o] = terms[o]
          BY <1>3, <4>2 DEF Quiet
        <5>2. ForListing(o)
          BY <4>2, <5>1 DEF ForListing
        <5>. QED
          BY <4>1, <4>2, <5>1, <5>2 DEF BoostInv, RoundInv, ForListing
      <4>3. ASSUME NEW o \in Orders, Exists(o)', ~Exists(o), ForListing(o)'
            PROVE  terms'[o].round <= listing'[terms'[o].target].round
        <5>1. terms'[o].target \in Listings
          BY <4>3 DEF ForListing
        <5>. QED
          BY <1>3, <2>3, <4>1, <4>3, <5>1 DEF Current, Exists
      <4>. QED
        BY <4>2, <4>3 DEF RoundInv
    <3>2. RefundInv'
      BY <1>3, <2>4 DEF BoostInv, RefundInv, Steady, Quiet
    <3>3. BoostIsEarned'
      BY <2>1, <2>2, <2>4 DEF BoostInv, BoostIsEarned, Steady
    <3>. QED
      BY <1>1, <3>1, <3>2, <3>3 DEF BoostInv
  <2>5. ASSUME UNCHANGED refund, NEW ls, NEW to, EndRound(ls, to)
        PROVE  BoostInv'
    <3>1. \A l \in Listings :
            IF l \in ls THEN listing'[l].round = listing[l].round + 1 /\ listing'[l].boost = None
                        ELSE listing'[l] = listing[l]
      <4>1. ASSUME NEW v \in ListingState
            PROVE  LET w == [v EXCEPT !.status = to, !.round = @ + 1, !.boost = None]
                   IN  w.round = v.round + 1 /\ w.boost = None
        BY DEF ListingState
      <4>2. ASSUME NEW l \in Listings, l \in ls
            PROVE  listing'[l].round = listing[l].round + 1 /\ listing'[l].boost = None
        <5>1. listing'[l] =
                [listing[l] EXCEPT !.status = to, !.round = @ + 1, !.boost = None]
          BY <2>5, <4>2 DEF EndRound
        <5>2. listing[l] \in ListingState
          BY <1>1 DEF TypeOK
        <5>. QED
          BY <4>1, <5>1, <5>2
      <4>3. ASSUME NEW l \in Listings, l \notin ls
            PROVE  listing'[l] = listing[l]
        BY <2>5, <4>3 DEF EndRound
      <4>. QED
        BY <4>2, <4>3
    <3>2. RoundInv'
      <4>1. \A l \in Listings : listing[l].round <= listing'[l].round
        BY <2>3, <3>1
      <4>2. ASSUME NEW o \in Orders, Exists(o), terms[o].target \in Listings
            PROVE  terms'[o].round <= listing'[terms[o].target].round
        <5>1. terms'[o] = terms[o] /\ terms[o].round \in Nat
          BY <1>1, <1>3, <4>2, TermsTypes DEF Quiet
        <5>2. terms[o].round <= listing[terms[o].target].round
          BY <4>2 DEF BoostInv, RoundInv, ForListing
        <5>. QED
          BY <2>3, <4>1, <4>2, <5>1, <5>2
      <4>3. ASSUME NEW o \in Orders, Exists(o)', ~Exists(o), terms'[o].target \in Listings
            PROVE  terms'[o].round <= listing'[terms'[o].target].round
        BY <1>3, <2>3, <4>1, <4>3 DEF Current, Exists
      <4>4. \A o \in Orders : Exists(o) => terms'[o] = terms[o]
        BY <1>3 DEF Quiet
      <4>. QED
        BY <4>2, <4>3, <4>4 DEF RoundInv, ForListing
    <3>3. RefundInv'
      BY <1>3, <2>5 DEF BoostInv, RefundInv, Quiet
    <3>4. ASSUME NEW l \in Listings, NEW o \in Orders
          PROVE  listing'[l].boost = o <=>
                   /\ o \in granted' /\ refund'[o] # "COMPLETED"
                   /\ terms'[o].target = l /\ terms'[o].round = listing'[l].round
      <4>1. CASE l \in ls
        <5>1. listing'[l].boost # o
          BY <3>1, <4>1, BillingAssumption
        <5>2. o \in granted /\ terms[o].target = l => terms[o].round # listing'[l].round
          <6> SUFFICES ASSUME o \in granted, terms[o].target = l
                       PROVE  terms[o].round # listing[l].round + 1
            BY <3>1, <4>1
          <6>1. terms[o].round <= listing[l].round
            BY <2>1 DEF BoostInv, RoundInv, ForListing
          <6>2. terms[o].round \in Nat
            BY <1>1, <2>1, TermsTypes
          <6>. QED
            BY <2>3, <6>1, <6>2
        <5>. QED
          BY <2>1, <2>2, <5>1, <5>2
      <4>2. CASE l \notin ls
        BY <2>1, <2>2, <2>5, <3>1, <4>2 DEF BoostInv, BoostIsEarned
      <4>. QED
        BY <4>1, <4>2
    <3>. QED
      BY <1>1, <3>2, <3>3, <3>4 DEF BoostInv, BoostIsEarned
  <2>6. ASSUME NEW o \in Orders, RequestRefund(o) \/ RejectRefund(o) \/ CompleteRefund(o)
        PROVE  BoostInv'
    <3>1. UNCHANGED <<terms, status>>
      BY <2>6 DEF RequestRefund, RejectRefund, CompleteRefund, orderVars
    <3>2. \A l \in Listings : listing'[l].round = listing[l].round
      BY <1>1, <2>6
      DEF RequestRefund, RejectRefund, CompleteRefund, TypeOK, ListingState
    <3>3. RoundInv'
      BY <3>1, <3>2 DEF BoostInv, RoundInv, ForListing, Exists
    <3>4. RefundInv'
      BY <1>1, <2>6, <3>1
      DEF RequestRefund, RejectRefund, CompleteRefund, BoostInv, RefundInv, TypeOK
    <3>5. BoostIsEarned'
      <4>1. CASE RequestRefund(o) \/ RejectRefund(o)
        BY <1>1, <2>2, <3>1, <4>1
        DEF RequestRefund, RejectRefund, BoostInv, BoostIsEarned, TypeOK
      <4>2. CASE CompleteRefund(o)
        <5>1. refund' = [refund EXCEPT ![o] = "COMPLETED"]
          BY <4>2 DEF CompleteRefund
        <5>2. \A l \in Listings : listing'[l].boost =
                IF o \in granted /\ terms[o].target = l /\ terms[o].round = listing[l].round
                THEN None ELSE listing[l].boost
          BY <1>1, <4>2 DEF CompleteRefund, Ends, TypeOK, ListingState
        <5>3. \A p \in granted \ {o} : ForListing(o) /\ o \in granted => ~SameRound(p, o)
          BY <2>1 DEF BoostInv, SafetyInv, OneBenefitPerRound, SameRound, ForListing
        <5>. QED
          BY <1>1, <2>2, <3>1, <3>2, <5>1, <5>2, <5>3, BillingAssumption
          DEF BoostInv, BoostIsEarned, SameRound, ForListing, TypeOK
      <4>. QED
        BY <2>6, <4>1, <4>2
    <3>. QED
      BY <1>1, <3>3, <3>4, <3>5 DEF BoostInv
  <2>. QED
    BY <1>3, <2>4, <2>5, <2>6 DEF Ending, Refunding
<1>4. Capturing \/ Quiet
  BY <1>1, StepKind
<1>5. Capturing \/ (Current /\ (Steady \/ Ending \/ Refunding))
  BY <1>1, BoostKind
<1>. QED
  BY <1>2, <1>3, <1>4, <1>5

(* The boost of a listing is always the one its current posting round      *)
(* earned and nobody was refunded for.                                     *)
THEOREM BoostSafe == Spec => []BoostIsEarned
<1>1. Init => BoostInv
  <2>1. Init => SafetyInv
    <3>1. Init => TypeOK
      BY BillingAssumption DEF Init, TypeOK, ListingState, TaskState, Idle
    <3>. QED
      BY <3>1 DEF Init, SafetyInv, PaymentInv, OneBenefitPerRound
  <2>. QED
    BY <2>1, BillingAssumption
    DEF Init, BoostInv, RoundInv, RefundInv, BoostIsEarned, Exists
<1>2. BoostInv => BoostIsEarned
  BY DEF BoostInv
<1>. QED
  BY <1>1, <1>2, BoostInductive, PTL DEF Spec

-----------------------------------------------------------------------------
(* Waiting orders and their links.                                         *)

\* A step that lets no order wait that did not wait before, and one that places
\* an order: whatever waited for its round gives way.
Calm ==
  /\ Waiting' \subseteq Waiting
  /\ \A o \in Orders : Exists(o) => terms'[o] = terms[o]

Places(t, o) ==
  /\ Orderable(t)
  /\ UNCHANGED <<account, listing>>
  /\ Waiting' \subseteq (Waiting \ Pending(t)) \cup {o}
  /\ \A p \in Orders : Exists(p) => terms'[p] = terms[p]
  /\ terms'[o].target = t /\ terms'[o].round = Round(t)

Placing == \E t \in Targets, o \in Fresh : Places(t, o)

LEMMA ExpiredCalm ==
  ASSUME TypeOK, NEW os, status' = Expired(os), UNCHANGED terms
  PROVE  Calm
BY DEF TypeOK, Expired, Waiting, Calm

LEMMA ClosePayosCalm ==
  ASSUME TypeOK, NEW o \in Orders, NEW s \in ClosedLink, ClosePayos(o, s)
  PROVE  Calm
<1>1. CASE UNCHANGED orderVars
  BY <1>1 DEF orderVars, Calm, Waiting
<1>2. CASE status' = [status EXCEPT ![o] = s] /\ UNCHANGED terms
  BY <1>2 DEF ClosedLink, Calm, Waiting, TypeOK
<1>. QED
  BY <1>1, <1>2 DEF ClosePayos

LEMMA ApplyCalm ==
  ASSUME TypeOK, NEW e, Apply(e)
  PROVE  Calm
<1>1. CASE Captures(e) /\ Capture(e.order, e.transfer)
  BY <1>1 DEF Capture, Calm, Waiting
<1>2. CASE Fails(e) /\ Fail(e.order)
  BY <1>2 DEF Fail, Calm, Waiting, TypeOK
<1>3. CASE UNCHANGED <<orderVars, benefitVars, listing>>
  BY <1>3 DEF orderVars, Calm, Waiting
<1>. QED
  BY <1>1, <1>2, <1>3 DEF Apply

LEMMA CommitCreatePlaces ==
  ASSUME TypeOK, NEW r \in Tasks, CommitCreate(r)
  PROVE  Calm \/ Placing
<1>. DEFINE t == task[r].target
<1>1. t \in Targets
  BY TaskTypes DEF CommitCreate, OrderTask, CreateTask
<1>2. CASE status' = Expired(Stale(t)) /\ UNCHANGED terms
  BY <1>2, ExpiredCalm
<1>3. ASSUME NEW o \in Fresh, NEW p \in Providers, Pending(t) \subseteq Stale(t),
             status' = [Expired(Stale(t)) EXCEPT ![o] = "PENDING"],
             terms' = [terms EXCEPT ![o] =
               [target |-> t, round |-> Round(t), provider |-> p]]
      PROVE  Places(t, o)
  <2>1. Waiting' \subseteq (Waiting \ Pending(t)) \cup {o}
    <3>1. ASSUME NEW q \in Orders, q # o, status'[q] = "PENDING"
          PROVE  q \in Waiting \ Pending(t)
      <4>1. Expired(Stale(t))[q] = "PENDING"
        BY <1>3, <3>1 DEF Expired
      <4>2. q \notin Stale(t) /\ status[q] = "PENDING"
        BY <4>1 DEF Expired, Stale
      <4>. QED
        BY <1>3, <4>2 DEF Waiting
    <3>. QED
      BY <3>1 DEF Waiting
  <2>2. \A q \in Orders : Exists(q) => terms'[q] = terms[q]
    BY <1>3 DEF Fresh, TypeOK
  <2>3. terms'[o] = [target |-> t, round |-> Round(t), provider |-> p]
    BY <1>3 DEF Fresh, TypeOK
  <2>4. Orderable(t) /\ UNCHANGED <<account, listing>>
    BY DEF CommitCreate
  <2>. QED
    BY <2>1, <2>2, <2>3, <2>4 DEF Places
<1>. QED
  BY <1>1, <1>2, <1>3 DEF CommitCreate, Placing

LEMMA OrderKind ==
  ASSUME TypeOK, [Next]_vars
  PROVE  Calm \/ Placing
<1>1. ASSUME NEW r \in Tasks, CheckoutStep(r) \/ HandlerStep(r)
      PROVE  Calm \/ Placing
  <2>1. CASE Settle(r)
    <3>1. task[r].order \in Orders
      BY <2>1, TaskTypes DEF Settle, Stages, OrderTask
    <3>2. CASE \E e : Apply(e)
      BY <3>2, ApplyCalm
    <3>3. CASE UNCHANGED <<orderVars, benefitVars, listing>>
      BY <3>3 DEF orderVars, Calm, Waiting
    <3>4. CASE \E s \in ClosedLink : ClosePayos(task[r].order, s)
      BY <3>1, <3>4, ClosePayosCalm
    <3>. QED
      BY <2>1, <3>2, <3>3, <3>4 DEF Settle
  <2>2. CASE Save(r)
    <3>1. task[r].order \in Orders
      BY <2>2, TaskTypes DEF Save, Stages, OrderTask
    <3>2. CASE UNCHANGED <<terms, status>>
      BY <3>2 DEF Calm, Waiting
    <3>3. CASE \E s \in ClosedLink : ClosePayos(task[r].order, s)
      BY <3>1, <3>3, ClosePayosCalm
    <3>. QED
      BY <2>2, <3>2, <3>3 DEF Save, orderVars
  <2>3. CASE \E p \in Orders, op \in {"checkout", "sync"} : BeginOrder(r, op, p)
    BY <2>3, ExpiredCalm DEF BeginOrder
  <2>4. CASE Read(r) \/ (\E s \in Tasks : Join(r, s)) \/ Gateway(r)
               \/ (\E t \in Targets : BeginCreate(r, t))
               \/ Abandon(r) \/ Claim(r) \/ Finally(r)
    BY <2>4 DEF Read, Join, Gateway, BeginCreate, Abandon, Claim, Finally, orderVars, Calm, Waiting
  <2>. QED
    BY <1>1, <2>1, <2>2, <2>3, <2>4, CommitCreatePlaces DEF CheckoutStep, HandlerStep
<1>2. ASSUME NEW o \in Orders, OrderStep(o)
      PROVE  Calm
  <2>1. CASE ExpireOrder(o)
    BY <2>1, ExpiredCalm DEF ExpireOrder
  <2>2. CASE UNCHANGED <<terms, status>>
    BY <2>2 DEF Calm, Waiting
  <2>. QED
    BY <1>2, <2>1, <2>2
    DEF OrderStep, Reconcile, Pay, LinkEnds, Elapse, Lapse, RequestRefund, RejectRefund,
        CompleteRefund, orderVars
<1>3. ASSUME NEW e \in Event, Webhook(e)
      PROVE  Calm
  BY <1>3, ApplyCalm DEF Webhook
<1>4. ASSUME NEW l \in Listings, ListingStep(l)
      PROVE  Calm
  <2>1. ASSUME NEW from, NEW to, Withdraw(l, from, to)
        PROVE  Calm
    BY <2>1 DEF Withdraw, Waiting, Calm, TypeOK
  <2>2. ASSUME NEW from, NEW to, NEW full, Relist(l, from, to, full)
        PROVE  Calm
    BY <2>2 DEF Relist, orderVars, Calm, Waiting
  <2>. QED
    BY <1>4, <2>1, <2>2
    DEF ListingStep, Edit, Submit, Publish, Reject, SetFull, Close, DeleteDraft, TakeDown
<1>5. ASSUME NEW u \in Users, AccountStep(u)
      PROVE  Calm
  BY <1>5 DEF AccountStep, SetLock, CloseAccount, Reopen, orderVars, Calm, Waiting
<1>6. CASE UNCHANGED vars
  BY <1>6 DEF vars, orderVars, Calm, Waiting
<1>. QED
  BY <1>1, <1>2, <1>3, <1>4, <1>5, <1>6 DEF Next, Tasks

LEMMA OnePendingInductive ==
  ASSUME TypeOK, OnePending, [Next]_vars
  PROVE  OnePending'
<1>1. \A p \in Waiting : p \in Orders /\ Exists(p)
  BY DEF Waiting, Exists
<1>2. CASE Calm
  BY <1>1, <1>2 DEF OnePending, Calm, SameRound
<1>3. ASSUME NEW t \in Targets, NEW o \in Fresh, Places(t, o)
      PROVE  OnePending'
  <2>1. ASSUME NEW p \in Waiting', NEW q \in Waiting', SameRound(p, q)', p # q
        PROVE  FALSE
    <3>1. CASE p # o /\ q # o
      BY <1>1, <1>3, <2>1, <3>1 DEF OnePending, Places, SameRound
    <3>2. ASSUME NEW w \in Waiting \ Pending(t), SameRound(w, o)' \/ SameRound(o, w)'
          PROVE  FALSE
      BY <1>1, <1>3, <3>2 DEF Places, SameRound, Pending
    <3>. QED
      BY <1>3, <2>1, <3>1, <3>2 DEF Places
  <2>. QED
    BY <2>1 DEF OnePending
<1>. QED
  BY <1>2, <1>3, OrderKind DEF Placing

\* A task that asks the gateway holds the lease of its order, unless the order
\* stopped waiting: closePayos clears the lease of a link that is dead.
Asking(r) == task[r].stage = "gateway"
Holds(r) == lease[task[r].order] = r /\ task[r].order \notin lapsed
LeaseInv ==
  /\ \A r \in Tasks : Asking(r) => Holds(r) \/ status[task[r].order] # "PENDING"
  /\ \A r, s \in Tasks : Asking(r) /\ Asking(s) /\ task[r].order = task[s].order => r = s

ExclusiveInv == TypeOK /\ OnePending /\ LeaseInv

LEMMA AdvanceStage ==
  ASSUME TypeOK, NEW r \in Tasks, NEW stage, NEW a, task[r] \in OrderTask,
         task' = [task EXCEPT ![r].stage = stage, ![r].answer = a]
  PROVE  task'[r].stage = stage /\ \A q \in Tasks \ {r} : task'[q] = task[q]
<1>1. task \in [Tasks -> TaskState]
  BY DEF TypeOK
<1>2. task'[r] = [[task[r] EXCEPT !.stage = stage] EXCEPT !.answer = a]
  BY <1>1
<1>. QED
  BY <1>1, <1>2 DEF OrderTask

LEMMA MoveStage ==
  ASSUME TypeOK, NEW r \in Tasks, NEW stage, task[r] \in OrderTask, Move(r, stage)
  PROVE  task'[r].stage = stage /\ \A q \in Tasks \ {r} : task'[q] = task[q]
BY AdvanceStage DEF Move

LEMMA EndStage ==
  ASSUME TypeOK, NEW r \in Tasks, End(r)
  PROVE  task'[r].stage # "gateway" /\ \A q \in Tasks \ {r} : task'[q] = task[q]
BY DEF TypeOK, End, Idle

LEMMA BecomeStage ==
  ASSUME TypeOK, NEW r \in Tasks, NEW stage, NEW op, NEW t, NEW o, Become(r, stage, op, t, o)
  PROVE  task'[r].stage = stage /\ \A q \in Tasks \ {r} : task'[q] = task[q]
BY DEF TypeOK, Become

\* Nobody but its own checkout starts a call, or takes a lease that is held.
Asks(q) ==
  Asking(q)' =>
    \/ Claim(q)
    \/ /\ task'[q] = task[q]
       /\ Holds(q) /\ status'[task[q].order] = "PENDING" => Holds(q)'

LEMMA ClosePayosAsks ==
  ASSUME TypeOK, NEW r \in Tasks, NEW o \in Orders, NEW s \in ClosedLink, ClosePayos(o, s),
         task'[r].stage # "gateway", \A q \in Tasks \ {r} : task'[q] = task[q]
  PROVE  \A q \in Tasks : Asks(q)
<1>1. CASE UNCHANGED orderVars
  BY <1>1 DEF orderVars, Asks, Asking, Holds
<1>2. CASE /\ status' = [status EXCEPT ![o] = s] /\ lapsed' = lapsed \ {o}
           /\ lease' = [lease EXCEPT ![o] = None]
  <2>1. status'[o] # "PENDING"
    BY <1>2 DEF TypeOK, ClosedLink
  <2>2. \A p \in Orders \ {o} : lease'[p] = lease[p]
    BY <1>2 DEF TypeOK
  <2>3. \A q \in Tasks : Asking(q) => task[q].order \in Orders
    BY TaskTypes DEF Asking, Stages, OrderTask
  <2>. QED
    BY <1>2, <2>1, <2>2, <2>3 DEF Asks, Asking, Holds
<1>. QED
  BY <1>1, <1>2 DEF ClosePayos

LEMMA SettleAsks ==
  ASSUME TypeOK, NEW r \in Tasks, Settle(r)
  PROVE  \A q \in Tasks : Asks(q)
<1>1. task[r] \in OrderTask /\ task[r].order \in Orders
  BY TaskTypes DEF Settle, Stages, OrderTask
<1>2. task'[r].stage # "gateway" /\ \A q \in Tasks \ {r} : task'[q] = task[q]
  BY <1>1, MoveStage, EndStage DEF Settle, Proceed
<1>3. CASE \E s \in ClosedLink : ClosePayos(task[r].order, s)
  BY <1>1, <1>2, <1>3, ClosePayosAsks
<1>4. CASE UNCHANGED <<lease, lapsed>>
  BY <1>2, <1>4 DEF Asks, Asking, Holds
<1>. QED
  BY <1>3, <1>4 DEF Settle, Apply, Capture, Fail, orderVars

LEMMA SaveAsks ==
  ASSUME TypeOK, NEW r \in Tasks, Save(r)
  PROVE  \A q \in Tasks : Asks(q)
<1>. DEFINE o == task[r].order
<1>1. task[r] \in OrderTask /\ o \in Orders
  BY TaskTypes DEF Save, Stages, OrderTask
<1>2. task'[r].stage # "gateway" /\ \A q \in Tasks \ {r} : task'[q] = task[q]
  BY <1>1, MoveStage, EndStage DEF Save
<1>3. CASE \E s \in ClosedLink : ClosePayos(o, s)
  BY <1>1, <1>2, <1>3, ClosePayosAsks
<1>4. CASE lease[o] = r /\ lease' = [lease EXCEPT ![o] = None] /\ lapsed' = lapsed \ {o}
  BY <1>1, <1>2, <1>4, TaskTypes DEF Asks, Asking, Holds, TypeOK, Stages, OrderTask
<1>5. CASE UNCHANGED <<lease, lapsed>>
  BY <1>2, <1>5 DEF Asks, Asking, Holds
<1>. QED
  BY <1>3, <1>4, <1>5 DEF Save, Savable, orderVars

LEMMA StepAsks ==
  ASSUME TypeOK, [Next]_vars
  PROVE  \A q \in Tasks : Asks(q)
<1>1. ASSUME NEW r \in Tasks, CheckoutStep(r) \/ HandlerStep(r)
      PROVE  \A q \in Tasks : Asks(q)
  <2>1. CASE Read(r) \/ \E s \in Tasks : Join(r, s)
    <3>1. task[r] \in OrderTask
      BY <2>1, TaskTypes DEF Read, Join, Stages
    <3>2. task'[r].stage # "gateway" /\ \A q \in Tasks \ {r} : task'[q] = task[q]
      BY <2>1, <3>1, AdvanceStage DEF Read, Join
    <3>. QED
      BY <2>1, <3>2 DEF Read, Join, orderVars, Asks, Asking, Holds
  <2>2. CASE (\E t \in Targets : BeginCreate(r, t)) \/ CommitCreate(r)
               \/ \E o \in Orders, op \in {"checkout", "sync"} : BeginOrder(r, op, o)
    <3>1. task'[r].stage # "gateway" /\ \A q \in Tasks \ {r} : task'[q] = task[q]
      <4>1. ASSUME NEW stage \in {"read", "commit"}, NEW op, NEW t, NEW o, Become(r, stage, op, t, o)
            PROVE  task'[r].stage # "gateway" /\ \A q \in Tasks \ {r} : task'[q] = task[q]
        BY <4>1, BecomeStage
      <4>2. CASE \E t \in Targets : BeginCreate(r, t)
        BY <4>1, <4>2 DEF BeginCreate
      <4>3. CASE \E o \in Orders, op \in {"checkout", "sync"} : BeginOrder(r, op, o)
        BY <4>1, <4>3 DEF BeginOrder
      <4>4. CASE CommitCreate(r)
        BY <4>4, EndStage DEF CommitCreate
      <4>. QED
        BY <2>2, <4>2, <4>3, <4>4
    <3>2. UNCHANGED <<lease, lapsed>>
      BY <2>2 DEF BeginCreate, BeginOrder, CommitCreate, orderVars
    <3>. QED
      BY <3>1, <3>2 DEF Asks, Asking, Holds
  <2>3. CASE Claim(r)
    <3>1. task[r] \in OrderTask /\ task[r].order \in Orders
      BY <2>3, TaskTypes DEF Claim, OrderTask
    <3>2. \A q \in Tasks \ {r} : task'[q] = task[q]
      BY <2>3, <3>1, MoveStage, EndStage DEF Claim
    <3>3. ASSUME NEW q \in Tasks \ {r}, Asking(q), Holds(q)
          PROVE  Holds(q)'
      <4>1. task[q].order \in Orders
        BY <3>3, TaskTypes DEF Asking, Stages, OrderTask
      <4>2. q # None
        BY BillingAssumption
      <4>. QED
        BY <2>3, <3>1, <3>2, <3>3, <4>1, <4>2 DEF Claim, Leasable, Holds, TypeOK
    <3>. QED
      BY <2>3, <3>2, <3>3 DEF Asks, Asking
  <2>4. CASE Gateway(r)
    <3>1. task[r] \in OrderTask
      BY <2>4, TaskTypes DEF Gateway, Stages
    <3>2. task'[r].stage # "gateway" /\ \A q \in Tasks \ {r} : task'[q] = task[q]
      <4>1. \/ Move(r, "finally")
            \/ \E a : task' = [task EXCEPT ![r].stage = "save", ![r].answer = a]
        BY <2>4 DEF Gateway
      <4>. QED
        BY <3>1, <4>1, AdvanceStage, MoveStage
    <3>. QED
      BY <2>4, <3>2 DEF Gateway, orderVars, Asks, Asking, Holds
  <2>5. CASE Finally(r) \/ Abandon(r)
    <3>1. task'[r].stage # "gateway" /\ \A q \in Tasks \ {r} : task'[q] = task[q]
      BY <2>5, EndStage DEF Finally, Abandon
    <3>2. ASSUME NEW q \in Tasks \ {r}, Asking(q), Holds(q)
          PROVE  Holds(q)'
      <4>1. task[q].order \in Orders
        BY <3>2, TaskTypes DEF Asking, Stages, OrderTask
      <4>. QED
        BY <2>5, <3>1, <3>2, <4>1 DEF Finally, Abandon, Holds, TypeOK
    <3>. QED
      BY <3>1, <3>2 DEF Asks, Asking
  <2>. QED
    BY <1>1, <2>1, <2>2, <2>3, <2>4, <2>5, SettleAsks, SaveAsks DEF CheckoutStep, HandlerStep
<1>2. ASSUME NEW o \in Orders, OrderStep(o)
      PROVE  \A q \in Tasks : Asks(q)
  <2>1. CASE Reconcile(o)
    <3>1. Worker \in Tasks
      BY DEF Tasks
    <3>2. task'[Worker].stage # "gateway" /\ \A q \in Tasks \ {Worker} : task'[q] = task[q]
      BY <2>1, <3>1, BecomeStage DEF Reconcile
    <3>. QED
      BY <2>1, <3>2 DEF Reconcile, orderVars, Asks, Asking, Holds
  <2>2. CASE Lapse(o)
    BY <2>2 DEF Lapse, Asks, Asking, Holds
  <2>3. CASE UNCHANGED <<lease, lapsed, task>>
    BY <2>3 DEF Asks, Asking, Holds
  <2>. QED
    BY <1>2, <2>1, <2>2, <2>3
    DEF OrderStep, ExpireOrder, Pay, LinkEnds, Elapse, RequestRefund, RejectRefund,
        CompleteRefund, orderVars
<1>3. CASE UNCHANGED <<lease, lapsed, task>>
  BY <1>3 DEF Asks, Asking, Holds
<1>4. ASSUME NEW e \in Event, Webhook(e)
      PROVE  UNCHANGED <<lease, lapsed, task>>
  BY <1>4 DEF Webhook, Apply, Capture, Fail, orderVars
<1>5. ASSUME NEW l \in Listings, ListingStep(l)
      PROVE  UNCHANGED <<lease, lapsed, task>>
  BY <1>5
  DEF ListingStep, Edit, Submit, Publish, Reject, SetFull, Close, DeleteDraft, TakeDown, Relist,
      Withdraw, orderVars
<1>6. ASSUME NEW u \in Users, AccountStep(u)
      PROVE  UNCHANGED <<lease, lapsed, task>>
  BY <1>6 DEF AccountStep, SetLock, CloseAccount, Reopen, orderVars
<1>. QED
  BY <1>1, <1>2, <1>3, <1>4, <1>5, <1>6 DEF Next, Tasks, vars, orderVars

LEMMA LeaseInductive ==
  ASSUME ExclusiveInv, [Next]_vars
  PROVE  LeaseInv'
<1>. USE DEF ExclusiveInv
<1>1. \A q \in Tasks : Asks(q)
  BY StepAsks
<1>2. ASSUME NEW q \in Tasks, Asking(q)
      PROVE  task[q].order \in Orders /\ Exists(task[q].order)
  <2>1. task[q] \in OrderTask
    BY <1>2, TaskTypes DEF Asking, Stages
  <2>2. task[q].order # None
    BY <2>1, BillingAssumption DEF OrderTask
  <2>. QED
    BY <2>2, TaskOrder
<1>3. ASSUME NEW o \in Orders, Exists(o), status[o] # "PENDING"
      PROVE  status'[o] # "PENDING"
  BY <1>3, OrderKind DEF Calm, Placing, Places, Waiting, Fresh
<1>4. ASSUME NEW r \in Tasks, Claim(r), Asking(r)'
      PROVE  /\ task'[r].order = task[r].order /\ task[r].order \in Orders
             /\ Holds(r)' /\ Leasable(task[r].order) /\ status[task[r].order] = "PENDING"
             /\ \A q \in Tasks \ {r} : task'[q] = task[q]
  <2>1. task[r] \in OrderTask /\ task[r].order \in Orders
    BY <1>4, TaskTypes DEF Claim, OrderTask
  <2>2. ~End(r)
    BY <1>4, EndStage DEF Asking
  <2>3. Move(r, "gateway") /\ lease' = [lease EXCEPT ![task[r].order] = r]
        /\ lapsed' = lapsed \ {task[r].order} /\ Leasable(task[r].order)
    BY <1>4, <2>2 DEF Claim
  <2>4. task'[r].order = task[r].order
    <3>1. task'[r] = [[task[r] EXCEPT !.stage = "gateway"] EXCEPT !.answer = None]
      BY <2>3 DEF Move, TypeOK
    <3>. QED
      BY <2>1, <3>1 DEF OrderTask
  <2>. QED
    BY <1>4, <2>1, <2>3, <2>4, MoveStage DEF Claim, Payable, Holds, TypeOK
<1>5. ASSUME NEW r \in Tasks, NEW q \in Tasks \ {r}, Claim(r), Asking(r)', Asking(q)'
      PROVE  task'[q].order # task'[r].order
  <2>1. Asking(q) /\ task'[q] = task[q]
    BY <1>4, <1>5 DEF Asking
  <2>2. ASSUME task[q].order = task[r].order
        PROVE  FALSE
    <3>1. Holds(q)
      BY <1>4, <1>5, <2>1, <2>2 DEF LeaseInv
    <3>. QED
      BY <1>4, <1>5, <2>2, <3>1, BillingAssumption DEF Holds, Leasable
  <2>. QED
    BY <1>4, <1>5, <2>1, <2>2
<1>6. ASSUME NEW r \in Tasks, Asking(r)'
      PROVE  Holds(r)' \/ status'[task'[r].order] # "PENDING"
  BY <1>1, <1>2, <1>3, <1>4, <1>6 DEF LeaseInv, Asks, Asking
<1>7. ASSUME NEW r \in Tasks, NEW s \in Tasks, Asking(r)', Asking(s)',
             task'[r].order = task'[s].order
      PROVE  r = s
  BY <1>1, <1>5, <1>7 DEF LeaseInv, Asks, Asking
<1>. QED
  BY <1>6, <1>7 DEF LeaseInv

(* One order waits per posting round and one for the AI credits of a user,  *)
(* and at most one handler asks the gateway for the link of an order: the   *)
(* lease and what closes a link never let two buyers' pages open.           *)
THEOREM OrdersExclusive == Spec => []OrdersAreExclusive
<1>1. Init => ExclusiveInv
  <2>1. Init => TypeOK
    BY BillingAssumption DEF Init, TypeOK, ListingState, TaskState, Idle
  <2>. QED
    BY <2>1 DEF Init, ExclusiveInv, OnePending, Waiting, LeaseInv, Asking, Idle
<1>2. ExclusiveInv /\ [Next]_vars => ExclusiveInv'
  BY TypeInductive, OnePendingInductive, LeaseInductive DEF ExclusiveInv
<1>3. ExclusiveInv => OrdersAreExclusive
  BY DEF ExclusiveInv, OrdersAreExclusive, LeaseInv, Asking, GatewayExclusive, Tasks
<1>. QED
  BY <1>1, <1>2, <1>3, PTL DEF Spec

-----------------------------------------------------------------------------
(* Closed accounts.                                                        *)

\* A listing that left the market has no boost to show.
QuietInv ==
  /\ TypeOK /\ ClosedAccountIsQuiet
  /\ \A l \in Listings : listing[l].status \in {"CLOSED", "DELETED"} => listing[l].boost = None

\* Only steps of the owner, of moderators and payments touch listings, and only
\* steps of its user touch an account.
LEMMA MarketKind ==
  ASSUME TypeOK, [Next]_vars
  PROVE  \/ UNCHANGED <<account, listing>>
         \/ UNCHANGED account /\ Capturing
         \/ UNCHANGED account /\ \E o \in Orders : CompleteRefund(o)
         \/ UNCHANGED account /\ \E l \in Listings : ListingStep(l)
         \/ \E u \in Users : AccountStep(u)
<1>1. ASSUME NEW r \in Tasks, CheckoutStep(r) \/ HandlerStep(r)
      PROVE  UNCHANGED <<account, listing>> \/ (UNCHANGED account /\ Capturing)
  <2>1. CASE Settle(r)
    <3>1. task[r].order \in Orders /\ Exists(task[r].order)
      <4>1. task[r] \in OrderTask /\ task[r].order \in Orders
        BY <2>1, TaskTypes DEF Settle, Stages, OrderTask
      <4>. QED
        BY <4>1, TaskOrder, BillingAssumption
    <3>2. ASSUME NEW t \in Transfers, Apply([order |-> task[r].order, result |-> "paid", transfer |-> t])
          PROVE  UNCHANGED listing \/ Capturing
      <4>. DEFINE e == [order |-> task[r].order, result |-> "paid", transfer |-> t]
      <4>1. e.order = task[r].order /\ e.transfer = t /\ Apply(e)
        BY <3>2
      <4>. HIDE DEF e
      <4>. QED
        BY <3>1, <4>1 DEF Apply, Captures, Capturing, Fail
    <3>. QED
      BY <2>1, <3>2 DEF Settle
  <2>. QED
    BY <1>1, <2>1
    DEF CheckoutStep, HandlerStep, Read, Join, Abandon, BeginCreate, BeginOrder, CommitCreate,
        Claim, Gateway, Save, Finally
<1>2. ASSUME NEW o \in Orders, OrderStep(o)
      PROVE  UNCHANGED <<account, listing>> \/ (UNCHANGED account /\ CompleteRefund(o))
  BY <1>2
  DEF OrderStep, Reconcile, Pay, LinkEnds, Elapse, Lapse, ExpireOrder, RequestRefund, RejectRefund,
      CompleteRefund
<1>3. ASSUME NEW e \in Event, Webhook(e)
      PROVE  UNCHANGED <<account, listing>> \/ (UNCHANGED account /\ Capturing)
  <2>1. e.order \in Orders
    BY DEF Event
  <2>2. Captures(e) => e.transfer \in Transfers
    BY <1>3, <2>1 DEF Webhook, Reportable, Captures, TypeOK
  <2>. QED
    BY <1>3, <2>1, <2>2 DEF Webhook, Apply, Captures, Capturing, Fail
<1>4. ASSUME NEW l \in Listings, ListingStep(l)
      PROVE  UNCHANGED account
  BY <1>4
  DEF ListingStep, Edit, Submit, Publish, Reject, SetFull, Close, DeleteDraft, TakeDown, Relist,
      Withdraw
<1>. QED
  BY <1>1, <1>2, <1>3, <1>4 DEF Next, Tasks, vars

\* The part of QuietInv about listings.
NothingPosted ==
  /\ \A u \in Users : account[u] = "closed" =>
       \A l \in Listings : Owner[l] = u =>
         listing[l].status # "PUBLISHED" /\ listing[l].boost = None
  /\ \A l \in Listings : listing[l].status \in {"CLOSED", "DELETED"} => listing[l].boost = None

LEMMA PostedInductive ==
  ASSUME QuietInv, [Next]_vars
  PROVE  NothingPosted'
<1>1. TypeOK /\ NothingPosted
  BY DEF QuietInv, ClosedAccountIsQuiet, NothingPosted
<1>2. \A l \in Listings : listing[l] \in ListingState
  BY <1>1 DEF TypeOK
<1>3. CASE UNCHANGED <<account, listing>>
  BY <1>1, <1>3 DEF NothingPosted
<1>4. ASSUME UNCHANGED account, NEW o \in Orders, NEW t \in Transfers, Capture(o, t)
      PROVE  NothingPosted'
  <2>1. CASE Eligible(o) /\ ForListing(o)
    <3>. DEFINE m == terms[o].target
    <3>1. m \in Listings /\ listing[m].status = "PUBLISHED" /\ account[Owner[m]] = "open"
      BY <2>1 DEF Eligible, ForListing, Boostable
    <3>2. \A l \in Listings : /\ listing'[l].status = listing[l].status
                              /\ l # m => listing'[l].boost = listing[l].boost
      BY <1>2, <1>4, <2>1 DEF Capture, ListingState
    <3>. HIDE DEF m
    <3>3. ASSUME NEW l \in Listings, account[Owner[l]] = "closed"
          PROVE  listing'[l].status # "PUBLISHED" /\ listing'[l].boost = None
      <4>1. l # m /\ Owner[l] \in Users
        BY <3>1, <3>3, BillingAssumption
      <4>2. listing[l].status # "PUBLISHED" /\ listing[l].boost = None
        BY <1>1, <3>3, <4>1 DEF NothingPosted
      <4>3. listing'[l].status = listing[l].status /\ listing'[l].boost = listing[l].boost
        BY <3>2, <4>1
      <4>. QED
        BY <4>2, <4>3
    <3>4. ASSUME NEW l \in Listings, listing'[l].status \in {"CLOSED", "DELETED"}
          PROVE  listing'[l].boost = None
      <4>1. listing[l].status \in {"CLOSED", "DELETED"} /\ l # m
        BY <3>1, <3>2, <3>4
      <4>2. listing[l].boost = None
        BY <1>1, <4>1 DEF NothingPosted
      <4>. QED
        BY <3>2, <4>1, <4>2
    <3>. QED
      BY <1>4, <3>3, <3>4 DEF NothingPosted
  <2>2. CASE ~(Eligible(o) /\ ForListing(o))
    <3>1. \A l \in Listings : listing'[l] = listing[l]
      BY <1>4, <2>2 DEF Capture, ForListing
    <3>. QED
      BY <1>1, <1>4, <3>1 DEF NothingPosted
  <2>. QED
    BY <2>1, <2>2
<1>5. ASSUME UNCHANGED account, NEW o \in Orders, CompleteRefund(o)
      PROVE  NothingPosted'
  <2>1. \A l \in Listings : /\ listing'[l].status = listing[l].status
                            /\ listing'[l].boost \in {listing[l].boost, None}
    BY <1>2, <1>5 DEF CompleteRefund, ListingState
  <2>. QED
    BY <1>1, <1>5, <2>1 DEF NothingPosted
<1>6. ASSUME NEW ls, NEW to, EndRound(ls, to)
      PROVE  \A l \in Listings :
               IF l \in ls THEN listing'[l].status = to /\ listing'[l].boost = None
                           ELSE listing'[l] = listing[l]
  <2>1. ASSUME NEW v \in ListingState
        PROVE  LET w == [v EXCEPT !.status = to, !.round = @ + 1, !.boost = None]
               IN  w.status = to /\ w.boost = None
    BY DEF ListingState
  <2>2. ASSUME NEW l \in Listings, l \in ls
        PROVE  listing'[l].status = to /\ listing'[l].boost = None
    <3>1. listing'[l] = [listing[l] EXCEPT !.status = to, !.round = @ + 1, !.boost = None]
      BY <1>6, <2>2 DEF EndRound
    <3>. QED
      BY <1>2, <2>1, <3>1
  <2>3. ASSUME NEW l \in Listings, l \notin ls
        PROVE  listing'[l] = listing[l]
    BY <1>6, <2>3 DEF EndRound
  <2>. QED
    BY <2>2, <2>3
<1>7. ASSUME UNCHANGED account, NEW l \in Listings, ListingStep(l)
      PROVE  NothingPosted'
  <2>1. ASSUME NEW from, NEW to \in {"CLOSED", "DELETED", "REJECTED"}, Withdraw(l, from, to)
        PROVE  NothingPosted'
    BY <1>1, <1>6, <1>7, <2>1 DEF Withdraw, NothingPosted
  <2>2. ASSUME NEW from, NEW to \in {"DRAFT", "PENDING", "PUBLISHED", "REJECTED"}, NEW full,
               Relist(l, from, to, full),
               to = "PUBLISHED" => account[Owner[l]] = "open" \/ listing[l].status = "PUBLISHED"
        PROVE  NothingPosted'
    <3>1. /\ listing'[l].status = to /\ listing'[l].boost = listing[l].boost
          /\ \A k \in Listings \ {l} : listing'[k] = listing[k]
      BY <1>1, <1>2, <2>2 DEF Relist, TypeOK, ListingState
    <3>. QED
      BY <1>1, <1>7, <2>2, <3>1 DEF NothingPosted
  <2>3. CASE Edit(l) \/ Submit(l) \/ Publish(l) \/ Reject(l) \/ SetFull(l)
    BY <2>2, <2>3 DEF Edit, Submit, Publish, Reject, SetFull, Relist
  <2>. QED
    BY <1>7, <2>1, <2>3 DEF ListingStep, Close, DeleteDraft, TakeDown
<1>8. ASSUME NEW u \in Users, AccountStep(u)
      PROVE  NothingPosted'
  <2>1. CASE CloseAccount(u)
    <3>. DEFINE posted == {l \in Listings : Owner[l] = u /\ listing[l].status \notin {"CLOSED", "DELETED"}}
    <3>1. account' = [account EXCEPT ![u] = "closed"] /\ EndRound(posted, "CLOSED")
      BY <2>1 DEF CloseAccount
    <3>2. \A l \in Listings :
            IF l \in posted THEN listing'[l].status = "CLOSED" /\ listing'[l].boost = None
                            ELSE listing'[l] = listing[l]
      BY <1>6, <3>1
    <3>. QED
      BY <1>1, <3>1, <3>2 DEF NothingPosted, TypeOK
  <2>2. CASE SetLock(u) \/ Reopen(u)
    BY <1>1, <2>2 DEF SetLock, Reopen, NothingPosted, TypeOK
  <2>. QED
    BY <1>8, <2>1, <2>2 DEF AccountStep
<1>. QED
  BY <1>1, <1>3, <1>4, <1>5, <1>7, <1>8, MarketKind DEF Capturing

LEMMA QuietInductive ==
  ASSUME QuietInv, [Next]_vars
  PROVE  QuietInv'
<1>1. TypeOK /\ TypeOK'
  BY TypeInductive DEF QuietInv
<1>2. \A o \in Waiting : o \in Orders /\ Exists(o) /\ terms[o].target \in Targets
  BY <1>1, TermsTypes DEF Waiting, Exists
<1>3. ASSUME NEW u \in Users, account'[u] = "closed", NEW o \in Waiting', Buyer(terms'[o].target) = u
      PROVE  FALSE
  <2>1. CASE account[u] = "closed" /\ Calm
    BY <1>2, <1>3, <2>1 DEF QuietInv, ClosedAccountIsQuiet, Calm
  <2>2. ASSUME account[u] = "closed", NEW t \in Targets, NEW new \in Fresh, Places(t, new)
        PROVE  FALSE
    <3>1. CASE o = new
      BY <1>3, <2>2, <3>1 DEF Places, Orderable, Boostable, Buyer
    <3>2. CASE o # new
      BY <1>2, <1>3, <2>2, <3>2 DEF QuietInv, ClosedAccountIsQuiet, Places
    <3>. QED
      BY <3>1, <3>2
  <2>3. CASE account[u] # "closed"
    <3>1. CloseAccount(u)
      <4>1. account[u] # account'[u]
        BY <1>3, <2>3
      <4>2. PICK v \in Users : AccountStep(v)
        BY <1>1, <4>1, MarketKind
      <4>3. v = u
        BY <1>1, <4>1, <4>2 DEF AccountStep, SetLock, CloseAccount, Reopen, TypeOK
      <4>4. ~SetLock(u) /\ ~Reopen(u)
        BY <1>1, <1>3 DEF SetLock, Reopen, TypeOK
      <4>. QED
        BY <4>2, <4>3, <4>4 DEF AccountStep
    <3>2. UNCHANGED orderVars /\ Settled(u)
      BY <3>1 DEF CloseAccount
    <3>. QED
      BY <1>3, <3>2 DEF orderVars, Settled, Waiting, Exists
  <2>. QED
    BY <1>1, <2>1, <2>2, <2>3, OrderKind DEF Placing
<1>. QED
  BY <1>1, <1>3, PostedInductive DEF QuietInv, ClosedAccountIsQuiet, NothingPosted

(* Whatever handlers, moderators and notifications are under way when an    *)
(* account closes, it is left with nothing that waits for money and nothing *)
(* on the market.                                                           *)
THEOREM ClosedSafe == Spec => []ClosedAccountIsQuiet
<1>1. Init => QuietInv
  <2>1. Init => TypeOK
    BY BillingAssumption DEF Init, TypeOK, ListingState, TaskState, Idle
  <2>. QED
    BY <2>1 DEF Init, QuietInv, ClosedAccountIsQuiet
<1>2. QuietInv => ClosedAccountIsQuiet
  BY DEF QuietInv
<1>. QED
  BY <1>1, <1>2, QuietInductive, PTL DEF Spec
=============================================================================

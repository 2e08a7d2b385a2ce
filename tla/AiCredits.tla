------------------------------ MODULE AiCredits ------------------------------
(***************************************************************************)
(* The AI credit wallet: modules/ai-credits, the provider call that spends *)
(* it (modules/ai/ai-provider.service.ts) and the refund steps of          *)
(* modules/billing/refund-rules.service.ts that hold or revoke a pack.     *)
(*                                                                         *)
(* A credit comes from a source: the free allowance of a user, or a pack   *)
(* bought with a service order.  Every transaction takes the user's row    *)
(* lock first (SELECT ... FOR UPDATE), so each one is a single step; the   *)
(* provider call runs between two transactions, on one of several server   *)
(* instances, and any instance may die while it runs.                      *)
(***************************************************************************)
EXTENDS Naturals, FiniteSets

CONSTANTS
  Users,        \* accounts of role USER
  Packs,        \* AI orders, each of which may become a pack
  Uses,         \* identifiers of ai_credit_uses rows
  Instances,    \* server processes, each with its own in-memory limits
  Buyer,        \* the account that placed each AI order
  FreeCredits,  \* freeAiCredits
  PackCredits,  \* aiCreditPlan.credits
  MaxActive     \* provider calls one instance runs at once

ASSUME CreditAssumption ==
  /\ IsFiniteSet(Uses)
  /\ IsFiniteSet(Packs)
  /\ Users \cap Packs = {}
  /\ Buyer \in [Packs -> Users]
  /\ FreeCredits \in Nat
  /\ PackCredits \in Nat
  /\ MaxActive \in Nat

VARIABLES
  account,  \* account[u]: "open", "locked" or "closed"
  used,     \* used[s]: freeUsed of a user's wallet, or used of a pack
  bought,   \* bought[p]: rank of pack p by createdAt, 0 before it exists
  held,     \* packs kept back while a refund is open
  revoked,  \* packs taken back by a completed refund
  refund,   \* refund[p]: the refund request of the pack's order
  status,   \* status[x]: the use row x, "NONE" before it is created
  source,   \* source[x]: what use x charged (packId, or the free allowance)
  stale,    \* uses reserved more than 120 seconds ago
  aiCall    \* aiCall[i][u]: the provider call of user u on instance i

vars ==
  <<account, used, bought, held, revoked, refund, status, source, stale, aiCall>>
packVars == <<bought, held, revoked, refund>>

Sources == Users \cup Packs
Owner(s) == IF s \in Users THEN s ELSE Buyer[s]
Limit(s) == IF s \in Users THEN FreeCredits ELSE PackCredits
NoSource == "NONE"

\* The in-memory call: none, waiting for the provider with a reserved use, or
\* in the catch block that gives the use back.
Idle == [doing |-> "idle"]
CallState == {Idle} \cup [doing : {"provider", "release"}, use : Uses]

TypeOK ==
  /\ account \in [Users -> {"open", "locked", "closed"}]
  /\ used \in [Sources -> Nat]
  /\ bought \in [Packs -> Nat]
  /\ held \in SUBSET Packs
  /\ revoked \in SUBSET Packs
  /\ refund \in [Packs -> {"NONE", "OPEN", "REJECTED", "COMPLETED"}]
  /\ status \in [Uses -> {"NONE", "PENDING", "COMPLETED", "FAILED"}]
  /\ source \in [Uses -> Sources \cup {NoSource}]
  /\ stale \in SUBSET Uses
  /\ aiCall \in [Instances -> [Users -> CallState]]

-----------------------------------------------------------------------------
(* What a transaction reads.                                               *)

\* The uses recover() gives back: PENDING rows of u past the deadline.
Faulty_Expired(u) == {x \in stale : status[x] = "PENDING" /\ source[x] = u}
Expired(u) ==
  {x \in stale : status[x] = "PENDING" /\ source[x] \in Sources /\ Owner(source[x]) = u}

\* The conditional updates of complete() and releaseIn(): only a PENDING row.
Completes(x) == status[x] = "PENDING"
Faulty_GivenBack(x) == {x}
GivenBack(x) == {y \in {x} : status[y] = "PENDING"}

\* The counters and the rows once the uses in back have been given back.
UsedAfter(back) ==
  [s \in Sources |-> used[s] - Cardinality({x \in back : source[x] = s})]
StatusAfter(back) ==
  [x \in Uses |-> IF x \in back THEN "FAILED" ELSE status[x]]

\* Packs of u that can pay when the counters are spent.
Spendable(u, spent) ==
  {p \in Packs : /\ Buyer[p] = u
                 /\ bought[p] # 0
                 /\ p \notin held \cup revoked
                 /\ spent[p] < PackCredits}

\* The source reserve() charges: the free credits, then the oldest pack.
Charges(u, spent, s) ==
  \/ s = u /\ spent[u] < FreeCredits
  \/ /\ spent[u] >= FreeCredits
     /\ s \in Spendable(u, spent)
     /\ \A p \in Spendable(u, spent) : bought[s] <= bought[p]

Busy(i) == {u \in Users : aiCall[i][u] # Idle}

-----------------------------------------------------------------------------
Init ==
  /\ account = [u \in Users |-> "open"]
  /\ used = [s \in Sources |-> 0]
  /\ bought = [p \in Packs |-> 0]
  /\ held = {}
  /\ revoked = {}
  /\ refund = [p \in Packs |-> "NONE"]
  /\ status = [x \in Uses |-> "NONE"]
  /\ source = [x \in Uses |-> NoSource]
  /\ stale = {}
  /\ aiCall = [i \in Instances |-> [u \in Users |-> Idle]]

\* generate() up to the provider request: the instance has a free slot, the
\* user no other call on it, and reserve() recovers, picks a source, charges it.
Reserve(i, u, x) ==
  /\ aiCall[i][u] = Idle
  /\ Cardinality(Busy(i)) < MaxActive
  /\ account[u] = "open"
  /\ status[x] = "NONE"
  /\ \E s \in Sources :
       /\ Charges(u, UsedAfter(Expired(u)), s)
       /\ used' = [UsedAfter(Expired(u)) EXCEPT ![s] = @ + 1]
       /\ status' = [StatusAfter(Expired(u)) EXCEPT ![x] = "PENDING"]
       /\ source' = [source EXCEPT ![x] = s]
  /\ aiCall' = [aiCall EXCEPT ![i][u] = [doing |-> "provider", use |-> x]]
  /\ UNCHANGED <<account, packVars, stale>>

\* A timeout, a refusal, a malformed answer, or a transaction of complete()
\* that rolls back: control reaches the catch block, the row is still as it was.
ProviderFails(i, u) ==
  /\ aiCall[i][u].doing = "provider"
  /\ aiCall' = [aiCall EXCEPT ![i][u].doing = "release"]
  /\ UNCHANGED <<account, used, packVars, status, source, stale>>

\* complete() commits the use together with the caller's result.  The caller
\* may still see an error after the commit, and then runs the catch block.
Complete(i, u) ==
  /\ aiCall[i][u].doing = "provider"
  /\ Completes(aiCall[i][u].use)
  /\ status' = [status EXCEPT ![aiCall[i][u].use] = "COMPLETED"]
  /\ \/ aiCall' = [aiCall EXCEPT ![i][u] = Idle]
     \/ aiCall' = [aiCall EXCEPT ![i][u].doing = "release"]
  /\ UNCHANGED <<account, used, packVars, source, stale>>

\* release(): give the credit back once, only while the use is PENDING.
Release(i, u) ==
  /\ aiCall[i][u].doing = "release"
  /\ LET back == GivenBack(aiCall[i][u].use)
     IN  /\ used' = UsedAfter(back)
         /\ status' = StatusAfter(back)
  /\ aiCall' = [aiCall EXCEPT ![i][u] = Idle]
  /\ UNCHANGED <<account, packVars, source, stale>>

\* The release transaction fails: the finally block frees the slot, the use
\* stays PENDING.
ReleaseLost(i, u) ==
  /\ aiCall[i][u].doing = "release"
  /\ aiCall' = [aiCall EXCEPT ![i][u] = Idle]
  /\ UNCHANGED <<account, used, packVars, status, source, stale>>

\* The instance stops: its calls and its busy set are gone.
Crash(i) ==
  /\ Busy(i) # {}
  /\ aiCall' = [aiCall EXCEPT ![i] = [u \in Users |-> Idle]]
  /\ UNCHANGED <<account, used, packVars, status, source, stale>>

\* 120 seconds have passed since use x was reserved.
Elapse(x) ==
  /\ status[x] = "PENDING"
  /\ x \notin stale
  /\ stale' = stale \cup {x}
  /\ UNCHANGED <<account, used, packVars, status, source, aiCall>>

\* usage(): shows the balance after recovering expired uses.
Usage(u) ==
  /\ Expired(u) # {}
  /\ used' = UsedAfter(Expired(u))
  /\ status' = StatusAfter(Expired(u))
  /\ UNCHANGED <<account, packVars, source, stale, aiCall>>

-----------------------------------------------------------------------------
(* Steps of the billing modules on packs, under the same user lock.        *)

\* A captured payment creates the pack (ServicePaymentsService.apply).
Buy(p) ==
  /\ bought[p] = 0
  /\ account[Buyer[p]] = "open"
  /\ bought' = [bought EXCEPT ![p] = 1 + Cardinality({q \in Packs : bought[q] # 0})]
  /\ UNCHANGED <<account, used, held, revoked, refund, status, source, stale, aiCall>>

\* The buyer asks for the money back: only an untouched pack, then held.
RequestRefund(p) ==
  /\ bought[p] # 0
  /\ refund[p] = "NONE"
  /\ used[p] = 0
  /\ refund' = [refund EXCEPT ![p] = "OPEN"]
  /\ held' = held \cup {p}
  /\ UNCHANGED <<account, used, bought, revoked, status, source, stale, aiCall>>

\* An administrator rejects: the pack is spendable again.
RejectRefund(p) ==
  /\ refund[p] = "OPEN"
  /\ refund' = [refund EXCEPT ![p] = "REJECTED"]
  /\ held' = IF p \in revoked THEN held ELSE held \ {p}
  /\ UNCHANGED <<account, used, bought, revoked, status, source, stale, aiCall>>

\* The money is back with the buyer: the pack is revoked.
CompleteRefund(p) ==
  /\ refund[p] = "OPEN"
  /\ refund' = [refund EXCEPT ![p] = "COMPLETED"]
  /\ held' = held \ {p}
  /\ revoked' = revoked \cup {p}
  /\ UNCHANGED <<account, used, bought, status, source, stale, aiCall>>

\* Administrators lock and unlock an account; its owner may close it, and an
\* administrator may reopen it.
ChangeAccount(u, to) ==
  /\ "open" \in {account[u], to} /\ account[u] # to
  /\ account' = [account EXCEPT ![u] = to]
  /\ UNCHANGED <<used, packVars, status, source, stale, aiCall>>

-----------------------------------------------------------------------------
Next ==
  \/ \E i \in Instances, u \in Users :
       \/ \E x \in Uses : Reserve(i, u, x)
       \/ ProviderFails(i, u)
       \/ Complete(i, u)
       \/ Release(i, u)
       \/ ReleaseLost(i, u)
  \/ \E i \in Instances : Crash(i)
  \/ \E x \in Uses : Elapse(x)
  \/ \E u \in Users : Usage(u)
  \/ \E p \in Packs : Buy(p) \/ RequestRefund(p) \/ RejectRefund(p) \/ CompleteRefund(p)
  \/ \E u \in Users, to \in {"open", "locked", "closed"} : ChangeAccount(u, to)

Spec == Init /\ [][Next]_vars

\* Time passes, and the user opens an AI page again (every one asks usage()).
\* Nothing is assumed of the provider, of release() or of the instances.
Fairness ==
  /\ \A x \in Uses : WF_vars(Elapse(x))
  /\ \A u \in Users : WF_vars(Usage(u))

FairSpec == Spec /\ Fairness

-----------------------------------------------------------------------------
(* Correctness.                                                            *)

\* The uses a source has paid for or is paying for.
Charged(s) == {x \in Uses : source[x] = s /\ status[x] \in {"PENDING", "COMPLETED"}}

\* The counters never drift from the rows: whatever the order of answers,
\* timeouts, releases, recoveries and crashes, freeUsed and used count exactly
\* the uses that are running or that delivered a result.
CreditsAccounted == \A s \in Sources : used[s] = Cardinality(Charged(s))

\* No source pays for more uses than it holds.
WithinAllowance == \A s \in Sources : used[s] <= Limit(s)

\* A pack whose price is being returned, or was returned, has paid for nothing:
\* neither a use running when the refund was asked nor one started since.
RefundedPackUnspent ==
  \A p \in Packs : refund[p] \in {"OPEN", "COMPLETED"} => Charged(p) = {}

\* The books of the credits: counters and rows agree, nothing is overdrawn, and
\* no pack is both spent and refunded.
CreditsAreSound == CreditsAccounted /\ WithinAllowance /\ RefundedPackUnspent

\* A settled use stays settled: an answer that arrives after the credit was
\* given back is not delivered, and a delivered result is never given back.
SettledUseIsFinal ==
  [][\A x \in Uses : status[x] \in {"COMPLETED", "FAILED"} => status'[x] = status[x]]_vars

\* Every reserved credit is spent or given back, whichever process died.
EveryUseSettles ==
  \A x \in Uses : status[x] = "PENDING" ~> status[x] \in {"COMPLETED", "FAILED"}
=============================================================================

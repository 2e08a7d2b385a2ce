--------------------------- MODULE RefundWorkflow ---------------------------
(***************************************************************************)
(* The refund of a paid service order (modules/billing): the buyer asks,   *)
(* the staff decides, verifies the recipient and either transfers the      *)
(* money by hand (PayOS orders) or has MoMo return it.                     *)
(*                                                                         *)
(* Every operation is one transaction over locked rows.  The client sends  *)
(* the version of the refund it shows; `current` holds the people whose    *)
(* page still shows the latest version, which is what requireVersion       *)
(* compares.  Calls to MoMo run between two transactions, under a lease.   *)
(***************************************************************************)
EXTENDS Absent, FiniteSets

CONSTANTS
  Refunds,    \* refund requests; an order has at most one
  Manual,     \* method MANUAL_BANK; the others are MOMO
  Legacy,     \* user requests recorded before the 24 hour window was enforced
  Staff,      \* administrators
  Buyer,
  Accounts,   \* bank accounts
  References, \* transfer references, as typed
  Upper      \* toUpperCase on references

Parties == Staff \cup {Buyer}

ASSUME RefundAssumption ==
  /\ Manual \subseteq Refunds
  /\ Legacy \subseteq Refunds
  /\ Upper \in [References -> References]
  /\ None \notin Refunds \cup Parties \cup Accounts \cup References
  /\ "dead" \notin Parties \cup {None}
  /\ Buyer \notin Staff

VARIABLES
  status,     \* status[f], "NONE" before the request
  account,    \* account[f]: where the money goes
  verified,   \* verified[f]: the account an administrator attested
  proven,     \* refunds with a proof uploaded since processingAt
  reference,  \* refundReference[f]
  lease,      \* lease[f]: whose call set gatewayLeaseAt, "dead" after it ended
  lapsed,     \* leases older than 90 seconds
  form,       \* form[p]: the refund p has on the screen, and its account
  current,    \* people whose screen shows the latest version
  momoCall,   \* momoCall[p]: a call to MoMo on behalf of administrator p
  momo,       \* momo[f]: the refund order at MoMo
  outside     \* outside[f]: money returned at MoMo by other means

requestVars == <<status, account, verified, proven, reference>>
leaseVars   == <<lease, lapsed>>
clientVars  == <<form, current>>
momoVars    == <<momo, outside>>
vars == <<requestVars, leaseVars, clientVars, momoCall, momoVars>>

-----------------------------------------------------------------------------
Results == {"PROCESSING", "COMPLETED", "FAILED"}
Blank == [refund |-> None, account |-> None]
Idle  == [refund |-> None, stage |-> "idle", result |-> None]

TypeOK ==
  /\ status \in [Refunds ->
       {"NONE", "PENDING", "APPROVED", "REJECTED", "PROCESSING", "COMPLETED", "FAILED"}]
  /\ account \in [Refunds -> Accounts \cup {None}]
  /\ verified \in [Refunds -> Accounts \cup {None}]
  /\ proven \subseteq Manual
  /\ reference \in [Refunds -> References \cup {None}]
  /\ lease \in [Refunds -> Staff \cup {None, "dead"}]
  /\ lapsed \subseteq {f \in Refunds : lease[f] # None}
  /\ form \in [Parties -> [refund : Refunds \cup {None}, account : Accounts \cup {None}]]
  /\ current \subseteq {p \in Parties : form[p].refund # None}
  /\ momoCall \in [Staff -> {Idle} \cup
       [refund : Refunds, stage : {"original", "refund", "query"}, result : {None}] \cup
       [refund : Refunds, stage : {"apply"}, result : Results]]
  /\ momo \in [Refunds -> {"none", "pending", "done", "failed"}]
  /\ outside \in [Refunds -> {"none", "part", "full"}]

Init ==
  /\ status = [f \in Refunds |-> IF f \in Legacy THEN "PENDING" ELSE "NONE"]
  /\ account = [f \in Refunds |-> None]
  /\ verified = [f \in Refunds |-> None]
  /\ proven = {} /\ lapsed = {} /\ current = {}
  /\ reference = [f \in Refunds |-> None]
  /\ lease = [f \in Refunds |-> None]
  /\ form = [p \in Parties |-> Blank]
  /\ momoCall = [s \in Staff |-> Idle]
  /\ momo = [f \in Refunds |-> "none"]
  /\ outside = [f \in Refunds |-> "none"]

-----------------------------------------------------------------------------
(* Clients.                                                                *)

View(p, f) ==
  /\ status[f] # "NONE"
  /\ form' = [form EXCEPT ![p] = [refund |-> f, account |-> account[f]]]
  /\ current' = current \cup {p}
  /\ UNCHANGED <<requestVars, leaseVars, momoCall, momoVars>>

\* requireVersion.
Faulty_Current(p, f) == form[p].refund = f
Current(p, f) == p \in current /\ form[p].refund = f

\* Every change increments the version of the refund.
Change(f) ==
  /\ current' = {p \in current : form[p].refund # f}
  /\ UNCHANGED form

-----------------------------------------------------------------------------
(* The request and the decision.                                           *)

\* The buyer asks within 24 hours of the payment, or the system for money that
\* came too late; the account is known when PayOS told who paid.
Request(f) ==
  /\ status[f] = "NONE"
  /\ status' = [status EXCEPT ![f] = "PENDING"]
  /\ \E a \in Accounts \cup {None} :
       /\ f \notin Manual => a = None
       /\ account' = [account EXCEPT ![f] = a]
  /\ UNCHANGED <<verified, proven, reference, leaseVars, clientVars, momoCall, momoVars>>

\* A step of the refund to another status that touches nothing else.
Decide(s, f, from, to) ==
  /\ Current(s, f)
  /\ status[f] \in from
  /\ status' = [status EXCEPT ![f] = to]
  /\ Change(f)
  /\ UNCHANGED <<account, verified, reference, momoCall, momoVars>>

Approve(s, f) ==
  f \notin Legacy /\ Decide(s, f, {"PENDING"}, "APPROVED") /\ UNCHANGED <<proven, leaseVars>>
Reject(s, f) ==
  Decide(s, f, {"PENDING", "APPROVED"}, "REJECTED") /\ UNCHANGED <<proven, leaseVars>>

\* The buyer gives an account; whatever was attested no longer counts.
Recipient(f, a) ==
  /\ Current(Buyer, f)
  /\ status[f] = "APPROVED" /\ f \in Manual
  /\ account' = [account EXCEPT ![f] = a]
  /\ verified' = [verified EXCEPT ![f] = None]
  /\ Change(f)
  /\ UNCHANGED <<status, proven, reference, leaseVars, momoCall, momoVars>>

\* An administrator attests the account on the screen.
VerifyRecipient(s, f) ==
  /\ Current(s, f)
  /\ status[f] = "APPROVED" /\ f \in Manual /\ account[f] # None
  /\ verified' = [verified EXCEPT ![f] = form[s].account]
  /\ Change(f)
  /\ UNCHANGED <<status, account, proven, reference, leaseVars, momoCall, momoVars>>

-----------------------------------------------------------------------------
(* Transfers by hand.                                                      *)

BeginManual(s, f) ==
  /\ f \in Manual /\ verified[f] # None
  /\ Decide(s, f, {"APPROVED"}, "PROCESSING")
  /\ proven' = proven \ {f}
  /\ UNCHANGED leaseVars

UploadProof(s, f) ==
  /\ f \in Manual
  /\ Decide(s, f, {"PROCESSING"}, "PROCESSING")
  /\ proven' = proven \cup {f}
  /\ UNCHANGED leaseVars

FailTransfer(s, f) ==
  f \in Manual /\ Decide(s, f, {"PROCESSING"}, "FAILED") /\ UNCHANGED <<proven, leaseVars>>

\* The reference must be new, compared as typed.
Complete(s, f, ref) ==
  /\ Current(s, f)
  /\ status[f] = "PROCESSING" /\ f \in Manual
  /\ verified[f] # None /\ f \in proven
  /\ \A g \in Manual \ {f} : reference[g] # ref
  /\ status' = [status EXCEPT ![f] = "COMPLETED"]
  /\ reference' = [reference EXCEPT ![f] = ref]
  /\ Change(f)
  /\ UNCHANGED <<account, verified, proven, leaseVars, momoCall, momoVars>>

-----------------------------------------------------------------------------
(* Refunds through MoMo.                                                   *)

Call(s, f, stage) ==
  momoCall' = [momoCall EXCEPT ![s] = [refund |-> f, stage |-> stage, result |-> None]]
Answer(s, result) ==
  momoCall' = [momoCall EXCEPT ![s].stage = "apply", ![s].result = result]
Hang(s) == momoCall' = [momoCall EXCEPT ![s] = Idle]
TakeLease(s, f) ==
  /\ lease' = [lease EXCEPT ![f] = s]
  /\ lapsed' = lapsed \ {f}
GiveLease(f) ==
  /\ lease' = [lease EXCEPT ![f] = None]
  /\ lapsed' = lapsed \ {f}

BeginMomo(s, f) ==
  /\ f \notin Manual /\ momoCall[s] = Idle
  /\ Current(s, f)
  /\ status[f] = "APPROVED"
  /\ status' = [status EXCEPT ![f] = "PROCESSING"]
  /\ Change(f)
  /\ TakeLease(s, f)
  /\ Call(s, f, "original")
  /\ UNCHANGED <<account, verified, proven, reference, momoVars>>

\* What a call that failed or timed out returns.
Faulty_Uncertain == "FAILED"
Uncertain == "PROCESSING"

\* create() asks for the original payment: it may already be returned, in part
\* or in full, else the refund goes out.
Original(s) ==
  LET f == momoCall[s].refund
      full == outside[f] = "full" \/ momo[f] = "done" IN
  /\ momoCall[s].stage = "original"
  /\ \/ Answer(s, Uncertain)
     \/ full /\ Answer(s, "COMPLETED")
     \/ ~full /\ outside[f] = "part" /\ Answer(s, "PROCESSING")
     \/ ~full /\ outside[f] = "none" /\ Call(s, f, "refund")
  /\ UNCHANGED <<requestVars, leaseVars, clientVars, momoVars>>

\* create() sends the refund under the id of the request: MoMo carries it out
\* once, and refuses another or one the payment does not cover.
SendRefund(s) ==
  LET f == momoCall[s].refund
      open == momo[f] \in {"none", "failed"} /\ outside[f] = "none" IN
  /\ momoCall[s].stage = "refund"
  /\ \E m \in {"pending", "done", "failed"} :
       /\ momo' = IF open THEN [momo EXCEPT ![f] = m] ELSE momo
       /\ \/ Answer(s, Uncertain)
          \/ Answer(s, IF ~open \/ m = "failed" THEN "FAILED"
                       ELSE IF m = "done" THEN "COMPLETED" ELSE "PROCESSING")
  /\ UNCHANGED <<requestVars, leaseVars, clientVars, outside>>

\* query() asks for the refund by the same id.
Query(s) ==
  LET f == momoCall[s].refund IN
  /\ momoCall[s].stage = "query"
  /\ \/ Answer(s, Uncertain)
     \/ momo[f] = "done" /\ Answer(s, "COMPLETED")
     \/ momo[f] = "failed" /\ Answer(s, "FAILED")
  /\ UNCHANGED <<requestVars, leaseVars, clientVars, momoVars>>

\* applyGateway().
ApplyGateway(s) ==
  LET f == momoCall[s].refund IN
  /\ momoCall[s].stage = "apply"
  /\ Hang(s)
  /\ \/ /\ status[f] = "PROCESSING"
        /\ status' = [status EXCEPT ![f] = momoCall[s].result]
        /\ GiveLease(f)
        /\ Change(f)
     \/ /\ status[f] # "PROCESSING"
        /\ UNCHANGED <<status, leaseVars, clientVars>>
  /\ UNCHANGED <<account, verified, proven, reference, momoVars>>

\* A lease older than 90 seconds is free to take.
Faulty_NoLease(f) == TRUE
Faulty_NoLapse(f) == lease[f] = None
LeaseFree(f) == lease[f] = None \/ f \in lapsed
Reconcile(s, f) ==
  /\ f \notin Manual /\ momoCall[s] = Idle
  /\ Current(s, f)
  /\ status[f] = "PROCESSING"
  /\ LeaseFree(f)
  /\ TakeLease(s, f)
  /\ Call(s, f, "query")
  /\ UNCHANGED <<requestVars, clientVars, momoVars>>

Retry(s, f) == Decide(s, f, {"FAILED"}, "APPROVED") /\ GiveLease(f) /\ UNCHANGED proven

\* The process dies, or the administrator loses the role during the call.
Abandon(s) ==
  /\ momoCall[s] # Idle
  /\ Hang(s)
  /\ lease' = [lease EXCEPT ![momoCall[s].refund] = IF @ = s THEN "dead" ELSE @]
  /\ UNCHANGED <<requestVars, lapsed, clientVars, momoVars>>

\* 90 seconds pass; the requests of a call end within 60.
Lapse(f) ==
  /\ lease[f] # None /\ f \notin lapsed
  /\ \A s \in Staff : momoCall[s].refund = f => lease[f] # s
  /\ lapsed' = lapsed \cup {f}
  /\ UNCHANGED <<requestVars, lease, clientVars, momoCall, momoVars>>

-----------------------------------------------------------------------------
(* MoMo.                                                                   *)

Resolve(f) ==
  /\ momo[f] = "pending"
  /\ \E m \in {"done", "failed"} : momo' = [momo EXCEPT ![f] = m]
  /\ UNCHANGED <<requestVars, leaseVars, clientVars, momoCall, outside>>

\* Somebody returns the payment, or a part of it, in MoMo's own console.
ReturnOutside(f) ==
  /\ f \notin Manual /\ outside[f] # "full"
  /\ momo[f] \in {"none", "failed"}
  /\ \E part \in {"part", "full"} : outside' = [outside EXCEPT ![f] = part]
  /\ UNCHANGED <<requestVars, leaseVars, clientVars, momoCall, momo>>

-----------------------------------------------------------------------------
RequestStep(f) ==
  \/ Request(f)
  \/ \E a \in Accounts : Recipient(f, a)
  \/ \E p \in Parties : View(p, f)
  \/ Lapse(f)
  \/ Resolve(f)
  \/ ReturnOutside(f)
StaffStep(s, f) ==
  \/ Approve(s, f)
  \/ Reject(s, f)
  \/ VerifyRecipient(s, f)
  \/ BeginManual(s, f)
  \/ UploadProof(s, f)
  \/ FailTransfer(s, f)
  \/ \E ref \in References : Complete(s, f, ref)
  \/ BeginMomo(s, f)
  \/ Reconcile(s, f)
  \/ Retry(s, f)
CallStep(s) ==
  Original(s) \/ SendRefund(s) \/ Query(s) \/ ApplyGateway(s) \/ Abandon(s)

Next ==
  \/ \E f \in Refunds : RequestStep(f)
  \/ \E s \in Staff, f \in Refunds : StaffStep(s, f)
  \/ \E s \in Staff : CallStep(s)

Spec == Init /\ [][Next]_vars

\* The staff keeps reconciling what is in process, and now and then a call that
\* brings news and its transaction succeed; MoMo ends what it accepted.
Fairness ==
  /\ \A f \in Refunds \ Manual :
       /\ WF_vars(Lapse(f))
       /\ WF_vars(Resolve(f))
       /\ \A s \in Staff :
            /\ SF_vars(~Current(s, f) /\ status[f] = "PROCESSING" /\ View(s, f))
            /\ SF_vars(Reconcile(s, f))
  /\ \A s \in Staff :
       /\ WF_vars(CallStep(s))
       /\ SF_vars(Query(s) /\ momoCall'[s].result # Uncertain)
       /\ SF_vars(momoCall[s].result \in {"COMPLETED", "FAILED"} /\ ApplyGateway(s))
LiveSpec == Spec /\ Fairness

-----------------------------------------------------------------------------
(* Properties.                                                             *)

\* Two calls to MoMo never run for one refund at a time, although nothing but
\* the lease stands between begin(), reconcile() and their retries.
OneCallPerRefund ==
  \A s, t \in Staff :
    momoCall[s].refund # None /\ momoCall[s].refund = momoCall[t].refund => s = t

\* Money goes by hand only to the account on record, and an administrator has
\* attested that very account: not one the buyer replaced meanwhile.
RecipientAttested ==
  \A f \in Manual : status[f] \in {"PROCESSING", "COMPLETED"} =>
    verified[f] # None /\ verified[f] = account[f]

\* The refund implements its promise: completed only on returned money, rejected
\* only when none went back, nothing returned before approval or after the end.
Stage(f) ==
  CASE status[f] \in {"NONE", "REJECTED", "COMPLETED"} -> status[f]
    [] OTHER -> "OPEN"
Lifecycle == INSTANCE RefundLifecycle WITH
  stage <- [f \in Refunds |-> Stage(f)],
  returned <- {f \in Refunds : momo[f] = "done"},
  elsewhere <- {f \in Refunds : outside[f] = "full"}
KeepsPromise == Lifecycle!Spec

\* A refund whose order reached MoMo leaves PROCESSING, whatever answers are
\* lost and whoever dies during a call, if the staff keeps reconciling.
ReachedResolves ==
  \A f \in Refunds : status[f] = "PROCESSING" /\ momo[f] # "none" ~> status[f] # "PROCESSING"

\* A refund left uncertain by a timeout can be completed or tried again after
\* reconciling it (README: "chi doi soat truoc khi thu lai").
UncertainResolves ==
  \A f \in Refunds \ Manual : status[f] = "PROCESSING" ~> status[f] # "PROCESSING"

\* Two refunds by hand never complete on the same bank transfer, in whatever
\* case its reference is typed (complete() compares references in upper case).
TransfersDistinct ==
  \A f, g \in Manual :
    /\ f # g /\ reference[f] # None /\ reference[g] # None
    => Upper[reference[f]] # Upper[reference[g]]
=============================================================================

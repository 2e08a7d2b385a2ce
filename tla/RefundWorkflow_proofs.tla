----------------------- MODULE RefundWorkflow_proofs -----------------------
(***************************************************************************)
(* Proofs about RefundWorkflow: types, one call per refund, the attested   *)
(* recipient, and that the workflow implements RefundLifecycle.            *)
(*                                                                         *)
(* The argument: a call holds the lease of its refund, which is PROCESSING *)
(* as long as the call runs (CallInv), so what it learned of MoMo is still *)
(* true when it is applied (AnswerInv); hence MoMo holds money only for a  *)
(* refund in process or completed (MoneyInv).                              *)
(***************************************************************************)
EXTENDS RefundWorkflow, TLAPS

CallInv ==
  \A s \in Staff : momoCall[s] # Idle =>
    /\ lease[momoCall[s].refund] = s
    /\ momoCall[s].refund \notin lapsed \cup Manual
    /\ status[momoCall[s].refund] = "PROCESSING"

Held(f) == momo[f] \in {"pending", "done"}

MoneyInv ==
  \A f \in Refunds : Held(f) =>
    /\ f \notin Manual /\ outside[f] = "none"
    /\ status[f] = "PROCESSING" \/ (status[f] = "COMPLETED" /\ momo[f] = "done")

AnswerInv ==
  \A s \in Staff :
    LET f == momoCall[s].refund IN
    /\ momoCall[s].stage \in {"original", "refund"} => ~Held(f)
    /\ momoCall[s].stage = "apply" /\ momoCall[s].result = "FAILED" => ~Held(f)
    /\ momoCall[s].stage = "apply" /\ momoCall[s].result = "COMPLETED"
         => momo[f] = "done" \/ outside[f] = "full"

AttestInv ==
  /\ \A p \in current : /\ form[p].account = account[form[p].refund]
                       /\ status[form[p].refund] # "NONE"
  /\ \A f \in Refunds : verified[f] # None =>
                         verified[f] = account[f] /\ status[f] # "NONE"

IInv == TypeOK /\ CallInv /\ MoneyInv /\ AnswerInv /\ AttestInv /\ RecipientAttested

LEMMA InitIInv == Init => IInv
<1> SUFFICES ASSUME Init PROVE IInv
  OBVIOUS
<1>1. TypeOK
  <2>1. status \in [Refunds -> {"NONE", "PENDING", "APPROVED", "REJECTED",
                                "PROCESSING", "COMPLETED", "FAILED"}]
    BY DEF Init
  <2>2. momoCall \in [Staff -> {Idle}] /\ form \in [Parties -> {Blank}]
    BY DEF Init
  <2>. QED
    BY <2>1, <2>2 DEF Init, TypeOK, Blank
<1>2. \A s \in Staff : momoCall[s] = Idle
  BY DEF Init
<1>3. \A f \in Refunds :
        /\ momo[f] = "none" /\ verified[f] = None
        /\ status[f] \notin {"PROCESSING", "COMPLETED"}
  BY DEF Init
<1>4. CallInv /\ AnswerInv
  BY <1>2, RefundAssumption DEF CallInv, AnswerInv, Idle
<1>5. MoneyInv /\ AttestInv /\ RecipientAttested
  BY <1>3, RefundAssumption DEF MoneyInv, AttestInv, RecipientAttested, Held, Init
<1>. QED
  BY <1>1, <1>4, <1>5 DEF IInv

\* The status of a refund that is not being called about may change freely.
LEMMA NobodyCalls ==
  ASSUME IInv, NEW f \in Refunds, status[f] # "PROCESSING" \/ f \in Manual
  PROVE  \A s \in Staff : momoCall[s].refund # f
BY RefundAssumption DEF IInv, TypeOK, CallInv, Idle

\* A decision leaves calls and MoMo alone: what it must keep is the money.
LEMMA DecideKeeps ==
  ASSUME IInv, NEW s \in Staff, NEW f \in Refunds, NEW from, NEW to,
         Decide(s, f, from, to),
         status[f] # "PROCESSING" \/ f \in Manual,
         ~Held(f),
         to \in {"APPROVED", "REJECTED", "PROCESSING", "FAILED"},
         to = "PROCESSING" /\ f \in Manual => verified[f] # None
  PROVE  MoneyInv' /\ AnswerInv' /\ AttestInv' /\ RecipientAttested'
         /\ \A t \in Staff : momoCall[t] # Idle =>
              status'[momoCall[t].refund] = "PROCESSING" /\ momoCall[t].refund # f
<1>1. \A t \in Staff : momoCall[t].refund # f
  BY NobodyCalls
<1>2. \A g \in Refunds : status'[g] = IF g = f THEN to ELSE status[g]
  BY DEF Decide, IInv, TypeOK
<1>3. MoneyInv'
  BY <1>2 DEF Decide, IInv, MoneyInv, Held, momoVars
<1>4. AnswerInv'
  BY DEF Decide, IInv, AnswerInv, Held, momoVars
<1>5. AttestInv'
  BY <1>2 DEF Decide, Change, IInv, AttestInv, TypeOK
<1>6. RecipientAttested'
  BY <1>2, RefundAssumption DEF Decide, IInv, AttestInv, RecipientAttested
<1>7. ASSUME NEW t \in Staff, momoCall[t] # Idle
      PROVE  status'[momoCall[t].refund] = "PROCESSING" /\ momoCall[t].refund # f
  BY <1>1, <1>2, <1>7 DEF IInv, CallInv, TypeOK, Idle
<1>. QED
  BY <1>3, <1>4, <1>5, <1>6, <1>7

(* Types.                                                                  *)

LEMMA RequestType ==
  ASSUME TypeOK, NEW f \in Refunds, RequestStep(f)
  PROVE  TypeOK'
<1>1. CASE Request(f)
  BY <1>1 DEF Request, TypeOK, leaseVars, clientVars, momoVars
<1>2. ASSUME NEW a \in Accounts, Recipient(f, a)
      PROVE  TypeOK'
  BY <1>2 DEF Recipient, Change, TypeOK, leaseVars, momoVars
<1>3. ASSUME NEW p \in Parties, View(p, f)
      PROVE  TypeOK'
  <2>1. form' \in [Parties -> [refund : Refunds \cup {None}, account : Accounts \cup {None}]]
    BY <1>3 DEF View, TypeOK
  <2>2. current' \subseteq {q \in Parties : form'[q].refund # None}
    BY <1>3, RefundAssumption DEF View, TypeOK
  <2>. QED
    BY <1>3, <2>1, <2>2 DEF View, TypeOK, requestVars, leaseVars, momoVars
<1>4. CASE Lapse(f)
  BY <1>4 DEF Lapse, TypeOK, requestVars, clientVars, momoVars
<1>5. CASE Resolve(f)
  BY <1>5 DEF Resolve, TypeOK, requestVars, leaseVars, clientVars
<1>6. CASE ReturnOutside(f)
  BY <1>6 DEF ReturnOutside, TypeOK, requestVars, leaseVars, clientVars
<1>. QED
  BY <1>1, <1>2, <1>3, <1>4, <1>5, <1>6 DEF RequestStep

LEMMA CallType ==
  ASSUME TypeOK, NEW s \in Staff, NEW f \in Refunds,
         NEW st \in {"original", "refund", "query"}, Call(s, f, st)
  PROVE  momoCall' \in [Staff -> {Idle} \cup
           [refund : Refunds, stage : {"original", "refund", "query"}, result : {None}] \cup
           [refund : Refunds, stage : {"apply"}, result : Results]]
BY DEF Call, TypeOK

LEMMA AnswerType ==
  ASSUME TypeOK, NEW s \in Staff, momoCall[s].stage \in {"original", "refund", "query"},
         NEW r \in Results, Answer(s, r)
  PROVE  /\ momoCall' \in [Staff -> {Idle} \cup
              [refund : Refunds, stage : {"original", "refund", "query"}, result : {None}] \cup
              [refund : Refunds, stage : {"apply"}, result : Results]]
         /\ momoCall'[s] = [refund |-> momoCall[s].refund, stage |-> "apply", result |-> r]
         /\ \A t \in Staff \ {s} : momoCall'[t] = momoCall[t]
<1>1. momoCall[s] \in [refund : Refunds, stage : {"original", "refund", "query"}, result : {None}]
  BY DEF TypeOK, Idle
<1>2. momoCall'[s] = [refund |-> momoCall[s].refund, stage |-> "apply", result |-> r]
  BY <1>1 DEF Answer, TypeOK
<1>3. \A t \in Staff \ {s} : momoCall'[t] = momoCall[t]
  BY DEF Answer, TypeOK
<1>4. momoCall' = [t \in Staff |-> momoCall'[t]]
  BY DEF Answer, TypeOK
<1>. QED
  BY <1>1, <1>2, <1>3, <1>4 DEF TypeOK

LEMMA LeaseType ==
  ASSUME TypeOK, NEW f \in Refunds, NEW s \in Staff, TakeLease(s, f) \/ GiveLease(f)
  PROVE  /\ lease' \in [Refunds -> Staff \cup {None, "dead"}]
         /\ lapsed' \subseteq {g \in Refunds : lease'[g] # None}
BY DEF TakeLease, GiveLease, TypeOK

LEMMA StaffType ==
  ASSUME TypeOK, NEW s \in Staff, NEW f \in Refunds, StaffStep(s, f)
  PROVE  TypeOK'
<1>1. CASE Approve(s, f) \/ Reject(s, f) \/ BeginManual(s, f) \/ FailTransfer(s, f)
  BY <1>1
  DEF Approve, Reject, BeginManual, FailTransfer, Decide, Change, TypeOK, leaseVars, momoVars
<1>2. CASE UploadProof(s, f)
  BY <1>2 DEF UploadProof, Decide, Change, TypeOK, leaseVars, momoVars
<1>3. CASE VerifyRecipient(s, f)
  BY <1>3 DEF VerifyRecipient, Change, TypeOK, leaseVars, momoVars, Parties
<1>4. ASSUME NEW ref \in References, Complete(s, f, ref)
      PROVE  TypeOK'
  BY <1>4 DEF Complete, Change, TypeOK, leaseVars, momoVars
<1>5. CASE BeginMomo(s, f)
  BY <1>5, CallType, LeaseType DEF BeginMomo, Change, TypeOK, momoVars
<1>6. CASE Reconcile(s, f)
  BY <1>6, CallType, LeaseType
  DEF Reconcile, TypeOK, requestVars, clientVars, momoVars
<1>7. CASE Retry(s, f)
  BY <1>7, LeaseType DEF Retry, Decide, Change, TypeOK, momoVars
<1>. QED
  BY <1>1, <1>2, <1>3, <1>4, <1>5, <1>6, <1>7 DEF StaffStep

LEMMA CallStepType ==
  ASSUME TypeOK, NEW s \in Staff, CallStep(s)
  PROVE  TypeOK'
<1>1. Uncertain \in Results
  BY DEF Uncertain, Results
<1>2. momoCall[s].stage # "idle" => momoCall[s].refund \in Refunds
  BY DEF TypeOK, Idle
<1>3. CASE Original(s)
  <2>1. (\E r \in Results : Answer(s, r)) \/ Call(s, momoCall[s].refund, "refund")
    BY <1>1, <1>3 DEF Original, Results
  <2>. QED
    BY <1>2, <1>3, <2>1, AnswerType, CallType
    DEF Original, TypeOK, requestVars, leaseVars, clientVars, momoVars
<1>4. CASE SendRefund(s)
  <2>1. \E r \in Results : Answer(s, r)
    BY <1>1, <1>4 DEF SendRefund, Results
  <2>2. momo' \in [Refunds -> {"none", "pending", "done", "failed"}]
    BY <1>4 DEF SendRefund, TypeOK
  <2>. QED
    BY <1>4, <2>1, <2>2, AnswerType
    DEF SendRefund, TypeOK, requestVars, leaseVars, clientVars
<1>5. CASE Query(s)
  <2>1. \E r \in Results : Answer(s, r)
    BY <1>1, <1>5 DEF Query, Results
  <2>. QED
    BY <1>5, <2>1, AnswerType
    DEF Query, TypeOK, requestVars, leaseVars, clientVars, momoVars
<1>6. Hang(s) => momoCall' \in [Staff -> {Idle} \cup
           [refund : Refunds, stage : {"original", "refund", "query"}, result : {None}] \cup
           [refund : Refunds, stage : {"apply"}, result : Results]]
  BY DEF Hang, TypeOK
<1>7. CASE ApplyGateway(s)
  <2>1. momoCall[s].refund \in Refunds /\ momoCall[s].result \in Results
    BY <1>7 DEF ApplyGateway, TypeOK, Idle
  <2>2. status' \in [Refunds -> {"NONE", "PENDING", "APPROVED", "REJECTED",
                                 "PROCESSING", "COMPLETED", "FAILED"}]
    BY <1>7, <2>1 DEF ApplyGateway, TypeOK, Results
  <2>3. current' \subseteq current /\ form' = form
    BY <1>7 DEF ApplyGateway, Change, clientVars
  <2>. QED
    BY <1>6, <1>7, <2>1, <2>2, <2>3, LeaseType DEF ApplyGateway, TypeOK, leaseVars, momoVars
<1>8. CASE Abandon(s)
  <2>1. momoCall[s].refund \in Refunds
    BY <1>8 DEF Abandon, TypeOK
  <2>2. lease' \in [Refunds -> Staff \cup {None, "dead"}]
    BY <1>8, <2>1 DEF Abandon, TypeOK
  <2>3. \A g \in Refunds : lease[g] # None => lease'[g] # None
    BY <1>8, <2>1, RefundAssumption DEF Abandon, TypeOK, Parties
  <2>. QED
    BY <1>6, <1>8, <2>2, <2>3 DEF Abandon, TypeOK, requestVars, clientVars, momoVars
<1>. QED
  BY <1>3, <1>4, <1>5, <1>7, <1>8 DEF CallStep

LEMMA TypeStep == TypeOK /\ [Next]_vars => TypeOK'
<1> SUFFICES ASSUME TypeOK, [Next]_vars
             PROVE  TypeOK'
  OBVIOUS
<1>1. CASE UNCHANGED vars
  BY <1>1 DEF vars, requestVars, leaseVars, clientVars, momoVars, TypeOK
<1>. QED
  BY <1>1, RequestType, StaffType, CallStepType DEF Next

(* The inductive invariant.                                                *)

Rest == CallInv /\ MoneyInv /\ AnswerInv /\ AttestInv /\ RecipientAttested

LEMMA RequestKeeps ==
  ASSUME IInv, NEW f \in Refunds, RequestStep(f)
  PROVE  Rest'
<1>0. TypeOK /\ Rest
  BY DEF IInv, Rest
<1>1. CASE Request(f)
  <2>1. \A s \in Staff : momoCall[s].refund # f
    BY <1>1, NobodyCalls DEF Request
  <2>2. /\ status' = [status EXCEPT ![f] = "PENDING"] /\ status[f] = "NONE"
        /\ \A g \in Refunds \ {f} : account'[g] = account[g]
        /\ UNCHANGED <<verified, leaseVars, clientVars, momoCall, momoVars>>
    BY <1>0, <1>1 DEF Request, TypeOK
  <2>3. AttestInv' /\ RecipientAttested'
    <3>1. \A p \in current : form[p].refund \in Refunds \ {f}
      BY <1>0, <2>2 DEF Rest, AttestInv, TypeOK
    <3>2. \A g \in Refunds \ {f} : status'[g] = status[g]
      BY <1>0, <2>2 DEF TypeOK
    <3>3. verified[f] = None /\ status'[f] = "PENDING"
      BY <1>0, <2>2 DEF Rest, AttestInv, TypeOK
    <3>4. AttestInv'
      BY <1>0, <2>2, <3>1, <3>2, <3>3 DEF Rest, AttestInv, clientVars
    <3>. QED
      BY <1>0, <2>2, <3>2, <3>3, <3>4, RefundAssumption DEF Rest, RecipientAttested
  <2>4. CallInv'
    BY <1>0, <2>1, <2>2 DEF Rest, CallInv, leaseVars, TypeOK, Idle
  <2>. QED
    BY <1>0, <2>2, <2>3, <2>4 DEF Rest, MoneyInv, AnswerInv, Held, momoVars, TypeOK
<1>2. ASSUME NEW a \in Accounts, Recipient(f, a)
      PROVE  Rest'
  <2>1. UNCHANGED <<status, leaseVars, momoCall, momoVars>>
    BY <1>2 DEF Recipient
  <2>2. AttestInv' /\ RecipientAttested'
    BY <1>0, <1>2 DEF Recipient, Change, Rest, AttestInv, RecipientAttested, TypeOK
  <2>. QED
    BY <1>0, <2>1, <2>2
    DEF Rest, CallInv, MoneyInv, AnswerInv, Held, leaseVars, momoVars
<1>3. ASSUME NEW p \in Parties, View(p, f)
      PROVE  Rest'
  <2>1. UNCHANGED <<requestVars, leaseVars, momoCall, momoVars>>
    BY <1>3 DEF View
  <2>2. AttestInv'
    BY <1>0, <1>3, <2>1 DEF View, Rest, AttestInv, TypeOK, requestVars
  <2>. QED
    BY <1>0, <2>1, <2>2
    DEF Rest, CallInv, MoneyInv, AnswerInv, Held, RecipientAttested,
        requestVars, leaseVars, momoVars
<1>4. CASE Lapse(f)
  <2>1. UNCHANGED <<requestVars, lease, clientVars, momoCall, momoVars>>
    BY <1>4 DEF Lapse
  <2>2. CallInv'
    BY <1>0, <1>4, <2>1 DEF Lapse, Rest, CallInv, requestVars
  <2>. QED
    BY <1>0, <2>1, <2>2
    DEF Rest, MoneyInv, AnswerInv, AttestInv, Held, RecipientAttested,
        requestVars, clientVars, momoVars
<1>5. CASE Resolve(f)
  <2>1. UNCHANGED <<requestVars, leaseVars, clientVars, momoCall, outside>>
    BY <1>5 DEF Resolve
  <2>2. \A g \in Refunds :
          /\ Held(g)' => Held(g)
          /\ momo[g] = "done" => momo'[g] = "done"
    BY <1>0, <1>5 DEF Resolve, Held, TypeOK
  <2>3. AnswerInv'
    <3>1. \A s \in Staff : momoCall[s].stage # "idle" => momoCall[s].refund \in Refunds
      BY <1>0 DEF TypeOK, Idle
    <3>. QED
      BY <1>0, <2>1, <2>2, <3>1 DEF Rest, AnswerInv, Held
  <2>4. MoneyInv'
    <3>1. ASSUME NEW g \in Refunds, Held(g)'
          PROVE  Held(g) /\ UNCHANGED <<status, outside>>
      BY <2>1, <2>2, <3>1 DEF requestVars
    <3>. QED
      BY <1>0, <2>2, <3>1 DEF Rest, MoneyInv
  <2>. QED
    BY <1>0, <2>1, <2>3, <2>4
    DEF Rest, CallInv, AttestInv, RecipientAttested, requestVars, leaseVars, clientVars
<1>6. CASE ReturnOutside(f)
  <2>1. UNCHANGED <<requestVars, leaseVars, clientVars, momoCall, momo>>
    BY <1>6 DEF ReturnOutside
  <2>2. \A g \in Refunds : outside[g] = "full" => outside'[g] = "full"
    BY <1>0, <1>6 DEF ReturnOutside, TypeOK
  <2>3. AnswerInv'
    <3>1. \A s \in Staff : momoCall[s].stage # "idle" => momoCall[s].refund \in Refunds
      BY <1>0 DEF TypeOK, Idle
    <3>. QED
      BY <1>0, <2>1, <2>2, <3>1 DEF Rest, AnswerInv, Held
  <2>4. MoneyInv'
    BY <1>0, <1>6, <2>1 DEF ReturnOutside, Rest, MoneyInv, Held, TypeOK, requestVars
  <2>. QED
    BY <1>0, <2>1, <2>3, <2>4
    DEF Rest, CallInv, AttestInv, RecipientAttested, Held,
        requestVars, leaseVars, clientVars
<1>. QED
  BY <1>1, <1>2, <1>3, <1>4, <1>5, <1>6 DEF RequestStep

LEMMA StaffKeeps ==
  ASSUME IInv, NEW s \in Staff, NEW f \in Refunds, StaffStep(s, f)
  PROVE  Rest'
<1>0. TypeOK /\ Rest
  BY DEF IInv, Rest
<1>1. UNCHANGED leaseVars => \A t \in Staff : lease'[momoCall[t].refund] = lease[momoCall[t].refund]
                             /\ (momoCall[t].refund \notin lapsed => momoCall[t].refund \notin lapsed')
  BY DEF leaseVars
<1>2. status[f] # "PROCESSING" => ~Held(f) \/ status[f] = "COMPLETED"
  BY <1>0 DEF Rest, MoneyInv
<1>3. f \in Manual => ~Held(f)
  BY <1>0 DEF Rest, MoneyInv
<1>4. CASE Approve(s, f) \/ Reject(s, f) \/ BeginManual(s, f) \/ FailTransfer(s, f)
           \/ UploadProof(s, f)
  <2>1. \E from, to : Decide(s, f, from, to) /\ (status[f] # "PROCESSING" \/ f \in Manual)
          /\ status[f] # "COMPLETED"
          /\ to \in {"APPROVED", "REJECTED", "PROCESSING", "FAILED"}
          /\ (to = "PROCESSING" /\ f \in Manual => verified[f] # None)
    BY <1>0, <1>4
    DEF Approve, Reject, BeginManual, FailTransfer, UploadProof, Decide, Rest, RecipientAttested
  <2>2. UNCHANGED <<momoCall, leaseVars>>
    BY <1>4
    DEF Approve, Reject, BeginManual, FailTransfer, UploadProof, Decide
  <2>3. ~Held(f)
    BY <1>2, <1>3, <2>1
  <2>4. MoneyInv' /\ AnswerInv' /\ AttestInv' /\ RecipientAttested'
        /\ \A t \in Staff : momoCall[t] # Idle => status'[momoCall[t].refund] = "PROCESSING"
    BY <2>1, <2>3, DecideKeeps
  <2>5. CallInv'
    BY <1>0, <2>2, <2>4 DEF Rest, CallInv, leaseVars
  <2>. QED
    BY <2>4, <2>5 DEF Rest
<1>5. CASE Retry(s, f)
  <2>1. Decide(s, f, {"FAILED"}, "APPROVED") /\ status[f] = "FAILED"
    BY <1>5 DEF Retry, Decide
  <2>2. MoneyInv' /\ AnswerInv' /\ AttestInv' /\ RecipientAttested'
        /\ \A t \in Staff : momoCall[t] # Idle =>
             status'[momoCall[t].refund] = "PROCESSING" /\ momoCall[t].refund # f
    BY <1>2, <2>1, DecideKeeps
  <2>3. UNCHANGED momoCall
    BY <2>1 DEF Decide
  <2>4. lapsed' \subseteq lapsed /\ \A g \in Refunds \ {f} : lease'[g] = lease[g]
    BY <1>0, <1>5 DEF Retry, GiveLease, TypeOK
  <2>5. CallInv'
    BY <1>0, <2>2, <2>3, <2>4 DEF Rest, CallInv, TypeOK, Idle
  <2>. QED
    BY <2>2, <2>5 DEF Rest
<1>6. CASE VerifyRecipient(s, f)
  <2>1. UNCHANGED <<status, account, leaseVars, momoCall, momoVars>>
    BY <1>6 DEF VerifyRecipient
  <2>2. account[f] = form[s].account
    BY <1>0, <1>6 DEF VerifyRecipient, Current, Rest, AttestInv
  <2>3. AttestInv' /\ RecipientAttested'
    BY <1>0, <1>6, <2>1, <2>2
    DEF VerifyRecipient, Change, Rest, AttestInv, RecipientAttested, TypeOK
  <2>. QED
    BY <1>0, <2>1, <2>3
    DEF Rest, CallInv, MoneyInv, AnswerInv, Held, leaseVars, momoVars
<1>7. ASSUME NEW ref \in References, Complete(s, f, ref)
      PROVE  Rest'
  <2>1. \A t \in Staff : momoCall[t].refund # f
    BY <1>7, NobodyCalls DEF Complete
  <2>2. status' = [status EXCEPT ![f] = "COMPLETED"] /\ status[f] = "PROCESSING"
        /\ UNCHANGED <<account, verified, leaseVars, momoCall, momoVars, form>>
        /\ current' \subseteq current
    BY <1>7 DEF Complete, Change
  <2>3. AttestInv' /\ RecipientAttested'
    BY <1>0, <2>2 DEF Rest, AttestInv, RecipientAttested, TypeOK
  <2>4. CallInv'
    BY <1>0, <2>1, <2>2 DEF Rest, CallInv, leaseVars, TypeOK, Idle
  <2>5. MoneyInv'
    BY <1>0, <1>3, <1>7, <2>2 DEF Complete, Rest, MoneyInv, Held, momoVars, TypeOK
  <2>. QED
    BY <1>0, <2>2, <2>3, <2>4, <2>5 DEF Rest, AnswerInv, Held, momoVars
<1>8. CASE BeginMomo(s, f)
  <2>1. \A t \in Staff : momoCall[t].refund # f
    BY <1>8, NobodyCalls DEF BeginMomo
  <2>2. status' = [status EXCEPT ![f] = "PROCESSING"] /\ status[f] = "APPROVED"
        /\ momoCall' = [momoCall EXCEPT ![s] =
             [refund |-> f, stage |-> "original", result |-> None]]
        /\ lease' = [lease EXCEPT ![f] = s] /\ lapsed' = lapsed \ {f}
        /\ f \notin Manual
        /\ UNCHANGED <<account, verified, momoVars, form>> /\ current' \subseteq current
    BY <1>8 DEF BeginMomo, Change, Call, TakeLease
  <2>3. AttestInv' /\ RecipientAttested'
    BY <1>0, <2>2 DEF Rest, AttestInv, RecipientAttested, TypeOK
  <2>4. CallInv'
    BY <1>0, <2>1, <2>2 DEF Rest, CallInv, TypeOK, Idle
  <2>5. MoneyInv' /\ ~Held(f)
    BY <1>0, <2>2 DEF Rest, MoneyInv, Held, momoVars, TypeOK
  <2>6. AnswerInv'
    BY <1>0, <2>2, <2>5 DEF Rest, AnswerInv, Held, momoVars, TypeOK
  <2>. QED
    BY <2>3, <2>4, <2>5, <2>6 DEF Rest
<1>9. CASE Reconcile(s, f)
  <2>1. \A t \in Staff : momoCall[t] # Idle => momoCall[t].refund # f
    <3>1. lease[f] = None \/ f \in lapsed
      BY <1>9 DEF Reconcile, LeaseFree
    <3>. QED
      BY <1>0, <3>1, RefundAssumption DEF Rest, CallInv, Parties
  <2>2. momoCall' = [momoCall EXCEPT ![s] = [refund |-> f, stage |-> "query", result |-> None]]
        /\ lease' = [lease EXCEPT ![f] = s] /\ lapsed' = lapsed \ {f}
        /\ f \notin Manual /\ status[f] = "PROCESSING"
        /\ UNCHANGED <<requestVars, clientVars, momoVars>>
    BY <1>9 DEF Reconcile, Call, TakeLease
  <2>3. CallInv'
    BY <1>0, <2>1, <2>2 DEF Rest, CallInv, TypeOK, Idle, requestVars
  <2>4. AnswerInv'
    BY <1>0, <2>2 DEF Rest, AnswerInv, Held, momoVars, TypeOK
  <2>. QED
    BY <1>0, <2>2, <2>3, <2>4
    DEF Rest, MoneyInv, AttestInv, RecipientAttested, Held, requestVars, clientVars, momoVars
<1>. QED
  BY <1>4, <1>5, <1>6, <1>7, <1>8, <1>9 DEF StaffStep

LEMMA AnswerKeeps ==
  ASSUME IInv, NEW s \in Staff, momoCall[s].stage \in {"original", "refund", "query"},
         NEW r \in Results, Answer(s, r),
         UNCHANGED <<requestVars, leaseVars, clientVars>>,
         r = "FAILED" => momo'[momoCall[s].refund] \notin {"pending", "done"},
         r = "COMPLETED" =>
           momo'[momoCall[s].refund] = "done" \/ outside[momoCall[s].refund] = "full",
         MoneyInv', UNCHANGED outside,
         \A g \in Refunds \ {momoCall[s].refund} : momo'[g] = momo[g]
  PROVE  Rest'
<1>0. TypeOK /\ Rest
  BY DEF IInv, Rest
<1>1. momoCall'[s] = [refund |-> momoCall[s].refund, stage |-> "apply", result |-> r]
      /\ \A t \in Staff \ {s} : momoCall'[t] = momoCall[t]
  BY <1>0, AnswerType
<1>2. momoCall[s] # Idle
  BY DEF Idle
<1>3. \A t \in Staff \ {s} : momoCall[t] # Idle =>
        momoCall[t].refund # momoCall[s].refund /\ momoCall[t].refund \in Refunds
  BY <1>0, <1>2 DEF Rest, CallInv, TypeOK
<1>4. CallInv'
  BY <1>0, <1>1, <1>2 DEF Rest, CallInv, leaseVars, requestVars
<1>5. AnswerInv'
  <2>1. ASSUME NEW t \in Staff \ {s}, momoCall[t] # Idle
        PROVE  (Held(momoCall[t].refund)' <=> Held(momoCall[t].refund))
               /\ momo'[momoCall[t].refund] = momo[momoCall[t].refund]
    BY <1>1, <1>3, <2>1 DEF Held
  <2>. QED
    BY <1>0, <1>1, <2>1 DEF Rest, AnswerInv, Held, Idle
<1>. QED
  BY <1>0, <1>4, <1>5
  DEF Rest, AttestInv, RecipientAttested, requestVars, clientVars

LEMMA CallKeeps ==
  ASSUME IInv, NEW s \in Staff, CallStep(s)
  PROVE  Rest'
<1>0. TypeOK /\ Rest
  BY DEF IInv, Rest
<1>1. Uncertain \in Results /\ Uncertain # "FAILED" /\ Uncertain # "COMPLETED"
  BY DEF Uncertain, Results
<1>2. CASE Original(s)
  <2> DEFINE f == momoCall[s].refund
  <2>1. momoCall[s].stage = "original" /\ UNCHANGED <<requestVars, leaseVars, clientVars, momoVars>>
    BY <1>2 DEF Original
  <2>2. MoneyInv'
    BY <1>0, <2>1 DEF Rest, MoneyInv, Held, requestVars, momoVars
  <2>3. CASE \E r \in Results :
               /\ Answer(s, r) /\ r # "FAILED"
               /\ r = "COMPLETED" => outside[f] = "full" \/ momo[f] = "done"
    <3>1. PICK r \in Results :
            /\ Answer(s, r) /\ r # "FAILED"
            /\ r = "COMPLETED" => outside[f] = "full" \/ momo[f] = "done"
      BY <2>3
    <3>. QED
      BY <2>1, <2>2, <3>1, AnswerKeeps DEF momoVars
  <2>4. CASE Call(s, f, "refund")
    <3>1. f \in Refunds /\ ~Held(f) /\ momoCall[s] # Idle
      BY <1>0, <2>1 DEF TypeOK, Rest, AnswerInv, Idle
    <3>2. momoCall' = [momoCall EXCEPT ![s] = [refund |-> f, stage |-> "refund", result |-> None]]
      BY <2>4 DEF Call
    <3>3. CallInv'
      BY <1>0, <2>1, <3>1, <3>2 DEF Rest, CallInv, TypeOK, leaseVars, requestVars
    <3>4. AnswerInv'
      BY <1>0, <2>1, <3>1, <3>2 DEF Rest, AnswerInv, TypeOK, momoVars, Held
    <3>. QED
      BY <1>0, <2>1, <2>2, <3>3, <3>4
      DEF Rest, AttestInv, RecipientAttested, requestVars, clientVars
  <2>5. \/ \E r \in Results :
             /\ Answer(s, r) /\ r # "FAILED"
             /\ r = "COMPLETED" => outside[f] = "full" \/ momo[f] = "done"
        \/ Call(s, f, "refund")
    BY <1>1, <1>2 DEF Original, Results
  <2>. QED
    BY <2>3, <2>4, <2>5
<1>3. CASE SendRefund(s)
  <2> DEFINE f == momoCall[s].refund
             open == momo[f] \in {"none", "failed"} /\ outside[f] = "none"
  <2>1. momoCall[s].stage = "refund"
        /\ UNCHANGED <<requestVars, leaseVars, clientVars, outside>>
    BY <1>3 DEF SendRefund
  <2>2. f \in Refunds \ Manual /\ ~Held(f) /\ status[f] = "PROCESSING"
    BY <1>0, <2>1 DEF TypeOK, Rest, AnswerInv, CallInv, Idle
  <2>3. PICK m \in {"pending", "done", "failed"} :
          /\ momo' = IF open THEN [momo EXCEPT ![f] = m] ELSE momo
          /\ \/ Answer(s, Uncertain)
             \/ Answer(s, IF ~open \/ m = "failed" THEN "FAILED"
                          ELSE IF m = "done" THEN "COMPLETED" ELSE "PROCESSING")
    BY <1>3 DEF SendRefund
  <2>4. (\A g \in Refunds \ {f} : momo'[g] = momo[g])
        /\ momo'[f] = IF open THEN m ELSE momo[f]
    BY <1>0, <2>2, <2>3 DEF TypeOK
  <2>5. MoneyInv'
    BY <1>0, <2>1, <2>2, <2>4 DEF Rest, MoneyInv, Held, requestVars
  <2>6. PICK r \in Results :
          /\ Answer(s, r)
          /\ r = "FAILED" => ~open \/ m = "failed"
          /\ r = "COMPLETED" => open /\ m = "done"
    BY <1>1, <2>3 DEF Results
  <2>7. r = "FAILED" => momo'[f] \notin {"pending", "done"}
    BY <2>2, <2>4, <2>6 DEF Held
  <2>8. r = "COMPLETED" => momo'[f] = "done"
    BY <2>4, <2>6
  <2>. QED
    BY <2>1, <2>4, <2>5, <2>6, <2>7, <2>8, AnswerKeeps
<1>4. CASE Query(s)
  <2> DEFINE f == momoCall[s].refund
  <2>1. momoCall[s].stage = "query" /\ UNCHANGED <<requestVars, leaseVars, clientVars, momoVars>>
    BY <1>4 DEF Query
  <2>2. MoneyInv'
    BY <1>0, <2>1 DEF Rest, MoneyInv, Held, requestVars, momoVars
  <2>3. PICK r \in Results : /\ Answer(s, r)
                             /\ r = "FAILED" => momo[f] = "failed"
                             /\ r = "COMPLETED" => momo[f] = "done"
    BY <1>1, <1>4 DEF Query, Results
  <2>. QED
    BY <2>1, <2>2, <2>3, AnswerKeeps DEF momoVars
<1>5. ASSUME Hang(s), momoCall[s] # Idle
      PROVE  /\ \A t \in Staff \ {s} : momoCall'[t] = momoCall[t]
             /\ \A t \in Staff \ {s} : momoCall[t] # Idle => momoCall[t].refund # momoCall[s].refund
             /\ momoCall'[s] = Idle /\ momoCall[s].refund \in Refunds
  BY <1>0, <1>5 DEF Hang, TypeOK, Rest, CallInv
<1>6. CASE ApplyGateway(s)
  <2> DEFINE f == momoCall[s].refund  r == momoCall[s].result
  <2>1. momoCall[s].stage = "apply" /\ Hang(s) /\ momoCall[s] # Idle
        /\ UNCHANGED <<account, verified, momoVars>>
    BY <1>6 DEF ApplyGateway, Idle
  <2>2. f \in Refunds \ Manual /\ r \in Results /\ status[f] = "PROCESSING"
    BY <1>0, <2>1 DEF TypeOK, Rest, CallInv, Idle
  <2>3. status' = [status EXCEPT ![f] = r] /\ GiveLease(f) /\ Change(f)
    BY <1>6, <2>2 DEF ApplyGateway
  <2>4. r = "FAILED" => ~Held(f)
    BY <1>0, <2>1 DEF Rest, AnswerInv
  <2>5. CallInv'
    BY <1>0, <1>5, <2>1, <2>2, <2>3 DEF Rest, CallInv, GiveLease, TypeOK
  <2>6. MoneyInv'
    <3>1. r = "COMPLETED" => momo[f] = "done" \/ ~Held(f)
      BY <1>0, <2>1, <2>2 DEF Rest, AnswerInv, MoneyInv
    <3>. QED
      BY <1>0, <2>1, <2>2, <2>3, <2>4, <3>1
      DEF Rest, MoneyInv, Held, TypeOK, momoVars, Results
  <2>7. AnswerInv'
    BY <1>0, <1>5, <2>1 DEF Rest, AnswerInv, Held, momoVars, Idle
  <2>8. AttestInv' /\ RecipientAttested'
    <3>1. \A g \in Refunds : status'[g] = "NONE" => status[g] = "NONE"
      BY <1>0, <2>2, <2>3 DEF TypeOK, Results
    <3>2. \A g \in Manual : status'[g] = status[g]
      BY <1>0, <2>2, <2>3, RefundAssumption DEF TypeOK
    <3>3. \A p \in current' : p \in current /\ form'[p] = form[p] /\ form[p].refund \in Refunds
      BY <1>0, <2>3 DEF Change, TypeOK
    <3>. QED
      BY <1>0, <2>1, <3>1, <3>2, <3>3 DEF Rest, AttestInv, RecipientAttested
  <2>. QED
    BY <2>5, <2>6, <2>7, <2>8 DEF Rest
<1>7. CASE Abandon(s)
  <2>1. Hang(s) /\ momoCall[s] # Idle
        /\ UNCHANGED <<requestVars, lapsed, clientVars, momoVars>>
        /\ lease' = [lease EXCEPT ![momoCall[s].refund] = IF @ = s THEN "dead" ELSE @]
    BY <1>7 DEF Abandon
  <2>2. CallInv'
    BY <1>0, <1>5, <2>1 DEF Rest, CallInv, TypeOK, requestVars
  <2>3. AnswerInv'
    BY <1>0, <1>5, <2>1 DEF Rest, AnswerInv, Held, momoVars, Idle
  <2>. QED
    BY <1>0, <2>1, <2>2, <2>3
    DEF Rest, MoneyInv, AttestInv, RecipientAttested, Held, requestVars, clientVars, momoVars
<1>. QED
  BY <1>2, <1>3, <1>4, <1>6, <1>7 DEF CallStep

\* The invariant is inductive.
LEMMA Inductive == IInv /\ [Next]_vars => IInv'
<1> SUFFICES ASSUME IInv, [Next]_vars
             PROVE  IInv'
  OBVIOUS
<1>1. TypeOK'
  BY TypeStep DEF IInv
<1>2. CASE UNCHANGED vars
  BY <1>1, <1>2
  DEF vars, requestVars, leaseVars, clientVars, momoVars, IInv, CallInv, MoneyInv,
      AnswerInv, AttestInv, RecipientAttested, Held
<1>3. CASE Next
  <2>1. Rest'
    BY <1>3, RequestKeeps, StaffKeeps, CallKeeps DEF Next
  <2>. QED
    BY <1>1, <2>1 DEF IInv, Rest
<1>. QED
  BY <1>2, <1>3

\* Every reachable state satisfies the invariant.
THEOREM Invariance == Spec => []IInv
<1>1. Init => IInv
  BY InitIInv
<1>2. IInv /\ [Next]_vars => IInv'
  BY Inductive
<1>. QED
  BY <1>1, <1>2, PTL DEF Spec

\* Types: the workflow's state stays in its sets.
THEOREM TypeCorrect == Spec => []TypeOK
BY Invariance, PTL DEF IInv

\* begin() and reconcile() never call MoMo for one refund at the same time.
THEOREM OneCall == Spec => []OneCallPerRefund
<1>1. IInv => OneCallPerRefund
  BY RefundAssumption DEF IInv, TypeOK, CallInv, OneCallPerRefund, Idle
<1>. QED
  BY <1>1, Invariance, PTL

\* Money goes by hand only to the account an administrator attested.
THEOREM Attested == Spec => []RecipientAttested
BY Invariance, PTL DEF IInv

-----------------------------------------------------------------------------
(* The workflow implements the lifecycle.                                  *)

LEMMA InitRefines == Init => Lifecycle!Init
BY DEF Init, Lifecycle!Init, Stage

LEMMA SameLifecycle ==
  ASSUME UNCHANGED momo, UNCHANGED outside,
         \A f \in Refunds : Stage(f)' = Stage(f)
  PROVE  UNCHANGED Lifecycle!vars
BY DEF Lifecycle!vars

\* One refund moves from stage a to b, and MoMo stays as it is.
LEMMA StageMoves ==
  ASSUME UNCHANGED momo, UNCHANGED outside, NEW f \in Refunds, NEW a, NEW b,
         Stage(f) = a, Stage(f)' = b,
         \A g \in Refunds \ {f} : Stage(g)' = Stage(g)
  PROVE  Lifecycle!Step(f, a, b)
BY DEF Lifecycle!Step

\* MoMo moves an open refund to m: it returns the money, or nothing shows.
LEMMA MomoMoves ==
  ASSUME TypeOK, NEW f \in Refunds \ Manual, NEW m \in {"pending", "done", "failed"},
         momo' = [momo EXCEPT ![f] = m], UNCHANGED <<status, outside>>,
         momo[f] # "done", outside[f] = "none", Stage(f) = "OPEN"
  PROVE  [Lifecycle!Next]_(Lifecycle!vars)
<1>1. \A g \in Refunds : Stage(g)' = Stage(g)
  BY DEF Stage
<1>2. CASE m = "done"
  <2>1. {g \in Refunds : momo'[g] = "done"} = {g \in Refunds : momo[g] = "done"} \cup {f}
    BY <1>2 DEF TypeOK
  <2>2. Lifecycle!Return(f)
    BY <1>1, <2>1 DEF Lifecycle!Return
  <2>. QED
    BY <2>2 DEF Lifecycle!Next
<1>3. CASE m # "done"
  <2>1. {g \in Refunds : momo'[g] = "done"} = {g \in Refunds : momo[g] = "done"}
    BY <1>3 DEF TypeOK
  <2>2. UNCHANGED Lifecycle!vars
    BY <1>1, <2>1 DEF Lifecycle!vars
  <2>. QED
    BY <2>2
<1>. QED
  BY <1>2, <1>3

LEMMA NextRefines ==
  ASSUME IInv, [Next]_vars
  PROVE  [Lifecycle!Next]_(Lifecycle!vars)
<1>0. TypeOK
  BY DEF IInv
<1> DEFINE Goal == [Lifecycle!Next]_(Lifecycle!vars)
<1>1. ASSUME NEW f \in Refunds, NEW to, status' = [status EXCEPT ![f] = to],
             UNCHANGED momoVars,
             \/ /\ status[f] = "NONE" /\ to = "PENDING"
             \/ /\ status[f] \in {"PENDING", "APPROVED", "PROCESSING", "FAILED"}
                /\ to \in {"PENDING", "APPROVED", "PROCESSING", "FAILED", "REJECTED", "COMPLETED"}
                /\ to = "REJECTED" => momo[f] # "done"
                /\ to = "COMPLETED" => f \in Manual \/ momo[f] = "done" \/ outside[f] = "full"
      PROVE  Goal
  <2>1. /\ \A g \in Refunds \ {f} : status'[g] = status[g]
        /\ status'[f] = to
    BY <1>0, <1>1 DEF TypeOK
  <2>2. \A g \in Refunds \ {f} : Stage(g)' = Stage(g)
    BY <2>1 DEF Stage
  <2>3. Stage(f)' = IF to \in {"REJECTED", "COMPLETED"} THEN to ELSE "OPEN"
    BY <1>1, <2>1 DEF Stage
  <2>4. Stage(f) = IF status[f] = "NONE" THEN "NONE" ELSE "OPEN"
    BY <1>1 DEF Stage
  <2>5. CASE status[f] = "NONE"
    <3>1. Lifecycle!Open(f)
      BY <1>1, <2>2, <2>3, <2>4, <2>5, StageMoves DEF Lifecycle!Open, momoVars
    <3>. QED
      BY <3>1 DEF Lifecycle!Next
  <2>6. CASE status[f] # "NONE" /\ to = "REJECTED"
    <3>1. Lifecycle!Reject(f)
      BY <1>1, <2>2, <2>3, <2>4, <2>6, StageMoves DEF Lifecycle!Reject, momoVars
    <3>. QED
      BY <3>1 DEF Lifecycle!Next
  <2>7. CASE status[f] # "NONE" /\ to = "COMPLETED"
    <3>1. Lifecycle!Complete(f)
      BY <1>1, <2>2, <2>3, <2>4, <2>7, StageMoves DEF Lifecycle!Complete, momoVars
    <3>. QED
      BY <3>1 DEF Lifecycle!Next
  <2>8. CASE status[f] # "NONE" /\ to \notin {"REJECTED", "COMPLETED"}
    <3>1. UNCHANGED Lifecycle!vars
      BY <1>1, <2>2, <2>3, <2>4, <2>8, SameLifecycle DEF momoVars
    <3>. QED
      BY <3>1
  <2>. QED
    BY <2>5, <2>6, <2>7, <2>8
<1>2. ASSUME UNCHANGED <<status, momoVars>>
      PROVE  Goal
  <2>1. UNCHANGED Lifecycle!vars
    BY <1>2, SameLifecycle DEF Stage, momoVars
  <2>. QED
    BY <2>1
<1>3. ASSUME NEW f \in Refunds, RequestStep(f)
      PROVE  Goal
  <2>1. CASE Request(f)
    BY <1>1, <2>1 DEF Request
  <2>2. CASE (\E a \in Accounts : Recipient(f, a)) \/ (\E p \in Parties : View(p, f)) \/ Lapse(f)
    BY <1>2, <2>2 DEF Recipient, View, Lapse, requestVars
  <2>3. CASE Resolve(f)
    <3>1. PICK m \in {"done", "failed"} : momo' = [momo EXCEPT ![f] = m]
      BY <2>3 DEF Resolve
    <3>2. f \notin Manual /\ Stage(f) = "OPEN" /\ momo[f] = "pending" /\ outside[f] = "none"
      BY <2>3 DEF Resolve, IInv, MoneyInv, Held, Stage
    <3>3. UNCHANGED <<status, outside>>
      BY <2>3 DEF Resolve, requestVars
    <3>. QED
      BY <1>0, <3>1, <3>2, <3>3, MomoMoves
  <2>4. CASE ReturnOutside(f)
    <3>1. PICK part \in {"part", "full"} : outside' = [outside EXCEPT ![f] = part]
      BY <2>4 DEF ReturnOutside
    <3>2. f \notin Manual /\ momo[f] # "done" /\ UNCHANGED <<status, momo>>
      BY <2>4 DEF ReturnOutside, requestVars
    <3>3. CASE part = "full"
      <4>1. {g \in Refunds : outside'[g] = "full"} = {g \in Refunds : outside[g] = "full"} \cup {f}
        BY <1>0, <3>1, <3>3 DEF TypeOK
      <4>2. Lifecycle!ReturnElsewhere(f)
        BY <3>2, <4>1 DEF Lifecycle!ReturnElsewhere, Stage
      <4>. QED
        BY <4>2 DEF Lifecycle!Next
    <3>4. CASE part = "part"
      <4>1. {g \in Refunds : outside'[g] = "full"} = {g \in Refunds : outside[g] = "full"}
        BY <1>0, <2>4, <3>1, <3>4 DEF TypeOK, ReturnOutside
      <4>2. UNCHANGED Lifecycle!vars
        BY <3>2, <4>1 DEF Lifecycle!vars, Stage
      <4>. QED
        BY <4>2
    <3>. QED
      BY <3>3, <3>4
  <2>. QED
    BY <1>3, <2>1, <2>2, <2>3, <2>4 DEF RequestStep
<1>4. ASSUME NEW s \in Staff, NEW f \in Refunds, StaffStep(s, f)
      PROVE  Goal
  <2>1. CASE Approve(s, f) \/ Reject(s, f) \/ BeginManual(s, f) \/ FailTransfer(s, f)
             \/ UploadProof(s, f) \/ Retry(s, f)
    <3>1. \E from, to : /\ Decide(s, f, from, to)
                        /\ from \subseteq {"PENDING", "APPROVED", "PROCESSING", "FAILED"}
                        /\ to \in {"APPROVED", "PROCESSING", "FAILED", "REJECTED"}
                        /\ to = "REJECTED" => "PROCESSING" \notin from
      BY <2>1
      DEF Approve, Reject, BeginManual, FailTransfer, UploadProof, Retry
    <3>2. PICK from, to : /\ Decide(s, f, from, to)
                          /\ from \subseteq {"PENDING", "APPROVED", "PROCESSING", "FAILED"}
                          /\ to \in {"APPROVED", "PROCESSING", "FAILED", "REJECTED"}
                          /\ to = "REJECTED" => "PROCESSING" \notin from
      BY <3>1
    <3>3. status[f] \in from /\ status' = [status EXCEPT ![f] = to] /\ UNCHANGED momoVars
      BY <3>2 DEF Decide
    <3>4. to = "REJECTED" => momo[f] # "done"
      BY <3>2, <3>3 DEF IInv, MoneyInv, Held
    <3>. QED
      BY <1>1, <3>2, <3>3, <3>4
  <2>2. CASE VerifyRecipient(s, f) \/ Reconcile(s, f)
    BY <1>2, <2>2 DEF VerifyRecipient, Reconcile, requestVars
  <2>3. CASE \E ref \in References : Complete(s, f, ref)
    BY <1>1, <2>3 DEF Complete
  <2>4. CASE BeginMomo(s, f)
    BY <1>1, <2>4 DEF BeginMomo
  <2>. QED
    BY <1>4, <2>1, <2>2, <2>3, <2>4 DEF StaffStep
<1>5. ASSUME NEW s \in Staff, CallStep(s)
      PROVE  Goal
  <2> DEFINE f == momoCall[s].refund
  <2>1. CASE Original(s) \/ Query(s) \/ Abandon(s)
    BY <1>2, <2>1 DEF Original, Query, Abandon, requestVars
  <2>2. CASE SendRefund(s)
    <3>1. f \in Refunds \ Manual /\ momo[f] # "done" /\ Stage(f) = "OPEN"
      BY <1>0, <2>2 DEF SendRefund, TypeOK, IInv, CallInv, AnswerInv, Held, Idle, Stage
    <3>2. PICK m \in {"pending", "done", "failed"} :
            momo' = IF momo[f] \in {"none", "failed"} /\ outside[f] = "none"
                    THEN [momo EXCEPT ![f] = m] ELSE momo
      BY <2>2 DEF SendRefund
    <3>3. UNCHANGED <<status, outside>>
      BY <2>2 DEF SendRefund, requestVars
    <3>4. CASE UNCHANGED momo
      BY <1>2, <3>3, <3>4 DEF momoVars
    <3>5. CASE momo' = [momo EXCEPT ![f] = m] /\ outside[f] = "none"
      BY <1>0, <3>1, <3>3, <3>5, MomoMoves
    <3>. QED
      BY <3>2, <3>4, <3>5
  <2>3. CASE ApplyGateway(s)
    <3>1. f \in Refunds /\ momoCall[s].result \in Results /\ status[f] = "PROCESSING"
      BY <1>0, <2>3 DEF ApplyGateway, TypeOK, IInv, CallInv, Idle
    <3>2. status' = [status EXCEPT ![f] = momoCall[s].result] /\ UNCHANGED momoVars
      BY <2>3, <3>1 DEF ApplyGateway
    <3>3. momoCall[s].result = "COMPLETED" => momo[f] = "done" \/ outside[f] = "full"
      BY <2>3 DEF ApplyGateway, IInv, AnswerInv
    <3>. QED
      BY <1>1, <3>1, <3>2, <3>3 DEF Results
  <2>. QED
    BY <1>5, <2>1, <2>2, <2>3 DEF CallStep
<1>6. CASE UNCHANGED vars
  BY <1>2, <1>6 DEF vars, requestVars
<1>. QED
  BY <1>3, <1>4, <1>5, <1>6 DEF Next

\* The workflow keeps the promise of a refund: it is rejected only while MoMo
\* returned nothing for it, completed only once and on returned money.
THEOREM Implements == Spec => KeepsPromise
<1>1. Init => Lifecycle!Init
  BY InitRefines
<1>2. IInv /\ [Next]_vars => [Lifecycle!Next]_(Lifecycle!vars)
  BY NextRefines
<1>. QED
  BY <1>1, <1>2, Invariance, PTL DEF Spec, KeepsPromise, Lifecycle!Spec
=============================================================================

------------------------ MODULE LedgerDecisionProofs ------------------------
(***************************************************************************)
(* Why what reads as approved was paid, or credited: the money is posted   *)
(* before the decision is saved, a call posts one transfer at most, and    *)
(* no step takes a transfer away.  That needs no discipline of anybody.    *)
(*                                                                         *)
(* Why it was paid only once does: one operator at a time on a record, and *)
(* no call that stops between the two writes.  Then what a call has read   *)
(* of the record is what is stored until that call saves its decision.     *)
(***************************************************************************)
EXTENDS LedgerBooksProofs, FiniteSetTheorems

\* Where a call may stand once it has posted its transfer.
Posted == Ended \cup {"saveDecision", "saveApprovals", "saveVerdict"}

\* A decision that completes the approvals of its withdrawal.
Completing(c) == cmd[c].decision = "approve" /\ Complete(c)

\* A call posts one transfer at most: it has none until it is past the posting.
PostsOnce == \A c \in Calls : transfer[c] # None => pc[c] \in Posted

\* Only completing approvals go the way of the payment, and only rejections release.
OnTheWay ==
  \A c \in Calls : /\ pc[c] \in {"readPayable", "readFees", "postWithdrawal"} => Completing(c)
                   /\ pc[c] = "releaseHold" => cmd[c].decision = "reject"

\* A completing approval is saved by the call that has paid for it.
PaidBeforeSaved ==
  \A c \in Calls : pc[c] = "saveDecision" /\ Completing(c) => c \in Payouts(cmd[c].target)

\* An approving verdict is saved by the call that has credited the claim.
CreditedBeforeSaved ==
  \A c \in Calls :
    pc[c] = "saveVerdict" /\ cmd[c].decision = "approve" =>
      /\ c \in CreditsOf(cmd[c].target)
      /\ transfer[c].entries[Claimant(c)] = cmd[c].amount

\* The inductive invariant of the first part.
PostedInv == LedgerTypeOK /\ PostsOnce /\ OnTheWay /\ PaidBeforeSaved /\ CreditedBeforeSaved

----------------------------------------------------------------------------
(* What a step writes *)

\* A step of one call leaves the others where they are, with what they have.
LEMMA StepLeavesOthers ==
  ASSUME LedgerTypeOK, NEW c \in Calls, Step(c)
  PROVE  LeavesOthers(c) /\ LedgerTypeOK'
BY StepTyped, TypedStepKeepsTypes DEF Step, TypedStep

\* Three steps post a transfer.
LEMMA WritersOfTransfers ==
  ASSUME NEW c \in Calls, Step(c)
  PROVE  UNCHANGED transfer \/ PostWithdrawal(c) \/ PostClaim(c) \/ PostCredit(c)
BY DEF Step, WithdrawalStep, ClaimStep, CrashStep, Request, Decide, Submit, Mark, Settle,
       CreditDirectly, ReadForRequest, CheckGas, PlaceHold, SaveAccount, FileRequest,
       ReadForDecision, ReadApprovals, ReadCustomer, ReleaseHold, ReadPayable, ReadFees,
       SaveDecision, SaveApprovals, PutProof, SaveClaim, SaveClaimRaises, RemoveProof,
       ReadToMark, SaveMark, ReadToSettle, ReadClaimant, ReadCustody, SaveVerdict,
       ReadForCredit, ReadSource, CrashCall, tables

\* Two steps write a withdrawal.
LEMMA WritersOfWithdrawals ==
  ASSUME NEW c \in Calls, Step(c)
  PROVE  UNCHANGED withdrawal \/ FileRequest(c) \/ SaveDecision(c)
BY DEF Step, WithdrawalStep, ClaimStep, CrashStep, Request, Decide, ReadForRequest, CheckGas,
       PlaceHold, ReadForDecision, ReadApprovals, ReadCustomer, ReleaseHold, ReadPayable,
       ReadFees, PostWithdrawal, SaveApprovals, withdrawalVars

\* Four steps write a claim.
LEMMA WritersOfClaims ==
  ASSUME NEW c \in Calls, Step(c)
  PROVE  UNCHANGED claim \/ SaveClaim(c) \/ SaveClaimRaises(c) \/ SaveMark(c) \/ SaveVerdict(c)
BY DEF Step, WithdrawalStep, ClaimStep, CrashStep, Submit, Mark, Settle, CreditDirectly,
       PutProof, RemoveProof, ReadToMark, ReadToSettle, ReadClaimant, ReadCustody, PostClaim,
       ReadForCredit, ReadSource, PostCredit, claimVars

\* A call that ends is at an end.
LEMMA EndEnds ==
  ASSUME LedgerTypeOK, NEW c \in Calls, NEW how \in Ended, End(c, how)
  PROVE  pc'[c] \in Ended
BY DEF LedgerTypeOK, WithdrawalTypeOK, StoreTypeOK, End

\* A call that goes on is where it goes.
LEMMA GoToGoes ==
  ASSUME LedgerTypeOK, NEW c \in Calls, NEW where, GoTo(c, where)
  PROVE  pc'[c] = where
BY DEF LedgerTypeOK, WithdrawalTypeOK, StoreTypeOK, GoTo

\* Only the step of a call adds its transfer, from a place where it had none.
LEMMA TransfersStay ==
  ASSUME LedgerTypeOK, PostsOnce, NEW c \in Calls, Step(c)
  PROVE  \A d \in Calls : d # c \/ transfer[d] # None => transfer'[d] = transfer[d]
<1>1. CASE UNCHANGED transfer
  BY <1>1
<1>2. CASE PostWithdrawal(c) \/ PostClaim(c) \/ PostCredit(c)
  <2>1. pc[c] \notin Posted
    BY <1>2 DEF PostWithdrawal, PostClaim, PostCredit, Posted, Ended
  <2>2. transfer[c] = None
    BY <2>1 DEF PostsOnce
  <2>3. \A d \in Calls \ {c} : transfer'[d] = transfer[d]
    BY <1>2 DEF PostWithdrawal, PostClaim, PostCredit, Post, tables, LedgerTypeOK,
                WithdrawalTypeOK, StoreTypeOK
  <2> QED
    BY <2>2, <2>3
<1> QED
  BY <1>1, <1>2, WritersOfTransfers

\* What a deciding call decides does not change while it decides.
LEMMA SameDecision ==
  ASSUME NEW c \in Calls, cmd'[c] = cmd[c], seen'[c] = seen[c]
  PROVE  Completing(c)' <=> Completing(c)
BY DEF Completing, Complete, ApprovalsWith

----------------------------------------------------------------------------
(* The course of one call *)

\* What PostedInv asks of call c.
PostedCall(c) ==
  /\ transfer[c] # None => pc[c] \in Posted
  /\ pc[c] \in {"readPayable", "readFees", "postWithdrawal"} => Completing(c)
  /\ pc[c] = "releaseHold" => cmd[c].decision = "reject"
  /\ pc[c] = "saveDecision" /\ Completing(c) => c \in Payouts(cmd[c].target)
  /\ pc[c] = "saveVerdict" /\ cmd[c].decision = "approve" =>
       /\ c \in CreditsOf(cmd[c].target)
       /\ transfer[c].entries[Claimant(c)] = cmd[c].amount

\* Steps after which a call has nothing of its own to show for.
Quiet(c) ==
  \/ pc'[c] \in Ended
  \/ /\ UNCHANGED transfer /\ pc[c] \notin Posted
     /\ pc'[c] \in {"checkGas", "placeHold", "fileRequest", "readApprovals", "readCustomer",
                    "saveClaim", "removeProof", "saveMark", "readClaimant", "readCustody",
                    "postClaim", "readSource", "postCredit"}

\* After such a step nothing is asked of its call.
LEMMA QuietStep ==
  ASSUME PostsOnce, NEW c \in Calls, Quiet(c)
  PROVE  PostedCall(c)'
BY DEF PostsOnce, Quiet, PostedCall, Posted, Ended

\* The steps of a request, of a submission, of a mark and of a direct credit are quiet.
LEMMA QuietSteps ==
  ASSUME LedgerTypeOK, NEW c \in Calls,
         \/ Request(c) \/ Submit(c) \/ Mark(c) \/ CreditDirectly(c) \/ CrashStep(c)
  PROVE  Quiet(c)
<1>1. \A how \in Ended : End(c, how) => Quiet(c)
  BY EndEnds DEF Quiet
<1>2. {"ok", "refused", "failed", "crashed"} \subseteq Ended
  BY DEF Ended
<1>3. CASE Request(c)
  <2>1. CASE \E u \in Users, s \in Assets, n \in Amounts : ReadForRequest(c, u, s, n)
    BY <1>1, <1>2, <2>1, GoToGoes DEF ReadForRequest, Quiet, tables, Posted, Ended
  <2>2. CASE CheckGas(c)
    BY <1>1, <1>2, <2>2, GoToGoes DEF CheckGas, Quiet, tables, Posted, Ended
  <2>3. CASE PlaceHold(c)
    BY <1>1, <1>2, <2>3, GoToGoes DEF PlaceHold, SaveAccount, Quiet, tables, Posted, Ended
  <2>4. CASE FileRequest(c)
    BY <1>1, <1>2, <2>4 DEF FileRequest
  <2> QED
    BY <1>3, <2>1, <2>2, <2>3, <2>4 DEF Request
<1>4. CASE Submit(c)
  <2>1. CASE \E u \in Users, s \in Assets, n \in Deposits : PutProof(c, u, s, n)
    BY <2>1, GoToGoes DEF PutProof, Quiet, tables, Posted, Ended
  <2>2. CASE SaveClaim(c) \/ RemoveProof(c)
    BY <1>1, <1>2, <2>2 DEF SaveClaim, RemoveProof
  <2>3. CASE SaveClaimRaises(c)
    BY <2>3, GoToGoes DEF SaveClaimRaises, Quiet, tables, Posted, Ended
  <2> QED
    BY <1>4, <2>1, <2>2, <2>3 DEF Submit
<1>5. CASE Mark(c)
  <2>1. CASE \E k \in Calls : ReadToMark(c, k)
    BY <1>1, <1>2, <2>1, GoToGoes DEF ReadToMark, Reading, Quiet, tables, Posted, Ended
  <2>2. CASE SaveMark(c)
    BY <1>1, <1>2, <2>2 DEF SaveMark
  <2> QED
    BY <1>5, <2>1, <2>2 DEF Mark
<1>6. CASE CreditDirectly(c)
  <2>1. CASE \E u \in Users, s \in Assets, n \in Deposits, source \in {"custody", "demo"} :
               ReadForCredit(c, u, s, n, source)
    BY <2>1, GoToGoes DEF ReadForCredit, Quiet, tables, Posted, Ended
  <2>2. CASE ReadSource(c)
    BY <2>2, GoToGoes DEF ReadSource, Quiet, tables, Posted, Ended
  <2>3. CASE PostCredit(c)
    BY <1>1, <1>2, <2>3 DEF PostCredit
  <2> QED
    BY <1>6, <2>1, <2>2, <2>3 DEF CreditDirectly
<1>7. CASE CrashStep(c)
  BY <1>1, <1>2, <1>7 DEF CrashStep, CrashCall
<1> QED
  BY <1>3, <1>4, <1>5, <1>6, <1>7

\* A decision takes the way its kind takes, and pays before it comes to be saved.
LEMMA DecideCourse ==
  ASSUME PostedInv, NEW c \in Calls, Decide(c)
  PROVE  PostedCall(c)'
<1> USE DEF PostedInv
<1>1. \A how \in Ended : End(c, how) => PostedCall(c)'
  BY EndEnds, QuietStep DEF Quiet
<1>2. {"ok", "refused", "failed", "crashed"} \subseteq Ended
  BY DEF Ended
<1>3. CASE \E w \in Calls, o \in Operators, d \in {"approve", "reject"} : ReadForDecision(c, w, o, d)
  <2>1. Quiet(c)
    BY <1>2, <1>3, EndEnds, GoToGoes DEF ReadForDecision, Quiet, tables, Posted, Ended
  <2> QED
    BY <2>1, QuietStep
<1>4. CASE ReadApprovals(c)
  <2>1. Quiet(c)
    BY <1>2, <1>4, EndEnds, GoToGoes DEF ReadApprovals, Quiet, tables, Posted, Ended
  <2> QED
    BY <2>1, QuietStep
<1>5. ASSUME UNCHANGED <<transfer, cmd, seen>>, pc[c] \in DecideSteps \ {"saveDecision", "saveApprovals"},
             NEW where, GoTo(c, where),
             \/ where \in {"readPayable", "readFees", "postWithdrawal"} /\ Completing(c)
             \/ where = "releaseHold" /\ cmd[c].decision = "reject"
             \/ where = "saveDecision" /\ ~ Completing(c)
      PROVE  PostedCall(c)'
  <2>1. pc'[c] = where /\ transfer'[c] = None
    BY <1>5, GoToGoes DEF PostsOnce, Posted, DecideSteps, Ended
  <2> QED
    BY <1>5, <2>1, SameDecision DEF PostedCall
<1>6. CASE ReadCustomer(c)
  <2>1. CASE End(c, "refused")
    BY <1>1, <1>2, <2>1
  <2>2. CASE ~ End(c, "refused")
    <3>1. /\ pc[c] = "readCustomer" /\ UNCHANGED <<transfer, cmd, seen>>
          /\ GoTo(c, IF cmd[c].decision = "reject" THEN "releaseHold"
                     ELSE IF Complete(c) THEN "readPayable" ELSE "saveDecision")
      BY <1>6, <2>2 DEF ReadCustomer, tables
    <3>2. cmd[c].decision \in {"approve", "reject"} /\ pc[c] \in DecideSteps
      BY <3>1, Deciding DEF DecideSteps
    <3> QED
      BY <1>5, <3>1, <3>2 DEF Completing
  <2> QED
    BY <2>1, <2>2
<1>7. CASE ReleaseHold(c)
  <2>1. CASE End(c, "failed")
    BY <1>1, <1>2, <2>1
  <2>2. CASE ~ End(c, "failed")
    <3>1. /\ pc[c] = "releaseHold" /\ UNCHANGED <<transfer, cmd, seen>> /\ GoTo(c, "saveDecision")
      BY <1>7, <2>2 DEF ReleaseHold, SaveAccount, tables
    <3>2. ~ Completing(c)
      BY <3>1 DEF OnTheWay, Completing
    <3> QED
      BY <1>5, <3>1, <3>2 DEF DecideSteps
  <2> QED
    BY <2>1, <2>2
<1>8. CASE ReadPayable(c) \/ ReadFees(c)
  <2>1. /\ pc[c] \in {"readPayable", "readFees"} /\ UNCHANGED <<transfer, cmd, seen>>
        /\ \E where \in {"readFees", "postWithdrawal"} : GoTo(c, where)
    BY <1>8 DEF ReadPayable, ReadFees, tables
  <2>2. Completing(c)
    BY <2>1 DEF OnTheWay
  <2> QED
    BY <1>5, <2>1, <2>2 DEF DecideSteps
<1>9. CASE PostWithdrawal(c)
  <2>1. CASE End(c, "failed")
    BY <1>1, <1>2, <2>1
  <2>2. CASE ~ End(c, "failed")
    <3>1. /\ GoTo(c, "saveDecision") /\ UNCHANGED <<cmd, seen>>
          /\ Post(c, "withdrawal", cmd[c].target, WithdrawalEntries(seen[c].row),
                  WithdrawalRows(c, seen[c].row))
      BY <1>9, <2>2 DEF PostWithdrawal
    <3>2. /\ transfer'[c].kind = "withdrawal" /\ transfer'[c].subject = cmd[c].target
          /\ transfer'[c] # None
      <4>1. /\ transfer'[c] = [kind |-> "withdrawal", subject |-> cmd[c].target,
                               entries |-> WithdrawalEntries(seen[c].row)]
        BY <3>1 DEF Post, LedgerTypeOK, WithdrawalTypeOK, StoreTypeOK
      <4>2. pc[c] \in DecideSteps
        BY <1>9 DEF PostWithdrawal, DecideSteps
      <4>3. seen[c].row \in WithdrawalRow /\ cmd[c].target \in Calls
        BY <4>2, Deciding
      <4>4. StoreTypeOK
        BY DEF LedgerTypeOK, WithdrawalTypeOK
      <4>5. WithdrawalEntries(seen[c].row) \in [AccountIds -> Int]
        BY <4>3, <4>4, WithdrawalRowsTyped
      <4>6. transfer'[c] \in TransferRow
        BY <4>1, <4>3, <4>5 DEF TransferRow
      <4> QED
        BY <4>1, <4>6, NoRecordAssumption
    <3>3. pc'[c] = "saveDecision"
      BY <3>1, GoToGoes
    <3> QED
      BY <3>1, <3>2, <3>3 DEF PostedCall, Payouts, Posted
  <2> QED
    BY <2>1, <2>2
<1>10. CASE SaveDecision(c)
  <2>1. pc'[c] \in Ended \cup {"saveApprovals"}
    BY <1>2, <1>10, EndEnds, GoToGoes DEF SaveDecision
  <2> QED
    BY <2>1 DEF PostedCall, Posted, Ended
<1>11. CASE SaveApprovals(c)
  BY <1>1, <1>2, <1>11 DEF SaveApprovals
<1> QED
  BY <1>3, <1>4, <1>6, <1>7, <1>8, <1>9, <1>10, <1>11 DEF Decide

\* What a settling call credits is what it was told to credit, to whom its copy names.
LEMMA SettleCourse ==
  ASSUME PostedInv, NEW c \in Calls, Settle(c)
  PROVE  PostedCall(c)'
<1> USE DEF PostedInv
<1>1. \A how \in Ended : End(c, how) => PostedCall(c)'
  BY EndEnds, QuietStep DEF Quiet
<1>2. {"ok", "refused", "failed", "crashed"} \subseteq Ended
  BY DEF Ended
<1>3. CASE \E k \in Calls, o \in Operators, d \in {"approve", "reject"}, n \in Deposits \cup {0} :
             ReadToSettle(c, k, o, d, n)
  <2>1. PICK k \in Calls, o \in Operators, d \in {"approve", "reject"}, n \in Deposits \cup {0} :
          ReadToSettle(c, k, o, d, n)
    BY <1>3
  <2>2. CASE End(c, "refused")
    BY <1>1, <1>2, <2>2
  <2>3. CASE ~ End(c, "refused")
    <3>1. /\ pc[c] = "idle" /\ UNCHANGED transfer
          /\ cmd' = [cmd EXCEPT ![c] =
               [op |-> "settle", target |-> k, operator |-> o, decision |-> d, amount |-> n]]
          /\ GoTo(c, IF d = "reject" THEN "saveVerdict" ELSE "readClaimant")
      BY <2>1, <2>3 DEF ReadToSettle, Reading, tables
    <3>2. pc'[c] = IF d = "reject" THEN "saveVerdict" ELSE "readClaimant"
      BY <3>1, GoToGoes
    <3>3. cmd'[c].decision = d
      BY <3>1 DEF LedgerTypeOK, WithdrawalTypeOK, StoreTypeOK
    <3>4. transfer'[c] = None
      BY <3>1 DEF PostsOnce, Posted, Ended
    <3> QED
      BY <3>2, <3>3, <3>4 DEF PostedCall
  <2> QED
    BY <2>2, <2>3
<1>4. CASE ReadClaimant(c)
  <2>1. Quiet(c)
    BY <1>4, GoToGoes DEF ReadClaimant, Quiet, tables, Posted, Ended
  <2> QED
    BY <2>1, QuietStep
<1>5. CASE ReadCustody(c)
  <2>1. Quiet(c)
    BY <1>2, <1>5, EndEnds, GoToGoes DEF ReadCustody, Quiet, tables, Posted, Ended
  <2> QED
    BY <2>1, QuietStep
<1>6. CASE PostClaim(c)
  <2> DEFINE entries == CreditEntries(Claimant(c), Custody(c), cmd[c].amount)
  <2>1. CASE End(c, "failed")
    BY <1>1, <1>2, <2>1
  <2>2. CASE ~ End(c, "failed")
    <3>1. /\ pc[c] = "postClaim" /\ GoTo(c, "saveVerdict") /\ UNCHANGED <<cmd, seen>>
          /\ Post(c, "deposit", cmd[c].target, entries,
                  CreditRows(c, Claimant(c), Custody(c), cmd[c].amount))
      BY <1>6, <2>2 DEF PostClaim
    <3>2. StoreTypeOK /\ pc[c] \in SettleSteps
      BY <3>1 DEF LedgerTypeOK, WithdrawalTypeOK, SettleSteps
    <3>3. /\ Claimant(c) \in AccountIds /\ Custody(c) \in AccountIds /\ Claimant(c) # Custody(c)
          /\ cmd[c].amount \in Nat /\ cmd[c].target \in Calls
      BY <3>2, Settling
    <3>4. entries \in [AccountIds -> Int]
      BY <3>2, <3>3, CreditRowsTyped
    <3>5. entries[Claimant(c)] = cmd[c].amount
      BY <3>3 DEF CreditEntries, NoEntries
    <3> HIDE DEF entries
    <3>6. transfer'[c] = [kind |-> "deposit", subject |-> cmd[c].target, entries |-> entries]
      BY <3>1, <3>2 DEF Post, StoreTypeOK
    <3>7. transfer'[c] \in TransferRow
      BY <3>3, <3>4, <3>6 DEF TransferRow
    <3>8. /\ transfer'[c] # None /\ transfer'[c].kind = "deposit"
          /\ transfer'[c].subject = cmd[c].target
          /\ transfer'[c].entries[Claimant(c)] = cmd[c].amount
      BY <3>5, <3>6, <3>7, NoRecordAssumption
    <3>9. pc'[c] = "saveVerdict"
      BY <3>1, GoToGoes
    <3> QED
      BY <3>1, <3>8, <3>9 DEF PostedCall, CreditsOf, Posted, Claimant
  <2> QED
    BY <2>1, <2>2
<1>7. CASE SaveVerdict(c)
  BY <1>1, <1>2, <1>7 DEF SaveVerdict
<1> QED
  BY <1>3, <1>4, <1>5, <1>6, <1>7 DEF Settle

\* What PostedInv says is what it asks of every call.
LEMMA PostedCalls ==
  PostedInv <=> LedgerTypeOK /\ \A c \in Calls : PostedCall(c)
BY DEF PostedInv, PostsOnce, OnTheWay, PaidBeforeSaved, CreditedBeforeSaved, PostedCall

\* A step keeps the order of posting and saving for every call.
LEMMA StepKeepsPosted ==
  ASSUME PostedInv, NEW c \in Calls, Step(c)
  PROVE  PostedInv'
<1>1. LedgerTypeOK /\ PostsOnce
  BY DEF PostedInv
<1>2. LeavesOthers(c) /\ LedgerTypeOK'
  BY <1>1, StepLeavesOthers
<1>3. PostedCall(c)'
  BY <1>1, QuietSteps, QuietStep, DecideCourse, SettleCourse
  DEF Step, WithdrawalStep, ClaimStep
<1>4. ASSUME NEW d \in Calls \ {c} PROVE PostedCall(d)'
  <2>1. PostedCall(d)
    BY PostedCalls
  <2>2. pc'[d] = pc[d] /\ cmd'[d] = cmd[d] /\ seen'[d] = seen[d]
    BY <1>2 DEF LeavesOthers
  <2>3. transfer'[d] = transfer[d]
    BY <1>1, TransfersStay
  <2>4. Completing(d)' <=> Completing(d)
    BY <2>2, SameDecision
  <2> QED
    BY <2>1, <2>2, <2>3, <2>4 DEF PostedCall, Payouts, CreditsOf, Claimant
<1> QED
  BY <1>2, <1>3, <1>4 DEF PostedInv, PostsOnce, OnTheWay, PaidBeforeSaved, CreditedBeforeSaved,
                          PostedCall

----------------------------------------------------------------------------
(* What reads as approved was paid, or credited *)

\* A payment made is never taken back.
LEMMA PayoutsStay ==
  ASSUME LedgerTypeOK, PostsOnce, NEW c \in Calls, Step(c), NEW w
  PROVE  Payouts(w) \subseteq Payouts(w)' /\ CreditsOf(w) \subseteq CreditsOf(w)'
BY TransfersStay DEF Payouts, CreditsOf

\* A withdrawal becomes approved after its transfer only.
LEMMA StepKeepsApprovedPaid ==
  ASSUME PostedInv, ApprovedWasPaid, NEW c \in Calls, Step(c)
  PROVE  ApprovedWasPaid'
<1> SUFFICES ASSUME NEW w \in Calls, Exists(w)', withdrawal'[w].status = "approved"
             PROVE  Payouts(w)' # {}
  BY DEF ApprovedWasPaid
<1>1. LedgerTypeOK /\ PostsOnce /\ PaidBeforeSaved
  BY DEF PostedInv
<1>2. DOMAIN withdrawal = Calls
  BY <1>1 DEF LedgerTypeOK, WithdrawalTypeOK, WithdrawalTablesOK
<1>3. CASE withdrawal'[w] = withdrawal[w]
  <2>1. Payouts(w) # {}
    BY <1>3 DEF ApprovedWasPaid, Exists
  <2> QED
    BY <1>1, <2>1, PayoutsStay
<1>4. CASE FileRequest(c) /\ withdrawal'[w] # withdrawal[w]
  BY <1>2, <1>4 DEF FileRequest
<1>5. CASE SaveDecision(c) /\ withdrawal'[w] # withdrawal[w]
  <2>1. pc[c] = "saveDecision" /\ pc[c] \in DecideSteps
    BY <1>5 DEF SaveDecision, DecideSteps
  <2>2. w = cmd[c].target
    BY <1>2, <1>5 DEF SaveDecision
  <2>3. withdrawal[w] \in WithdrawalRow /\ cmd[c].decision \in {"approve", "reject"}
    BY <1>1, <2>1, <2>2, Deciding
  <2>4. CASE Completing(c)
    <3>1. c \in Payouts(w)
      BY <1>1, <2>1, <2>2, <2>4 DEF PaidBeforeSaved
    <3> QED
      BY <1>1, <3>1, PayoutsStay
  <2>5. CASE ~ Completing(c)
    <3>1. withdrawal'[w].status \in {"rejected", "pending"}
      BY <1>2, <1>5, <2>2, <2>3, <2>5 DEF SaveDecision, Completing, WithdrawalRow
    <3> QED
      BY <3>1
  <2> QED
    BY <2>4, <2>5
<1> QED
  BY <1>3, <1>4, <1>5, WritersOfWithdrawals

\* A claim becomes approved after its transfer only.
LEMMA StepKeepsApprovedCredited ==
  ASSUME PostedInv, ApprovedWasCredited, NEW c \in Calls, Step(c)
  PROVE  ApprovedWasCredited'
<1> SUFFICES ASSUME NEW k \in Calls, Claimed(k)', claim'[k].status = "approved"
             PROVE  /\ claim'[k].transferId \in CreditsOf(k)'
                    /\ transfer'[claim'[k].transferId].entries[<<claim'[k].user, claim'[k].asset>>]
                         = claim'[k].credited
  BY DEF ApprovedWasCredited
<1>1. LedgerTypeOK /\ PostsOnce /\ CreditedBeforeSaved
  BY DEF PostedInv
<1>2. DOMAIN claim = Calls
  BY <1>1 DEF LedgerTypeOK, ClaimTypeOK, ClaimTablesOK
<1>3. CASE claim'[k] = claim[k]
  <2>1. /\ claim[k].transferId \in CreditsOf(k)
        /\ transfer[claim[k].transferId].entries[<<claim[k].user, claim[k].asset>>]
             = claim[k].credited
    BY <1>3 DEF ApprovedWasCredited, Claimed
  <2>2. transfer'[claim[k].transferId] = transfer[claim[k].transferId]
    BY <1>1, <2>1, TransfersStay DEF CreditsOf
  <2> QED
    BY <1>1, <1>3, <2>1, <2>2, PayoutsStay
<1>4. CASE (SaveClaim(c) \/ SaveClaimRaises(c)) /\ claim'[k] # claim[k]
  BY <1>2, <1>4 DEF SaveClaim, SaveClaimRaises, NewClaim
<1>5. CASE SaveMark(c) /\ claim'[k] # claim[k]
  <2>1. pc[c] = "saveMark" /\ claim'[k] = [seen[c] EXCEPT !.status = "confirming"]
    BY <1>2, <1>5 DEF SaveMark
  <2>2. seen[c] \in ClaimRow
    BY <1>1, <2>1 DEF LedgerTypeOK, ClaimTypeOK, ClaimCallOK
  <2> QED
    BY <2>1, <2>2 DEF ClaimRow
<1>6. CASE SaveVerdict(c) /\ claim'[k] # claim[k]
  <2>1. /\ pc[c] = "saveVerdict" /\ pc[c] \in SettleSteps /\ k = cmd[c].target
        /\ UNCHANGED transfer
    BY <1>2, <1>6 DEF SaveVerdict, SettleSteps, tables
  <2>2. seen[c] \in ClaimRow
    BY <1>1, <2>1, Settling
  <2>3. CASE cmd[c].decision = "reject"
    <3>1. claim'[k] = [seen[c] EXCEPT !.status = "rejected", !.decidedBy = cmd[c].operator]
      BY <1>2, <1>6, <2>1, <2>3 DEF SaveVerdict
    <3> QED
      BY <2>2, <3>1 DEF ClaimRow
  <2>4. CASE cmd[c].decision # "reject"
    <3>1. claim'[k] = [seen[c] EXCEPT !.status = "approved", !.decidedBy = cmd[c].operator,
                                      !.credited = cmd[c].amount, !.transferId = c]
      BY <1>2, <1>6, <2>1, <2>4 DEF SaveVerdict
    <3>2. /\ claim'[k].transferId = c /\ claim'[k].credited = cmd[c].amount
          /\ claim'[k].user = seen[c].user /\ claim'[k].asset = seen[c].asset
      BY <2>2, <3>1 DEF ClaimRow
    <3>3. cmd[c].decision = "approve"
      BY <1>1, <2>1, <2>4, Settling DEF SettleCommand
    <3>4. c \in CreditsOf(k) /\ transfer[c].entries[Claimant(c)] = cmd[c].amount
      BY <1>1, <2>1, <3>3 DEF CreditedBeforeSaved
    <3> QED
      BY <2>1, <3>2, <3>4 DEF CreditsOf, Claimant
  <2> QED
    BY <2>3, <2>4
<1> QED
  BY <1>3, <1>4, <1>5, <1>6, WritersOfClaims

\* The order of posting and saving holds of the ledger, whoever decides what at once and
\* whichever call stops where.
THEOREM PostedInvHolds == Spec => []PostedInv
<1>1. Init => PostedInv
  BY TypeInit DEF Init, StoreInit, PostedInv, PostsOnce, OnTheWay, PaidBeforeSaved,
                  CreditedBeforeSaved
<1>2. PostedInv /\ [Next]_vars => PostedInv'
  <2> SUFFICES ASSUME PostedInv, [Next]_vars PROVE PostedInv'
    OBVIOUS
  <2>1. CASE Next
    BY <2>1, StepKeepsPosted DEF Next, Step
  <2>2. CASE UNCHANGED vars
    <3>1. LedgerTypeOK'
      BY <2>2 DEF vars, storeVars, tables, callVars, withdrawalVars, claimVars, LedgerTypeOK,
         WithdrawalTypeOK, ClaimTypeOK, StoreTypeOK, WithdrawalTablesOK, ClaimTablesOK,
         WithdrawalCallOK, ClaimCallOK, PostedInv
    <3>2. UNCHANGED <<pc, cmd, seen, transfer>>
      BY <2>2 DEF vars, storeVars, tables, callVars
    <3>3. \A c \in Calls : PostedCall(c)
      BY PostedCalls
    <3>4. \A c \in Calls : PostedCall(c)'
      BY <3>2, <3>3 DEF PostedCall, Completing, Complete, ApprovalsWith, Payouts, CreditsOf,
                        Claimant
    <3> QED
      BY <3>1, <3>4 DEF PostedInv, PostsOnce, OnTheWay, PaidBeforeSaved, CreditedBeforeSaved,
                        PostedCall
  <2> QED
    BY <2>1, <2>2
<1> QED
  BY <1>1, <1>2, PTL DEF Spec

\* A withdrawal that reads as approved has been paid: decideWithdrawal posts before it
\* saves, and neither a late save, a crash nor another operator undoes that order.
THEOREM ApprovedIsPaid == Spec => []ApprovedWasPaid
<1>1. Init => ApprovedWasPaid
  BY DEF Init, WithdrawalInit, ApprovedWasPaid, Exists
<1>2. PostedInv /\ ApprovedWasPaid /\ [Next]_vars => ApprovedWasPaid'
  <2> SUFFICES ASSUME PostedInv, ApprovedWasPaid, [Next]_vars PROVE ApprovedWasPaid'
    OBVIOUS
  <2>1. CASE Next
    BY <2>1, StepKeepsApprovedPaid DEF Next, Step
  <2>2. CASE UNCHANGED vars
    BY <2>2 DEF vars, storeVars, tables, withdrawalVars, ApprovedWasPaid, Exists, Payouts
  <2> QED
    BY <2>1, <2>2
<1> QED
  BY <1>1, <1>2, PostedInvHolds, PTL DEF Spec

\* An approved deposit claim names the transfer that credited the customer it names, in
\* the amount it says, however many operators decide and mark it at once.
THEOREM ApprovedIsCredited == Spec => []ApprovedWasCredited
<1>1. Init => ApprovedWasCredited
  BY DEF Init, ClaimInit, ApprovedWasCredited, Claimed
<1>2. PostedInv /\ ApprovedWasCredited /\ [Next]_vars => ApprovedWasCredited'
  <2> SUFFICES ASSUME PostedInv, ApprovedWasCredited, [Next]_vars PROVE ApprovedWasCredited'
    OBVIOUS
  <2>1. CASE Next
    BY <2>1, StepKeepsApprovedCredited DEF Next, Step
  <2>2. CASE UNCHANGED vars
    BY <2>2 DEF vars, storeVars, tables, claimVars, ApprovedWasCredited, Claimed, CreditsOf
  <2> QED
    BY <2>1, <2>2
<1> QED
  BY <1>1, <1>2, PostedInvHolds, PTL DEF Spec

----------------------------------------------------------------------------
(* One operator at a time on a record *)

\* The steps at which a decision has still to be saved, and those of a claim in hand.
SavePending == DecideSteps \ {"saveApprovals"}
HandSteps == SettleSteps \cup {"saveMark"}
InHandBy(c, k) == pc[c] \in HandSteps /\ cmd[c].target = k

\* Those on the way to a credit.
CreditingSteps == SettleSteps \ {"saveVerdict"}

\* The call that files a withdrawal, or a claim, has no more decisions to come.
FiledIsOver ==
  /\ \A w \in Calls : withdrawal[w] # None => pc[w] \in Ended
  /\ \A k \in Calls : claim[k] # None => pc[k] \in Ended \cup {"removeProof"}

\* No two calls have one withdrawal, or one claim, in hand.
AloneOnIt ==
  \A c, d \in Calls :
    /\ pc[c] \in DecideSteps /\ pc[d] \in DecideSteps /\ cmd[c].target = cmd[d].target => c = d
    /\ \A k \in Calls : InHandBy(c, k) /\ InHandBy(d, k) => c = d

\* What a deciding call has read of the status is what is stored, and it is pending once
\* it has been looked at.
StatusIsCurrent ==
  \A c \in Calls :
    pc[c] \in SavePending =>
      /\ withdrawal[cmd[c].target].status = seen[c].row.status
      /\ pc[c] # "readApprovals" => seen[c].row.status = "pending"

\* The copy of a claim in hand is the claim, and it is undecided.
CopyIsCurrent ==
  \A c, k \in Calls : InHandBy(c, k) => claim[k] = seen[c] /\ Undecided(seen[c])

\* Only approvals go the way of the credit.
OnlyApprovalsCredit ==
  \A c \in Calls : pc[c] \in CreditingSteps => cmd[c].decision = "approve"

\* The inductive invariant of the second part.
HandInv ==
  /\ LedgerTypeOK /\ FiledIsOver /\ AloneOnIt
  /\ StatusIsCurrent /\ CopyIsCurrent /\ OnlyApprovalsCredit

\* A call that has ended takes no step.
LEMMA EndedStays ==
  ASSUME NEW c \in Calls, Step(c)
  PROVE  pc[c] \notin Ended
BY DEF Step, WithdrawalStep, ClaimStep, CrashStep, Request, Decide, Submit, Mark, Settle,
       CreditDirectly, ReadForRequest, CheckGas, PlaceHold, FileRequest, ReadForDecision,
       ReadApprovals, ReadCustomer, ReleaseHold, ReadPayable, ReadFees, PostWithdrawal,
       SaveDecision, SaveApprovals, PutProof, SaveClaim, SaveClaimRaises, RemoveProof,
       ReadToMark, SaveMark, ReadToSettle, ReadClaimant, ReadCustody, PostClaim, SaveVerdict,
       ReadForCredit, ReadSource, PostCredit, CrashCall, Ended

\* Steps other than those of a decision lead to no step of one.
LEMMA DecidingComesFromDeciding ==
  ASSUME LedgerTypeOK, NEW c \in Calls, Step(c), pc'[c] \in DecideSteps
  PROVE  Decide(c)
<1>1. Ended \cap DecideSteps = {}
  BY DEF Ended, DecideSteps
<1>2. \A how \in Ended : ~ End(c, how)
  BY <1>1, EndEnds
<1>3. {"ok", "refused", "failed", "crashed"} \subseteq Ended
  BY DEF Ended
<1>4. ~ Request(c)
  BY <1>2, <1>3, GoToGoes
  DEF Request, ReadForRequest, CheckGas, PlaceHold, FileRequest, DecideSteps
<1>5. ~ Submit(c)
  BY <1>2, <1>3, GoToGoes DEF Submit, PutProof, SaveClaim, SaveClaimRaises, RemoveProof, DecideSteps
<1>6. ~ Mark(c)
  BY <1>2, <1>3, GoToGoes DEF Mark, ReadToMark, Reading, SaveMark, DecideSteps
<1>7. ~ Settle(c)
  BY <1>2, <1>3, GoToGoes
  DEF Settle, ReadToSettle, Reading, ReadClaimant, ReadCustody, PostClaim, SaveVerdict, DecideSteps
<1>8. ~ CreditDirectly(c)
  BY <1>2, <1>3, GoToGoes DEF CreditDirectly, ReadForCredit, ReadSource, PostCredit, DecideSteps
<1>9. ~ CrashStep(c)
  BY <1>2, <1>3 DEF CrashStep, CrashCall
<1> QED
  BY <1>4, <1>5, <1>6, <1>7, <1>8, <1>9 DEF Step, WithdrawalStep, ClaimStep

\* A call on its way to a decision has just read its withdrawal, or goes on with what it
\* read, which it found pending.
LEMMA DecisionGoesOn ==
  ASSUME LedgerTypeOK, NEW c \in Calls, Step(c), pc'[c] \in DecideSteps
  PROVE  \/ \E w \in Calls : /\ withdrawal[w] # None /\ UNCHANGED withdrawal
                             /\ pc'[c] = "readApprovals"
                             /\ cmd'[c].target = w /\ seen'[c].row = withdrawal[w]
                             /\ OneAtATime => ~ BeingDecided(w)
         \/ /\ pc[c] \in SavePending /\ UNCHANGED withdrawal /\ pc'[c] # "readApprovals"
            /\ cmd'[c] = cmd[c] /\ seen'[c].row = seen[c].row
            /\ pc[c] = "readApprovals" => seen[c].row.status = "pending"
         \/ pc[c] = "saveDecision" /\ pc'[c] = "saveApprovals" /\ cmd'[c] = cmd[c]
<1>1. Decide(c)
  BY DecidingComesFromDeciding
<1>2. \A how \in Ended : ~ End(c, how)
  BY EndEnds DEF Ended, DecideSteps
<1>3. {"ok", "refused", "failed", "crashed"} \subseteq Ended
  BY DEF Ended
<1>4. DOMAIN cmd = Calls /\ DOMAIN seen = Calls
  BY DEF LedgerTypeOK, WithdrawalTypeOK, StoreTypeOK
<1>5. CASE \E w \in Calls, o \in Operators, d \in {"approve", "reject"} : ReadForDecision(c, w, o, d)
  <2>1. PICK w \in Calls, o \in Operators, d \in {"approve", "reject"} : ReadForDecision(c, w, o, d)
    BY <1>5
  <2>2. /\ withdrawal[w] # None /\ UNCHANGED withdrawal /\ GoTo(c, "readApprovals")
        /\ seen' = [seen EXCEPT ![c] = [row |-> withdrawal[w], approvals |-> {}]]
        /\ cmd' = [cmd EXCEPT ![c] = [op |-> "decide", target |-> w, operator |-> o, decision |-> d]]
        /\ OneAtATime => ~ BeingDecided(w)
    BY <1>2, <1>3, <2>1 DEF ReadForDecision, withdrawalVars
  <2>3. cmd'[c].target = w /\ seen'[c].row = withdrawal[w] /\ pc'[c] = "readApprovals"
    BY <1>4, <2>2, GoToGoes
  <2> QED
    BY <2>2, <2>3
<1>6. CASE ReadApprovals(c)
  <2>1. /\ pc[c] = "readApprovals" /\ seen[c].row.status = "pending"
        /\ UNCHANGED <<cmd, withdrawal>> /\ GoTo(c, "readCustomer")
        /\ seen' = [seen EXCEPT ![c].approvals = signed[cmd[c].target]]
    BY <1>2, <1>3, <1>6 DEF ReadApprovals, withdrawalVars
  <2>2. seen[c] \in WithdrawalSeen
    BY <2>1 DEF LedgerTypeOK, WithdrawalTypeOK, WithdrawalCallOK, DecideSteps
  <2>3. seen'[c].row = seen[c].row
    BY <1>4, <2>1, <2>2 DEF WithdrawalSeen
  <2> QED
    BY <2>1, <2>3, GoToGoes DEF SavePending, DecideSteps
<1>7. CASE ReadCustomer(c) \/ ReleaseHold(c) \/ ReadPayable(c) \/ ReadFees(c) \/ PostWithdrawal(c)
  <2>1. pc[c] \in SavePending \ {"readApprovals"} /\ UNCHANGED <<withdrawal, cmd, seen>>
    BY <1>2, <1>3, <1>7
    DEF ReadCustomer, ReleaseHold, ReadPayable, ReadFees, PostWithdrawal, SavePending,
        DecideSteps, withdrawalVars
  <2>2. \E where : GoTo(c, where) /\ where # "readApprovals"
    BY <1>2, <1>3, <1>7 DEF ReadCustomer, ReleaseHold, ReadPayable, ReadFees, PostWithdrawal
  <2> QED
    BY <2>1, <2>2, GoToGoes
<1>8. CASE SaveDecision(c)
  BY <1>2, <1>3, <1>8, GoToGoes DEF SaveDecision
<1>9. CASE SaveApprovals(c)
  BY <1>2, <1>3, <1>9 DEF SaveApprovals
<1> QED
  BY <1>1, <1>5, <1>6, <1>7, <1>8, <1>9 DEF Decide

\* A call with a claim in hand has just read it, undecided, or goes on with what it read.
LEMMA HandGoesOn ==
  ASSUME LedgerTypeOK, NEW c \in Calls, Step(c), pc'[c] \in HandSteps
  PROVE  \/ \E k \in Calls : /\ claim[k] # None /\ Undecided(claim[k]) /\ UNCHANGED claim
                             /\ cmd'[c].target = k /\ seen'[c] = claim[k]
                             /\ OneAtATime => ~ InHand(k)
                             /\ pc'[c] \in CreditingSteps => cmd'[c].decision = "approve"
         \/ /\ pc[c] \in CreditingSteps /\ UNCHANGED claim
            /\ cmd'[c] = cmd[c] /\ seen'[c] = seen[c]
<1>1. Ended \cap HandSteps = {}
  BY DEF Ended, HandSteps, SettleSteps
<1>2. \A how \in Ended : ~ End(c, how)
  BY <1>1, EndEnds
<1>3. {"ok", "refused", "failed", "crashed"} \subseteq Ended
  BY DEF Ended
<1>4. DOMAIN cmd = Calls /\ DOMAIN seen = Calls
  BY DEF LedgerTypeOK, WithdrawalTypeOK, StoreTypeOK
<1>5. ~ Request(c)
  BY <1>2, <1>3, GoToGoes
  DEF Request, ReadForRequest, CheckGas, PlaceHold, FileRequest, HandSteps, SettleSteps
<1>6. ~ Decide(c)
  BY <1>2, <1>3, GoToGoes
  DEF Decide, ReadForDecision, ReadApprovals, ReadCustomer, ReleaseHold, ReadPayable, ReadFees,
      PostWithdrawal, SaveDecision, SaveApprovals, HandSteps, SettleSteps
<1>7. ~ Submit(c)
  BY <1>2, <1>3, GoToGoes
  DEF Submit, PutProof, SaveClaim, SaveClaimRaises, RemoveProof, HandSteps, SettleSteps
<1>8. ~ CreditDirectly(c)
  BY <1>2, <1>3, GoToGoes
  DEF CreditDirectly, ReadForCredit, ReadSource, PostCredit, HandSteps, SettleSteps
<1>9. ~ CrashStep(c)
  BY <1>2, <1>3 DEF CrashStep, CrashCall
<1>10. ASSUME NEW k \in Calls, NEW command, NEW next, Reading(c, k, command, next),
              command.target = k
       PROVE  cmd'[c].target = k /\ seen'[c] = claim[k]
  BY <1>4, <1>10 DEF Reading
<1>11. CASE Mark(c)
  <2>1. ~ SaveMark(c)
    BY <1>2, <1>3 DEF SaveMark
  <2>2. PICK k \in Calls : ReadToMark(c, k)
    BY <1>11, <2>1 DEF Mark
  <2>3. /\ claim[k] # None /\ claim[k].status = "pending" /\ UNCHANGED claim
        /\ Reading(c, k, [op |-> "mark", target |-> k], "saveMark")
        /\ OneAtATime => ~ InHand(k)
    BY <1>2, <1>3, <2>2 DEF ReadToMark, claimVars
  <2>4. pc'[c] = "saveMark"
    BY <2>3, GoToGoes DEF Reading
  <2> QED
    BY <1>10, <2>3, <2>4 DEF Undecided, CreditingSteps, SettleSteps
<1>12. CASE Settle(c)
  <2>1. CASE \E k \in Calls, o \in Operators, d \in {"approve", "reject"}, n \in Deposits \cup {0} :
               ReadToSettle(c, k, o, d, n)
    <3>1. PICK k \in Calls, o \in Operators, d \in {"approve", "reject"}, n \in Deposits \cup {0} :
            ReadToSettle(c, k, o, d, n)
      BY <2>1
    <3>2. /\ claim[k] # None /\ Undecided(claim[k]) /\ UNCHANGED claim
          /\ Reading(c, k,
               [op |-> "settle", target |-> k, operator |-> o, decision |-> d, amount |-> n],
               IF d = "reject" THEN "saveVerdict" ELSE "readClaimant")
          /\ OneAtATime => ~ InHand(k)
      BY <1>2, <1>3, <3>1 DEF ReadToSettle, claimVars
    <3>3. pc'[c] \in CreditingSteps => cmd'[c].decision = "approve"
      BY <1>4, <3>2, GoToGoes DEF Reading, CreditingSteps
    <3> QED
      BY <1>10, <3>2, <3>3
  <2>2. CASE ReadClaimant(c) \/ ReadCustody(c) \/ PostClaim(c)
    BY <1>2, <1>3, <2>2 DEF ReadClaimant, ReadCustody, PostClaim, CreditingSteps, SettleSteps, claimVars
  <2>3. ~ SaveVerdict(c)
    BY <1>2, <1>3 DEF SaveVerdict
  <2> QED
    BY <1>12, <2>1, <2>2, <2>3 DEF Settle
<1> QED
  BY <1>5, <1>6, <1>7, <1>8, <1>9, <1>11, <1>12 DEF Step, WithdrawalStep, ClaimStep

\* The withdrawals a step may write: the one a call files, and the one it has decided.
LEMMA WrittenWithdrawals ==
  ASSUME LedgerTypeOK, NEW c \in Calls, Step(c), NEW w \in Calls, withdrawal'[w] # withdrawal[w]
  PROVE  \/ FileRequest(c) /\ w = c
         \/ SaveDecision(c) /\ pc[c] = "saveDecision" /\ pc[c] \in SavePending
                            /\ w = cmd[c].target
<1>1. DOMAIN withdrawal = Calls
  BY DEF LedgerTypeOK, WithdrawalTypeOK, WithdrawalTablesOK
<1>2. CASE FileRequest(c)
  BY <1>1, <1>2 DEF FileRequest
<1>3. CASE SaveDecision(c)
  BY <1>1, <1>3 DEF SaveDecision, SavePending, DecideSteps
<1> QED
  BY <1>2, <1>3, WritersOfWithdrawals

\* The claims a step may write: the one a call submits, and the one it has in hand.
LEMMA WrittenClaims ==
  ASSUME LedgerTypeOK, NEW c \in Calls, Step(c), NEW k \in Calls, claim'[k] # claim[k]
  PROVE  \/ (SaveClaim(c) \/ SaveClaimRaises(c)) /\ pc[c] = "saveClaim" /\ k = c
         \/ (SaveMark(c) \/ SaveVerdict(c)) /\ InHandBy(c, k)
<1>1. DOMAIN claim = Calls
  BY DEF LedgerTypeOK, ClaimTypeOK, ClaimTablesOK
<1>2. CASE SaveClaim(c) \/ SaveClaimRaises(c)
  BY <1>1, <1>2 DEF SaveClaim, SaveClaimRaises
<1>3. CASE SaveMark(c) \/ SaveVerdict(c)
  BY <1>1, <1>3 DEF SaveMark, SaveVerdict, InHandBy, HandSteps, SettleSteps
<1> QED
  BY <1>2, <1>3, WritersOfClaims

\* A call whose submission raised takes the proof away and ends, or stops.
LEMMA RemovalEnds ==
  ASSUME LedgerTypeOK, NEW c \in Calls, Step(c), pc[c] = "removeProof"
  PROVE  pc'[c] \in Ended
<1>1. \A how \in {"failed", "crashed"} : End(c, how) => pc'[c] \in Ended
  BY EndEnds DEF Ended
<1>2. RemoveProof(c) \/ CrashStep(c)
  BY DEF Step, WithdrawalStep, ClaimStep, Request, Decide, Submit, Mark, Settle,
       CreditDirectly, ReadForRequest, CheckGas, PlaceHold, FileRequest, ReadForDecision,
       ReadApprovals, ReadCustomer, ReleaseHold, ReadPayable, ReadFees, PostWithdrawal,
       SaveDecision, SaveApprovals, PutProof, SaveClaim, SaveClaimRaises,
       ReadToMark, SaveMark, ReadToSettle, ReadClaimant, ReadCustody, PostClaim, SaveVerdict,
       ReadForCredit, ReadSource, PostCredit
<1> QED
  BY <1>1, <1>2 DEF RemoveProof, CrashStep, CrashCall

\* A withdrawal under decision, and a claim in hand, are on the table.
LEMMA InHandIsThere ==
  ASSUME HandInv, NEW c \in Calls
  PROVE  /\ pc[c] \in DecideSteps => /\ cmd[c].target \in Calls
                                     /\ withdrawal[cmd[c].target] # None
         /\ pc[c] \in HandSteps => /\ cmd[c].target \in Calls
                                   /\ claim[cmd[c].target] # None
                                   /\ claim[cmd[c].target] = seen[c]
<1>1. LedgerTypeOK
  BY DEF HandInv
<1>2. CASE pc[c] \in DecideSteps
  <2>1. pc[c] \notin HandSteps
    BY <1>2 DEF DecideSteps, HandSteps, SettleSteps
  <2> QED
    BY <1>1, <1>2, <2>1, Deciding, NoRecordAssumption
<1>3. CASE pc[c] \in HandSteps
  <2>1. pc[c] \notin DecideSteps
    BY <1>3 DEF DecideSteps, HandSteps, SettleSteps
  <2>2. cmd[c].target \in Calls /\ seen[c] \in ClaimRow
    BY <1>1, <1>3 DEF HandSteps, LedgerTypeOK, ClaimTypeOK, ClaimCallOK, MarkCommand, SettleCommand
  <2>3. claim[cmd[c].target] = seen[c]
    BY <1>3, <2>2 DEF HandInv, CopyIsCurrent, InHandBy
  <2> QED
    BY <2>1, <2>2, <2>3, NoRecordAssumption
<1> QED
  BY <1>2, <1>3

\* The call that filed a request is over once it is filed.
LEMMA StepKeepsFiledOver ==
  ASSUME HandInv, NEW c \in Calls, Step(c)
  PROVE  FiledIsOver'
<1>1. LedgerTypeOK /\ LeavesOthers(c) /\ FiledIsOver
  BY StepLeavesOthers DEF HandInv
<1>2. pc[c] \notin Ended
  BY EndedStays
<1>3. ASSUME NEW w \in Calls, withdrawal'[w] # None PROVE pc'[w] \in Ended
  <2>1. CASE withdrawal[w] # None
    BY <1>1, <1>2, <2>1 DEF FiledIsOver, LeavesOthers
  <2>2. CASE withdrawal[w] = None
    <3>1. CASE FileRequest(c) /\ w = c
      BY <1>1, <3>1, EndEnds DEF FileRequest, Ended
    <3>2. CASE pc[c] \in SavePending /\ w = cmd[c].target
      BY <2>2, <3>2, InHandIsThere DEF SavePending
    <3> QED
      BY <1>1, <1>3, <2>2, <3>1, <3>2, WrittenWithdrawals
  <2> QED
    BY <2>1, <2>2
<1>4. ASSUME NEW k \in Calls, claim'[k] # None PROVE pc'[k] \in Ended \cup {"removeProof"}
  <2>1. CASE claim[k] # None
    <3>1. pc[k] \in Ended \cup {"removeProof"}
      BY <1>1, <2>1 DEF FiledIsOver
    <3> QED
      BY <1>1, <1>2, <3>1, RemovalEnds DEF LeavesOthers
  <2>2. CASE claim[k] = None
    <3>1. CASE (SaveClaim(c) \/ SaveClaimRaises(c)) /\ k = c
      BY <1>1, <3>1, EndEnds, GoToGoes DEF SaveClaim, SaveClaimRaises, Ended
    <3>2. CASE InHandBy(c, k)
      BY <2>2, <3>2, InHandIsThere DEF InHandBy
    <3> QED
      BY <1>1, <1>4, <2>2, <3>1, <3>2, WrittenClaims
  <2> QED
    BY <2>1, <2>2
<1> QED
  BY <1>3, <1>4 DEF FiledIsOver

\* No second operator takes what one has in hand.
LEMMA StepKeepsAlone ==
  ASSUME OneAtATime, HandInv, NEW c \in Calls, Step(c)
  PROVE  AloneOnIt'
<1>1. LedgerTypeOK /\ LeavesOthers(c) /\ AloneOnIt
  BY StepLeavesOthers DEF HandInv
<1>2. ASSUME NEW d \in Calls \ {c}, pc'[c] \in DecideSteps, pc'[d] \in DecideSteps,
             cmd'[c].target = cmd'[d].target
      PROVE  FALSE
  <2>1. pc[d] \in DecideSteps /\ cmd'[d] = cmd[d]
    BY <1>1, <1>2 DEF LeavesOthers
  <2>2. CASE \E w \in Calls : cmd'[c].target = w /\ ~ BeingDecided(w)
    BY <1>2, <2>1, <2>2 DEF BeingDecided
  <2>3. CASE pc[c] \in DecideSteps /\ cmd'[c] = cmd[c]
    BY <1>1, <1>2, <2>1, <2>3 DEF AloneOnIt
  <2> QED
    BY <1>1, <1>2, <2>2, <2>3, DecisionGoesOn DEF SavePending, DecideSteps
<1>3. ASSUME NEW d \in Calls \ {c}, NEW k \in Calls, InHandBy(c, k)', InHandBy(d, k)'
      PROVE  FALSE
  <2>1. pc'[c] \in HandSteps /\ cmd'[c].target = k /\ InHandBy(d, k)
    BY <1>1, <1>3 DEF LeavesOthers, InHandBy
  <2>2. CASE ~ InHand(k)
    BY <2>1, <2>2 DEF InHand, InHandBy, HandSteps
  <2>3. CASE pc[c] \in CreditingSteps /\ cmd'[c] = cmd[c]
    BY <1>1, <2>1, <2>3 DEF AloneOnIt, InHandBy, HandSteps, CreditingSteps
  <2> QED
    BY <1>1, <2>1, <2>2, <2>3, HandGoesOn
<1>4. ASSUME NEW d \in Calls \ {c}
      PROVE  /\ pc'[d] = pc[d] /\ cmd'[d] = cmd[d]
             /\ \A k : InHandBy(d, k)' <=> InHandBy(d, k)
  BY <1>1 DEF LeavesOthers, InHandBy
<1> QED
  BY <1>1, <1>2, <1>3, <1>4 DEF AloneOnIt

\* What an operator has read as pending still is.
LEMMA StepKeepsStatusCurrent ==
  ASSUME HandInv, NEW c \in Calls, Step(c)
  PROVE  StatusIsCurrent'
<1>1. LedgerTypeOK /\ LeavesOthers(c) /\ AloneOnIt /\ FiledIsOver /\ StatusIsCurrent
  BY StepLeavesOthers DEF HandInv
<1> SUFFICES ASSUME NEW d \in Calls, pc'[d] \in SavePending
             PROVE  /\ withdrawal'[cmd'[d].target].status = seen'[d].row.status
                    /\ pc'[d] # "readApprovals" => seen'[d].row.status = "pending"
  BY DEF StatusIsCurrent
<1>2. CASE d = c
  <2>1. pc'[c] \in DecideSteps /\ pc'[c] # "saveApprovals"
    BY <1>2 DEF SavePending
  <2>2. CASE pc'[c] = "readApprovals"
    BY <1>1, <1>2, <2>1, <2>2, DecisionGoesOn
  <2>3. CASE pc'[c] # "readApprovals"
    <3>1. /\ pc[c] \in SavePending /\ UNCHANGED withdrawal
          /\ cmd'[c] = cmd[c] /\ seen'[c].row = seen[c].row
          /\ pc[c] = "readApprovals" => seen[c].row.status = "pending"
      BY <1>1, <2>1, <2>3, DecisionGoesOn
    <3> QED
      BY <1>1, <1>2, <3>1 DEF StatusIsCurrent
  <2> QED
    BY <2>2, <2>3
<1>3. CASE d # c
  <2>1. pc[d] \in SavePending /\ pc'[d] = pc[d] /\ cmd'[d] = cmd[d] /\ seen'[d] = seen[d]
    BY <1>1, <1>3 DEF LeavesOthers
  <2> DEFINE w == cmd[d].target
  <2>2. w \in Calls /\ withdrawal[w] # None /\ pc[w] \in Ended
    BY <1>1, <2>1, InHandIsThere DEF SavePending, FiledIsOver
  <2>3. withdrawal'[w] = withdrawal[w]
    <3>1. w # c
      BY <2>2, EndedStays
    <3>2. ~ (pc[c] \in SavePending /\ w = cmd[c].target)
      BY <1>1, <1>3, <2>1 DEF AloneOnIt, SavePending
    <3> QED
      BY <1>1, <2>2, <3>1, <3>2, WrittenWithdrawals
  <2> QED
    BY <1>1, <2>1, <2>3 DEF StatusIsCurrent
<1> QED
  BY <1>2, <1>3

\* The copy an operator holds is the row.
LEMMA StepKeepsCopyCurrent ==
  ASSUME HandInv, NEW c \in Calls, Step(c)
  PROVE  CopyIsCurrent'
<1>1. LedgerTypeOK /\ LeavesOthers(c) /\ AloneOnIt /\ FiledIsOver /\ CopyIsCurrent
  BY StepLeavesOthers DEF HandInv
<1> SUFFICES ASSUME NEW d \in Calls, NEW k \in Calls, InHandBy(d, k)'
             PROVE  claim'[k] = seen'[d] /\ Undecided(seen'[d])
  BY DEF CopyIsCurrent, Undecided
<1>2. CASE d = c
  <2>1. pc'[c] \in HandSteps /\ cmd'[c].target = k
    BY <1>2 DEF InHandBy
  <2>2. CASE pc[c] \in CreditingSteps /\ UNCHANGED claim /\ cmd'[c] = cmd[c] /\ seen'[c] = seen[c]
    <3>1. InHandBy(c, k)
      BY <2>1, <2>2 DEF InHandBy, HandSteps, CreditingSteps
    <3> QED
      BY <1>1, <1>2, <2>2, <3>1 DEF CopyIsCurrent
  <2> QED
    BY <1>1, <1>2, <2>1, <2>2, HandGoesOn
<1>3. CASE d # c
  <2>1. InHandBy(d, k) /\ seen'[d] = seen[d]
    BY <1>1, <1>3 DEF LeavesOthers, InHandBy
  <2>2. claim[k] # None /\ claim[k] = seen[d] /\ Undecided(seen[d])
    BY <1>1, <2>1, InHandIsThere DEF InHandBy, CopyIsCurrent
  <2>3. ~ (pc[c] = "saveClaim" /\ k = c)
    BY <1>1, <2>2 DEF FiledIsOver, Ended
  <2>4. ~ InHandBy(c, k)
    BY <1>1, <1>3, <2>1 DEF AloneOnIt
  <2>5. claim'[k] = claim[k]
    BY <1>1, <2>3, <2>4, WrittenClaims
  <2> QED
    BY <2>1, <2>2, <2>5
<1> QED
  BY <1>2, <1>3

\* Only an approval posts a claim's credit.
LEMMA StepKeepsApprovalsCredit ==
  ASSUME HandInv, NEW c \in Calls, Step(c)
  PROVE  OnlyApprovalsCredit'
<1>1. LedgerTypeOK /\ LeavesOthers(c) /\ OnlyApprovalsCredit
  BY StepLeavesOthers DEF HandInv
<1>2. pc'[c] \in CreditingSteps => cmd'[c].decision = "approve"
  BY <1>1, HandGoesOn DEF OnlyApprovalsCredit, CreditingSteps, HandSteps
<1> QED
  BY <1>1, <1>2 DEF OnlyApprovalsCredit, LeavesOthers

\* With one operator at a time on a record, what is in hand is current, crashes or not.
THEOREM HandInvHolds ==
  ASSUME OneAtATime
  PROVE  Spec => []HandInv
<1>1. Init => HandInv
  BY TypeInit DEF Init, StoreInit, WithdrawalInit, ClaimInit, HandInv, FiledIsOver, AloneOnIt,
                  StatusIsCurrent, CopyIsCurrent, OnlyApprovalsCredit, InHandBy, SavePending,
                  DecideSteps, HandSteps, CreditingSteps, SettleSteps
<1>2. HandInv /\ [Next]_vars => HandInv'
  <2> SUFFICES ASSUME HandInv, [Next]_vars PROVE HandInv'
    OBVIOUS
  <2>1. CASE Next
    <3>1. PICK c \in Calls : Step(c)
      BY <2>1 DEF Next, Step
    <3>2. LedgerTypeOK'
      BY <3>1, StepLeavesOthers DEF HandInv
    <3> QED
      BY <3>1, <3>2, StepKeepsFiledOver, StepKeepsAlone, StepKeepsStatusCurrent,
         StepKeepsCopyCurrent, StepKeepsApprovalsCredit DEF HandInv
  <2>2. CASE UNCHANGED vars
    <3>1. LedgerTypeOK'
      BY <2>2 DEF vars, storeVars, tables, callVars, withdrawalVars, claimVars, LedgerTypeOK,
         WithdrawalTypeOK, ClaimTypeOK, StoreTypeOK, WithdrawalTablesOK, ClaimTablesOK,
         WithdrawalCallOK, ClaimCallOK, HandInv
    <3>2. UNCHANGED <<pc, cmd, seen, withdrawal, claim>>
      BY <2>2 DEF vars, storeVars, callVars, withdrawalVars, claimVars
    <3> QED
      BY <3>1, <3>2 DEF HandInv, FiledIsOver, AloneOnIt, StatusIsCurrent, CopyIsCurrent,
                        OnlyApprovalsCredit, InHandBy, Undecided
  <2> QED
    BY <2>1, <2>2
<1> QED
  BY <1>1, <1>2, PTL DEF Spec

\* A decided record is not written again.
LEMMA DecidedIsKept ==
  ASSUME HandInv, NEW c \in Calls, Step(c), NEW w \in Calls
  PROVE  /\ Exists(w) /\ withdrawal[w].status # "pending" => withdrawal'[w] = withdrawal[w]
         /\ Claimed(w) /\ ~ Undecided(claim[w]) => claim'[w] = claim[w]
<1>1. LedgerTypeOK /\ FiledIsOver /\ StatusIsCurrent /\ CopyIsCurrent
  BY DEF HandInv
<1>2. ASSUME Exists(w), withdrawal[w].status # "pending", withdrawal'[w] # withdrawal[w]
      PROVE  FALSE
  <2>1. ~ (FileRequest(c) /\ w = c)
    BY <1>1, <1>2, EndedStays DEF Exists, FiledIsOver
  <2>2. pc[c] = "saveDecision" /\ pc[c] \in SavePending /\ w = cmd[c].target
    BY <1>1, <1>2, <2>1, WrittenWithdrawals
  <2> QED
    BY <1>1, <1>2, <2>2 DEF StatusIsCurrent
<1>3. ASSUME Claimed(w), ~ Undecided(claim[w]), claim'[w] # claim[w]
      PROVE  FALSE
  <2>1. ~ (pc[c] = "saveClaim" /\ w = c)
    BY <1>1, <1>3 DEF Claimed, FiledIsOver, Ended
  <2>2. InHandBy(c, w)
    BY <1>1, <1>3, <2>1, WrittenClaims
  <2> QED
    BY <1>1, <1>3, <2>2 DEF CopyIsCurrent
<1> QED
  BY <1>2, <1>3

\* With one operator at a time on a withdrawal, a decision is not taken back or replaced
\* by a later one: decideWithdrawal refuses what it reads as decided, and what it read
\* stays true until it saves.
THEOREM DecisionsStand ==
  ASSUME OneAtATime
  PROVE  Spec => DecisionStands
<1> DEFINE Stands ==
      \A w \in Calls : Exists(w) /\ withdrawal[w].status # "pending"
                         => withdrawal'[w].status = withdrawal[w].status
<1>1. HandInv /\ [Next]_vars => [Stands]_withdrawal
  BY DecidedIsKept DEF Next, Step, vars, withdrawalVars
<1> QED
  BY <1>1, HandInvHolds, PTL DEF Spec, DecisionStands

\* With one operator at a time on a claim, a verdict is not overwritten, neither by
\* another verdict nor by an operator who marks the claim as confirming.
THEOREM VerdictsStand ==
  ASSUME OneAtATime
  PROVE  Spec => VerdictStands
<1> DEFINE Stands ==
      \A k \in Calls : Claimed(k) /\ ~Undecided(claim[k]) => claim'[k] = claim[k]
<1>1. HandInv /\ [Next]_vars => [Stands]_claim
  BY DecidedIsKept DEF Next, Step, vars, claimVars
<1> QED
  BY <1>1, HandInvHolds, PTL DEF Spec, VerdictStands

----------------------------------------------------------------------------
(* Paid once, credited once *)

\* Whatever was paid for is approved, or about to be, by the call that paid.
PaidIsApproved ==
  \A w, c \in Calls :
    c \in Payouts(w) =>
      \/ Exists(w) /\ withdrawal[w].status = "approved"
      \/ pc[c] = "saveDecision" /\ Completing(c) /\ cmd[c].target = w

\* No withdrawal is paid by two calls.
PaidByOne == \A w, c, d \in Calls : c \in Payouts(w) /\ d \in Payouts(w) => c = d

\* Whatever claim was credited is approved, or about to be, by the call that credited it.
CreditedIsApproved ==
  \A k, c \in Calls :
    c \in CreditsOf(k) =>
      \/ Claimed(k) /\ claim[k].status = "approved"
      \/ pc[c] = "saveVerdict" /\ cmd[c].decision = "approve" /\ cmd[c].target = k

\* No claim is credited by two calls.
CreditedByOne == \A k, c, d \in Calls : c \in CreditsOf(k) /\ d \in CreditsOf(k) => c = d

\* The inductive invariant of the third part.
OnceInv ==
  PostedInv /\ HandInv /\ PaidIsApproved /\ PaidByOne /\ CreditedIsApproved /\ CreditedByOne

\* A payment is new only when the call that stands at the posting makes it.
LEMMA NewPayout ==
  ASSUME OnceInv, NEW c \in Calls, Step(c), NEW w \in Calls, NEW d \in Calls,
         d \in Payouts(w)', d \notin Payouts(w)
  PROVE  /\ d = c /\ pc[c] = "postWithdrawal" /\ cmd[c].target = w /\ Completing(c)
         /\ pc'[c] = "saveDecision" /\ UNCHANGED <<cmd, seen, withdrawal>>
<1>1. LedgerTypeOK /\ PostsOnce /\ OnTheWay
  BY DEF OnceInv, PostedInv
<1>2. DOMAIN transfer = Calls
  BY <1>1 DEF LedgerTypeOK, WithdrawalTypeOK, StoreTypeOK
<1>3. transfer'[d] # transfer[d] /\ transfer'[d].kind = "withdrawal" /\ transfer'[d].subject = w
  BY DEF Payouts
<1>4. d = c
  BY <1>1, <1>3, TransfersStay
<1>5. ~ PostClaim(c) /\ ~ PostCredit(c)
  BY <1>2, <1>3, <1>4 DEF PostClaim, PostCredit, Post, tables
<1>6. PostWithdrawal(c)
  BY <1>3, <1>5, WritersOfTransfers
<1>7. /\ pc[c] = "postWithdrawal" /\ GoTo(c, "saveDecision")
      /\ UNCHANGED <<cmd, seen, withdrawal>>
      /\ transfer'[c].subject = cmd[c].target
  BY <1>2, <1>3, <1>4, <1>6 DEF PostWithdrawal, Post, tables, withdrawalVars
<1> QED
  BY <1>1, <1>3, <1>4, <1>7, GoToGoes DEF OnTheWay

\* A credit is new only when the call that stands at the posting makes it.
LEMMA NewCredit ==
  ASSUME OnceInv, NEW c \in Calls, Step(c), NEW k \in Calls, NEW d \in Calls,
         d \in CreditsOf(k)', d \notin CreditsOf(k)
  PROVE  /\ d = c /\ pc[c] = "postClaim" /\ cmd[c].target = k
         /\ pc'[c] = "saveVerdict" /\ UNCHANGED <<cmd, seen, claim>>
<1>1. LedgerTypeOK /\ PostsOnce
  BY DEF OnceInv, PostedInv
<1>2. DOMAIN transfer = Calls
  BY <1>1 DEF LedgerTypeOK, WithdrawalTypeOK, StoreTypeOK
<1>3. transfer'[d] # transfer[d] /\ transfer'[d].kind = "deposit" /\ transfer'[d].subject = k
  BY DEF CreditsOf
<1>4. d = c
  BY <1>1, <1>3, TransfersStay
<1>5. ~ PostWithdrawal(c) /\ ~ PostCredit(c)
  BY <1>2, <1>3, <1>4, NoneAssumption DEF PostWithdrawal, PostCredit, Post, tables
<1>6. PostClaim(c)
  BY <1>3, <1>5, WritersOfTransfers
<1>7. /\ pc[c] = "postClaim" /\ GoTo(c, "saveVerdict") /\ UNCHANGED <<cmd, seen, claim>>
      /\ transfer'[c].subject = cmd[c].target
  BY <1>2, <1>3, <1>4, <1>6 DEF PostClaim, Post, tables, claimVars
<1> QED
  BY <1>1, <1>3, <1>4, <1>7, GoToGoes

\* Without crashes a call that stands before its save saves.
LEMMA SavesNext ==
  ASSUME ~ MayCrash, NEW c \in Calls, Step(c)
  PROVE  /\ pc[c] = "saveDecision" => SaveDecision(c)
         /\ pc[c] = "saveVerdict" => SaveVerdict(c)
<1>1. ASSUME pc[c] = "saveDecision" PROVE SaveDecision(c)
  BY <1>1
  DEF Step, WithdrawalStep, ClaimStep, CrashStep, Request, Decide, Submit, Mark, Settle,
       CreditDirectly, ReadForRequest, CheckGas, PlaceHold, FileRequest, ReadForDecision,
       ReadApprovals, ReadCustomer, ReleaseHold, ReadPayable, ReadFees, PostWithdrawal,
       SaveApprovals, PutProof, SaveClaim, SaveClaimRaises, RemoveProof, ReadToMark, SaveMark,
       ReadToSettle, ReadClaimant, ReadCustody, PostClaim, ReadForCredit, ReadSource,
       PostCredit, SaveVerdict, CrashCall
<1>2. ASSUME pc[c] = "saveVerdict" PROVE SaveVerdict(c)
  BY <1>2
  DEF Step, WithdrawalStep, ClaimStep, CrashStep, Request, Decide, Submit, Mark, Settle,
       CreditDirectly, ReadForRequest, CheckGas, PlaceHold, FileRequest, ReadForDecision,
       ReadApprovals, ReadCustomer, ReleaseHold, ReadPayable, ReadFees, PostWithdrawal,
       SaveApprovals, PutProof, SaveClaim, SaveClaimRaises, RemoveProof, ReadToMark, SaveMark,
       ReadToSettle, ReadClaimant, ReadCustody, PostClaim, ReadForCredit, ReadSource,
       PostCredit, SaveDecision, CrashCall
<1> QED
  BY <1>1, <1>2

\* Without a crash, a payout is followed by its approval.
LEMMA StepKeepsPaidApproved ==
  ASSUME ~ MayCrash, OnceInv, NEW c \in Calls, Step(c)
  PROVE  PaidIsApproved'
<1>1. HandInv /\ LedgerTypeOK /\ LeavesOthers(c) /\ PaidIsApproved
  BY StepLeavesOthers DEF OnceInv, HandInv
<1> SUFFICES ASSUME NEW w \in Calls, NEW d \in Calls, d \in Payouts(w)'
             PROVE  \/ Exists(w)' /\ withdrawal'[w].status = "approved"
                    \/ pc'[d] = "saveDecision" /\ Completing(d)' /\ cmd'[d].target = w
  BY DEF PaidIsApproved
<1>2. CASE d \notin Payouts(w)
  BY <1>2, NewPayout, SameDecision
<1>3. CASE Exists(w) /\ withdrawal[w].status = "approved"
  BY <1>1, <1>3, DecidedIsKept DEF Exists
<1>4. CASE pc[d] = "saveDecision" /\ Completing(d) /\ cmd[d].target = w
  <2>1. CASE d # c
    BY <1>1, <1>4, <2>1, SameDecision DEF LeavesOthers
  <2>2. CASE d = c
    <3>1. SaveDecision(c) /\ pc[c] \in DecideSteps
      BY <1>4, <2>2, SavesNext DEF DecideSteps
    <3>2. withdrawal[w] \in WithdrawalRow /\ DOMAIN withdrawal = Calls
      BY <1>1, <1>4, <2>2, <3>1, Deciding DEF LedgerTypeOK, WithdrawalTypeOK, WithdrawalTablesOK
    <3>3. withdrawal' = [withdrawal EXCEPT ![w].status = "approved",
                                           ![w].decidedBy = cmd[c].operator]
      BY <1>4, <2>2, <3>1 DEF SaveDecision, Completing
    <3>4. withdrawal'[w].status = "approved"
      BY <3>2, <3>3 DEF WithdrawalRow
    <3>5. withdrawal'[w] \in WithdrawalRow
      BY <1>1, <1>4, <2>2, <3>1, <3>2, <3>3, Deciding DEF WithdrawalRow
    <3> QED
      BY <3>4, <3>5, NoRecordAssumption DEF Exists
  <2> QED
    BY <2>1, <2>2
<1> QED
  BY <1>1, <1>2, <1>3, <1>4 DEF PaidIsApproved

\* One decision pays a withdrawal.
LEMMA StepKeepsPaidByOne ==
  ASSUME OnceInv, NEW c \in Calls, Step(c)
  PROVE  PaidByOne'
<1>1. /\ LedgerTypeOK /\ AloneOnIt /\ StatusIsCurrent
      /\ PaidIsApproved /\ PaidByOne
  BY DEF OnceInv, HandInv
<1>2. ASSUME NEW w \in Calls, NEW d \in Calls, NEW e \in Calls, d \in Payouts(w)',
             d \notin Payouts(w), e \in Payouts(w)', e # d
      PROVE  FALSE
  <2>1. d = c /\ pc[c] = "postWithdrawal" /\ cmd[c].target = w
    BY <1>2, NewPayout
  <2>2. e \in Payouts(w)
    BY <1>2, <2>1, NewPayout
  <2>3. pc[c] \in DecideSteps /\ pc[c] \in SavePending
    BY <2>1 DEF DecideSteps, SavePending
  <2>4. withdrawal[w].status = "pending"
    BY <1>1, <2>1, <2>3 DEF StatusIsCurrent
  <2>5. pc[e] = "saveDecision" /\ cmd[e].target = w
    BY <1>1, <2>2, <2>4 DEF PaidIsApproved
  <2> QED
    BY <1>1, <1>2, <2>1, <2>3, <2>5 DEF AloneOnIt, DecideSteps
<1> QED
  BY <1>1, <1>2 DEF PaidByOne

\* Without a crash, a credit is followed by its approval.
LEMMA StepKeepsCreditedApproved ==
  ASSUME ~ MayCrash, OnceInv, NEW c \in Calls, Step(c)
  PROVE  CreditedIsApproved'
<1>1. HandInv /\ LedgerTypeOK /\ LeavesOthers(c) /\ CreditedIsApproved
  BY StepLeavesOthers DEF OnceInv, HandInv
<1> SUFFICES ASSUME NEW k \in Calls, NEW d \in Calls, d \in CreditsOf(k)'
             PROVE  \/ Claimed(k)' /\ claim'[k].status = "approved"
                    \/ pc'[d] = "saveVerdict" /\ cmd'[d].decision = "approve"
                                              /\ cmd'[d].target = k
  BY DEF CreditedIsApproved
<1>2. CASE d \notin CreditsOf(k)
  <2>1. /\ d = c /\ pc[c] = "postClaim" /\ cmd[c].target = k
        /\ pc'[c] = "saveVerdict" /\ UNCHANGED cmd
    BY <1>2, NewCredit
  <2>2. cmd[c].decision = "approve"
    BY <2>1 DEF OnceInv, HandInv, OnlyApprovalsCredit, CreditingSteps, SettleSteps
  <2> QED
    BY <2>1, <2>2
<1>3. CASE Claimed(k) /\ claim[k].status = "approved"
  BY <1>1, <1>3, DecidedIsKept DEF Claimed, Undecided
<1>4. CASE pc[d] = "saveVerdict" /\ cmd[d].decision = "approve" /\ cmd[d].target = k
  <2>1. CASE d # c
    BY <1>1, <1>4, <2>1 DEF LeavesOthers
  <2>2. CASE d = c
    <3>1. SaveVerdict(c) /\ pc[c] \in SettleSteps
      BY <1>4, <2>2, SavesNext DEF SettleSteps
    <3>2. seen[c] \in ClaimRow /\ DOMAIN claim = Calls
      BY <1>1, <3>1, Settling DEF LedgerTypeOK, ClaimTypeOK, ClaimTablesOK
    <3>3. claim'[k] = [seen[c] EXCEPT !.status = "approved", !.decidedBy = cmd[c].operator,
                                      !.credited = cmd[c].amount, !.transferId = c]
      BY <1>4, <2>2, <3>1, <3>2 DEF SaveVerdict
    <3>4. claim'[k].status = "approved"
      BY <3>2, <3>3 DEF ClaimRow
    <3>5. claim'[k] \in ClaimRow
      BY <1>1, <3>1, <3>2, <3>3, Settling DEF ClaimRow, SettleCommand
    <3> QED
      BY <3>4, <3>5, NoRecordAssumption DEF Claimed
  <2> QED
    BY <2>1, <2>2
<1> QED
  BY <1>1, <1>2, <1>3, <1>4 DEF CreditedIsApproved

\* One decision credits a claim.
LEMMA StepKeepsCreditedByOne ==
  ASSUME OnceInv, NEW c \in Calls, Step(c)
  PROVE  CreditedByOne'
<1>1. /\ LedgerTypeOK /\ AloneOnIt /\ CopyIsCurrent
      /\ CreditedIsApproved /\ CreditedByOne
  BY DEF OnceInv, HandInv
<1>2. ASSUME NEW k \in Calls, NEW d \in Calls, NEW e \in Calls, d \in CreditsOf(k)',
             d \notin CreditsOf(k), e \in CreditsOf(k)', e # d
      PROVE  FALSE
  <2>1. d = c /\ pc[c] = "postClaim" /\ cmd[c].target = k
    BY <1>2, NewCredit
  <2>2. e \in CreditsOf(k)
    BY <1>2, <2>1, NewCredit
  <2>3. InHandBy(c, k)
    BY <2>1 DEF InHandBy, HandSteps, SettleSteps
  <2>4. claim[k].status # "approved"
    BY <1>1, <2>3 DEF CopyIsCurrent, Undecided
  <2>5. InHandBy(e, k)
    BY <1>1, <2>2, <2>4 DEF CreditedIsApproved, InHandBy, HandSteps, SettleSteps
  <2> QED
    BY <1>1, <1>2, <2>1, <2>3, <2>5 DEF AloneOnIt
<1> QED
  BY <1>1, <1>2 DEF CreditedByOne

\* With one operator at a time and no call stopping halfway, the payments and the credits
\* are those of the approvals, one each.
THEOREM OnceInvHolds ==
  ASSUME OneAtATime, ~ MayCrash
  PROVE  Spec => []OnceInv
<1>1. Init => PaidIsApproved /\ PaidByOne /\ CreditedIsApproved /\ CreditedByOne
  BY DEF Init, StoreInit, PaidIsApproved, PaidByOne, CreditedIsApproved, CreditedByOne, Payouts,
         CreditsOf
<1> DEFINE Once == PaidIsApproved /\ PaidByOne /\ CreditedIsApproved /\ CreditedByOne
<1>2. PostedInv /\ HandInv /\ Once /\ [Next]_vars => Once'
  <2> SUFFICES ASSUME OnceInv, [Next]_vars PROVE Once'
    BY DEF OnceInv
  <2>1. CASE Next
    BY <2>1, StepKeepsPaidApproved, StepKeepsPaidByOne, StepKeepsCreditedApproved,
       StepKeepsCreditedByOne DEF Next, Step
  <2>2. CASE UNCHANGED vars
    <3>1. UNCHANGED <<transfer, pc, cmd, seen, withdrawal, claim>>
      BY <2>2 DEF vars, storeVars, tables, callVars, withdrawalVars, claimVars
    <3>2. \A w : Payouts(w)' = Payouts(w) /\ CreditsOf(w)' = CreditsOf(w)
      BY <3>1 DEF Payouts, CreditsOf
    <3>3. \A c \in Calls : Completing(c)' <=> Completing(c)
      BY <3>1, SameDecision
    <3>4. PaidIsApproved' /\ PaidByOne'
      BY <3>1, <3>2, <3>3 DEF OnceInv, PaidIsApproved, PaidByOne, Exists
    <3>5. CreditedIsApproved' /\ CreditedByOne'
      BY <3>1, <3>2 DEF OnceInv, CreditedIsApproved, CreditedByOne, Claimed
    <3> QED
      BY <3>4, <3>5
  <2> QED
    BY <2>1, <2>2
<1>3. Once /\ PostedInv /\ HandInv <=> OnceInv
  BY DEF OnceInv
<1> QED
  BY <1>1, <1>2, <1>3, PostedInvHolds, HandInvHolds, PTL DEF Spec

\* What has no two different members has one member at most.
LEMMA AtMostOne ==
  ASSUME NEW S, \A x, y \in S : x = y
  PROVE  Cardinality(S) <= 1
<1>1. CASE S = {}
  BY <1>1, FS_EmptySet
<1>2. CASE S # {}
  <2>1. PICK x \in S : S = {x}
    BY <1>2
  <2> QED
    BY <2>1, FS_Singleton
<1> QED
  BY <1>1, <1>2

\* "A decided withdrawal cannot be decided again": with one operator at a time on a
\* withdrawal and no call stopping between the posting and the save, it is paid once at
\* most, and not at all once it is rejected.
THEOREM PaidOnce ==
  ASSUME OneAtATime, ~ MayCrash
  PROVE  Spec => []PaidAtMostOnce
<1>1. OnceInv => PaidAtMostOnce
  <2> SUFFICES ASSUME OnceInv, NEW w \in Calls
               PROVE  /\ Cardinality(Payouts(w)) <= 1
                      /\ Exists(w) /\ withdrawal[w].status = "rejected" => Payouts(w) = {}
    BY DEF PaidAtMostOnce
  <2>1. Payouts(w) \subseteq Calls
    BY DEF Payouts
  <2>2. Cardinality(Payouts(w)) <= 1
    BY <2>1, AtMostOne DEF OnceInv, PaidByOne
  <2>3. ASSUME withdrawal[w].status = "rejected", NEW c \in Payouts(w)
        PROVE  FALSE
    <3>1. pc[c] = "saveDecision" /\ cmd[c].target = w
      BY <2>1, <2>3 DEF OnceInv, PaidIsApproved
    <3> QED
      BY <2>1, <2>3, <3>1 DEF OnceInv, HandInv, StatusIsCurrent, SavePending, DecideSteps
  <2> QED
    BY <2>2, <2>3
<1> QED
  BY <1>1, OnceInvHolds, PTL

\* With one operator at a time on a claim and no call stopping between the posting and
\* the save, a claim is credited once at most, and not at all once it is rejected.
THEOREM CreditedOnce ==
  ASSUME OneAtATime, ~ MayCrash
  PROVE  Spec => []CreditedAtMostOnce
<1>1. OnceInv => CreditedAtMostOnce
  <2> SUFFICES ASSUME OnceInv, NEW k \in Calls
               PROVE  /\ Cardinality(CreditsOf(k)) <= 1
                      /\ Claimed(k) /\ claim[k].status = "rejected" => CreditsOf(k) = {}
    BY DEF CreditedAtMostOnce
  <2>1. CreditsOf(k) \subseteq Calls
    BY DEF CreditsOf
  <2>2. Cardinality(CreditsOf(k)) <= 1
    BY <2>1, AtMostOne DEF OnceInv, CreditedByOne
  <2>3. ASSUME claim[k].status = "rejected", NEW c \in CreditsOf(k)
        PROVE  FALSE
    <3>1. pc[c] = "saveVerdict" /\ cmd[c].target = k
      BY <2>1, <2>3 DEF OnceInv, CreditedIsApproved
    <3>2. InHandBy(c, k)
      BY <3>1 DEF InHandBy, HandSteps, SettleSteps
    <3> QED
      BY <2>1, <2>3, <3>2 DEF OnceInv, HandInv, CopyIsCurrent, Undecided
  <2> QED
    BY <2>2, <2>3
<1> QED
  BY <1>1, OnceInvHolds, PTL

----------------------------------------------------------------------------
(* A claim has its proof *)

\* The proof comes before its claim, and is taken away only by a submission that raised.
\* A claim in hand was on the table when it was read.
ProofInv ==
  /\ LedgerTypeOK
  /\ \A c \in Calls : /\ pc[c] = "saveClaim" => c \in proofs
                      /\ pc[c] # "removeProof"
                      /\ pc[c] \in HandSteps => cmd[c].target \in proofs
  /\ ClaimHasProof

\* Two steps touch the stored proofs: one adds the call's own, the other takes it away.
LEMMA WritersOfProofs ==
  ASSUME NEW c \in Calls, Step(c), pc[c] # "removeProof"
  PROVE  UNCHANGED proofs \/ proofs' = proofs \cup {c}
BY DEF Step, WithdrawalStep, ClaimStep, CrashStep, Submit, Mark, Settle, CreditDirectly,
       PutProof, SaveClaim, SaveClaimRaises, RemoveProof, ReadToMark, SaveMark, ReadToSettle,
       ReadClaimant, ReadCustody, PostClaim, SaveVerdict, ReadForCredit, ReadSource, PostCredit,
       claimVars

\* A call reaches the insert of its claim from the store of its proof, and nobody takes a
\* proof away unless an insert raised.
LEMMA SubmissionGoesOn ==
  ASSUME LedgerTypeOK, ~ RepliesMayFail, NEW c \in Calls, Step(c)
  PROVE  /\ pc'[c] = "saveClaim" => c \in proofs'
         /\ pc'[c] # "removeProof"
<1>1. \A how \in Ended : End(c, how) => pc'[c] \notin {"saveClaim", "removeProof"}
  BY EndEnds DEF Ended
<1>2. {"ok", "refused", "failed", "crashed"} \subseteq Ended
  BY DEF Ended
<1>3. CASE Request(c)
  BY <1>1, <1>2, <1>3, GoToGoes DEF Request, ReadForRequest, CheckGas, PlaceHold, FileRequest
<1>4. CASE Decide(c)
  BY <1>1, <1>2, <1>4, GoToGoes
  DEF Decide, ReadForDecision, ReadApprovals, ReadCustomer, ReleaseHold, ReadPayable, ReadFees,
      PostWithdrawal, SaveDecision, SaveApprovals
<1>5. CASE Submit(c)
  <2>1. ASSUME NEW u \in Users, NEW s \in Assets, NEW n \in Deposits, PutProof(c, u, s, n)
        PROVE  c \in proofs' /\ pc'[c] = "saveClaim"
    BY <2>1, GoToGoes DEF PutProof
  <2> QED
    BY <1>1, <1>2, <1>5, <2>1 DEF Submit, SaveClaim, SaveClaimRaises, RemoveProof
<1>6. CASE Mark(c)
  BY <1>1, <1>2, <1>6, GoToGoes DEF Mark, ReadToMark, Reading, SaveMark
<1>7. CASE Settle(c)
  <2>1. ASSUME NEW k \in Calls, NEW o \in Operators, NEW d \in {"approve", "reject"},
               NEW n \in Deposits \cup {0}, ReadToSettle(c, k, o, d, n)
        PROVE  pc'[c] \notin {"saveClaim", "removeProof"}
    BY <1>1, <1>2, <2>1, GoToGoes DEF ReadToSettle, Reading
  <2> QED
    BY <1>1, <1>2, <1>7, <2>1, GoToGoes
    DEF Settle, ReadClaimant, ReadCustody, PostClaim, SaveVerdict
<1>8. CASE CreditDirectly(c)
  BY <1>1, <1>2, <1>8, GoToGoes DEF CreditDirectly, ReadForCredit, ReadSource, PostCredit
<1>9. CASE CrashStep(c)
  BY <1>1, <1>2, <1>9 DEF CrashStep, CrashCall
<1> QED
  BY <1>3, <1>4, <1>5, <1>6, <1>7, <1>8, <1>9 DEF Step, WithdrawalStep, ClaimStep

\* The proof of a claim is uploaded before the claim is filed.
LEMMA StepKeepsProofs ==
  ASSUME ~ RepliesMayFail, ProofInv, NEW c \in Calls, Step(c)
  PROVE  ProofInv'
<1>1. LedgerTypeOK /\ LedgerTypeOK' /\ LeavesOthers(c)
  BY StepLeavesOthers DEF ProofInv
<1>2. proofs \subseteq proofs'
  BY WritersOfProofs DEF ProofInv
<1>3. ASSUME NEW d \in Calls
      PROVE  /\ pc'[d] = "saveClaim" => d \in proofs'
             /\ pc'[d] # "removeProof"
             /\ pc'[d] \in HandSteps => cmd'[d].target \in proofs'
  <2>1. CASE d # c
    BY <1>1, <1>2, <2>1 DEF ProofInv, LeavesOthers
  <2>2. CASE d = c
    <3>1. pc'[c] \in HandSteps => cmd'[c].target \in proofs'
      BY <1>1, <1>2, HandGoesOn DEF ProofInv, ClaimHasProof, Claimed, CreditingSteps, HandSteps
    <3> QED
      BY <1>1, <2>2, <3>1, SubmissionGoesOn
  <2> QED
    BY <2>1, <2>2
<1>4. ASSUME NEW k \in Calls, claim'[k] # None PROVE k \in proofs'
  <2>1. CASE claim[k] # None
    BY <1>2, <2>1 DEF ProofInv, ClaimHasProof, Claimed
  <2>2. CASE claim'[k] # claim[k]
    BY <1>1, <1>2, <2>2, WrittenClaims DEF ProofInv, InHandBy
  <2> QED
    BY <1>4, <2>1, <2>2
<1> QED
  BY <1>1, <1>3, <1>4 DEF ProofInv, ClaimHasProof, Claimed

\* As long as no insert of a claim raises, the image an operator decides by is there while
\* the claim is, whoever marks or decides the claim, and in whatever order, meanwhile.
THEOREM ClaimsHaveProofs ==
  ASSUME ~ RepliesMayFail
  PROVE  Spec => []ClaimHasProof
<1>1. Init => ProofInv
  BY TypeInit DEF Init, StoreInit, ClaimInit, ProofInv, ClaimHasProof, Claimed, HandSteps,
                  SettleSteps
<1>2. ProofInv /\ [Next]_vars => ProofInv'
  <2> SUFFICES ASSUME ProofInv, [Next]_vars PROVE ProofInv'
    OBVIOUS
  <2>1. CASE Next
    BY <2>1, StepKeepsProofs DEF Next, Step
  <2>2. CASE UNCHANGED vars
    <3>1. LedgerTypeOK'
      BY <2>2 DEF vars, storeVars, tables, callVars, withdrawalVars, claimVars, LedgerTypeOK,
         WithdrawalTypeOK, ClaimTypeOK, StoreTypeOK, WithdrawalTablesOK, ClaimTablesOK,
         WithdrawalCallOK, ClaimCallOK, ProofInv
    <3> QED
      BY <2>2, <3>1 DEF vars, storeVars, callVars, claimVars, ProofInv, ClaimHasProof, Claimed
  <2> QED
    BY <2>1, <2>2
<1>3. ProofInv => ClaimHasProof
  BY DEF ProofInv
<1> QED
  BY <1>1, <1>2, <1>3, PTL DEF Spec
=============================================================================

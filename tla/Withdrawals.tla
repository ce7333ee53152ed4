---------------------------- MODULE Withdrawals ----------------------------
(***************************************************************************)
(* requestWithdrawal and decideWithdrawal, run by any number of customers  *)
(* and operators at once over the tables of LedgerStore, and the           *)
(* withdrawals and withdrawal_approvals tables behind them.                *)
(*                                                                         *)
(* The commands enumerated are those that pass the checks no table is      *)
(* needed for (a listed asset and network, a well-formed destination, a    *)
(* positive amount, a stated reason): the others end with nothing read.    *)
(***************************************************************************)
EXTENDS LedgerStore

CONSTANTS
  Amounts,            \* the amounts a customer asks for
  Fee,                \* Fee[s]: the network fee, in asset s
  NativeAsset,        \* NativeAsset[s]: the asset the network of s charges its fee in
  ApprovalsRequired   \* APPROVALS_REQUIRED

ASSUME AmountsAssumption == Amounts \subseteq Nat \ {0}
ASSUME FeeAssumption == Fee \in [Assets -> Nat]
ASSUME NativeAssumption == NativeAsset \in [Assets -> Assets]
ASSUME ApprovalsAssumption == ApprovalsRequired \in Nat \ {0}

VARIABLES
  withdrawal,  \* withdrawal[w]: the row of withdrawal w, or None
  signed       \* signed[w]: the operators with a row in withdrawal_approvals

withdrawalVars == <<withdrawal, signed>>

RequestCommand == [op : {"request"}, user : Users, asset : Assets, amount : Amounts]
DecideCommand == [op : {"decide"}, target : Calls, operator : Operators,
                  decision : {"approve", "reject"}]

WithdrawalRow == [user : Users, asset : Assets, amount : Amounts,
                  status : {"pending", "approved", "rejected"},
                  decidedBy : Operators \cup {None}]
WithdrawalSeen == [row : WithdrawalRow, approvals : SUBSET Operators]

RequestSteps == {"checkGas", "placeHold", "fileRequest"}
DecideSteps == {"readApprovals", "readCustomer", "releaseHold", "readPayable", "readFees",
                "postWithdrawal", "saveDecision", "saveApprovals"}

Customer(w) == <<w.user, w.asset>>
TotalReserved(w) == w.amount + Fee[w.asset]
PayableId(s) == <<"payable", s>>
FeesId(s) == <<"fees", s>>
NeedsGas(s) == NativeAsset[s] # s

----------------------------------------------------------------------------
(* requestWithdrawal *)

\* The balance is read; a request it does not cover ends here.
ReadForRequest(c, u, s, n) ==
  /\ pc[c] = "idle"
  /\ IF Available(account[<<u, s>>]) < n + Fee[s]
     THEN End(c, "refused")
     ELSE /\ FindOrOpen(c, <<u, s>>)
          /\ cmd' = [cmd EXCEPT ![c] = [op |-> "request", user |-> u, asset |-> s, amount |-> n]]
          /\ GoTo(c, IF NeedsGas(s) THEN "checkGas" ELSE "placeHold")
          /\ UNCHANGED seen
  /\ UNCHANGED <<tables, withdrawalVars>>

\* A token cannot pay its own network fee: some balance of the native coin must be
\* free.  That row is looked at, and neither kept nor reserved.
CheckGas(c) ==
  /\ pc[c] = "checkGas"
  /\ IF Available(account[<<cmd[c].user, NativeAsset[cmd[c].asset]>>]) > 0
     THEN GoTo(c, "placeHold") /\ UNCHANGED <<cmd, mem, seen>>
     ELSE End(c, "refused")
  /\ UNCHANGED <<tables, withdrawalVars>>

\* After the price lookup: the hold goes onto the row read before it, and is written
\* under that row's version.
PlaceHold(c) ==
  LET a == Customer(cmd[c])
      total == TotalReserved(cmd[c])
  IN /\ pc[c] = "placeHold"
     /\ IF Available(mem[c][a]) >= total /\ CanSave(c, a)
        THEN /\ SaveAccount(a, Hold(mem[c][a], total))
             /\ GoTo(c, "fileRequest")
             /\ UNCHANGED <<cmd, mem, seen>>
        ELSE End(c, "failed") /\ UNCHANGED tables
     /\ UNCHANGED withdrawalVars

\* The second write of the request: only now does the withdrawal exist.
FileRequest(c) ==
  /\ pc[c] = "fileRequest"
  /\ withdrawal' = [withdrawal EXCEPT
       ![c] = [user |-> cmd[c].user, asset |-> cmd[c].asset, amount |-> cmd[c].amount,
               status |-> "pending", decidedBy |-> None]]
  /\ End(c, "ok")
  /\ UNCHANGED <<tables, signed>>

----------------------------------------------------------------------------
(* decideWithdrawal *)

BeingDecided(w) ==
  \E d \in Calls : pc[d] \in DecideSteps /\ cmd[d].target = w

\* withdrawals.find, its first query: the row.
ReadForDecision(c, w, o, d) ==
  /\ pc[c] = "idle"
  /\ OneAtATime => ~BeingDecided(w)
  /\ IF withdrawal[w] = None
     THEN End(c, "refused")
     ELSE /\ seen' = [seen EXCEPT ![c] = [row |-> withdrawal[w], approvals |-> {}]]
          /\ cmd' = [cmd EXCEPT
               ![c] = [op |-> "decide", target |-> w, operator |-> o, decision |-> d]]
          /\ GoTo(c, "readApprovals")
          /\ UNCHANGED mem
  /\ UNCHANGED <<tables, withdrawalVars>>

\* Mutant: the status is not looked at.
ReadApprovalsAnyStatus(c) ==
  /\ pc[c] = "readApprovals"
  /\ seen' = [seen EXCEPT ![c].approvals = signed[cmd[c].target]]
  /\ GoTo(c, "readCustomer")
  /\ UNCHANGED <<tables, cmd, mem, withdrawalVars>>

\* Its second query: the approvals, which may have moved on from the row.  A row that
\* was decided when it was read is not decided again.
ReadApprovals(c) ==
  /\ pc[c] = "readApprovals"
  /\ IF seen[c].row.status # "pending"
     THEN End(c, "refused")
     ELSE /\ seen' = [seen EXCEPT ![c].approvals = signed[cmd[c].target]]
          /\ GoTo(c, "readCustomer")
          /\ UNCHANGED <<cmd, mem>>
  /\ UNCHANGED <<tables, withdrawalVars>>

\* The approvals the withdrawal will carry once call c is through with it, and
\* whether they complete it (Withdrawal.approve).
ApprovalsWith(c) ==
  seen[c].approvals \cup (IF cmd[c].decision = "approve" THEN {cmd[c].operator} ELSE {})
Complete(c) == Cardinality(ApprovalsWith(c)) >= ApprovalsRequired

\* The customer's account is read after the withdrawal, however long after.  An
\* operator's second signature is refused; an incomplete set of them moves nothing.
ReadCustomer(c) ==
  /\ pc[c] = "readCustomer"
  /\ IF cmd[c].decision = "approve" /\ cmd[c].operator \in seen[c].approvals
     THEN End(c, "refused")
     ELSE /\ FindOrOpen(c, Customer(seen[c].row))
          /\ GoTo(c, IF cmd[c].decision = "reject" THEN "releaseHold"
                     ELSE IF Complete(c) THEN "readPayable" ELSE "saveDecision")
          /\ UNCHANGED <<cmd, seen>>
  /\ UNCHANGED <<tables, withdrawalVars>>

\* A rejection gives the hold back; release throws when it is not there to give.
ReleaseHold(c) ==
  LET a == Customer(seen[c].row)
      total == TotalReserved(seen[c].row)
  IN /\ pc[c] = "releaseHold"
     /\ IF mem[c][a].held >= total /\ CanSave(c, a)
        THEN /\ SaveAccount(a, Release(mem[c][a], total))
             /\ GoTo(c, "saveDecision")
             /\ UNCHANGED <<cmd, mem, seen>>
        ELSE End(c, "failed") /\ UNCHANGED tables
     /\ UNCHANGED withdrawalVars

ReadPayable(c) ==
  /\ pc[c] = "readPayable"
  /\ FindOrOpen(c, PayableId(seen[c].row.asset))
  /\ GoTo(c, "readFees")
  /\ UNCHANGED <<tables, cmd, seen, withdrawalVars>>

ReadFees(c) ==
  /\ pc[c] = "readFees"
  /\ FindOrOpen(c, FeesId(seen[c].row.asset))
  /\ GoTo(c, "postWithdrawal")
  /\ UNCHANGED <<tables, cmd, seen, withdrawalVars>>

\* The transfer of an approved withdrawal: amount to payable, fee to fees.
WithdrawalEntries(w) ==
  [NoEntries EXCEPT ![Customer(w)] = -TotalReserved(w),
                    ![PayableId(w.asset)] = w.amount,
                    ![FeesId(w.asset)] = Fee[w.asset]]

\* Mutant: the hold is not consumed by the debit.
WithdrawalRowsKeepingHold(c, w) ==
  [a \in {Customer(w), PayableId(w.asset), FeesId(w.asset)} |->
     ApplyDelta(mem[c][a], WithdrawalEntries(w)[a])]

\* The three rows it leaves: the debit consumes the hold it was reserved by.
WithdrawalRows(c, w) ==
  [a \in {Customer(w), PayableId(w.asset), FeesId(w.asset)} |->
     IF a = Customer(w)
     THEN ApplyDelta(Release(mem[c][a], TotalReserved(w)), -TotalReserved(w))
     ELSE ApplyDelta(mem[c][a], IF a = FeesId(w.asset) THEN Fee[w.asset] ELSE w.amount)]

\* Mutant: a failed post does not stop the decision from being saved.
PostWithdrawalSwallowed(c) ==
  LET w == seen[c].row
      entries == WithdrawalEntries(w)
      rows == WithdrawalRows(c, w)
  IN /\ pc[c] = "postWithdrawal"
     /\ IF CanPost(c, entries, rows)
        THEN Post(c, "withdrawal", cmd[c].target, entries, rows)
        ELSE UNCHANGED tables
     /\ GoTo(c, "saveDecision")
     /\ UNCHANGED <<cmd, mem, seen, withdrawalVars>>

\* The money moves, all of it or none.
PostWithdrawal(c) ==
  LET w == seen[c].row
      a == Customer(w)
      entries == WithdrawalEntries(w)
      rows == WithdrawalRows(c, w)
  IN /\ pc[c] = "postWithdrawal"
     /\ IF /\ mem[c][a].held >= TotalReserved(w)
           /\ MayApply(a, mem[c][a], -TotalReserved(w))
           /\ CanPost(c, entries, rows)
        THEN /\ Post(c, "withdrawal", cmd[c].target, entries, rows)
             /\ GoTo(c, "saveDecision")
             /\ UNCHANGED <<cmd, mem, seen>>
        ELSE End(c, "failed") /\ UNCHANGED tables
     /\ UNCHANGED withdrawalVars

\* withdrawals.save: the decision fields are overwritten, whatever they hold by now.
\* No version is compared.
SaveDecision(c) ==
  LET w == cmd[c].target
  IN /\ pc[c] = "saveDecision"
     /\ withdrawal' =
          IF cmd[c].decision = "reject"
          THEN [withdrawal EXCEPT ![w].status = "rejected", ![w].decidedBy = cmd[c].operator]
          ELSE IF Complete(c)
          THEN [withdrawal EXCEPT ![w].status = "approved", ![w].decidedBy = cmd[c].operator]
          ELSE [withdrawal EXCEPT ![w].status = "pending", ![w].decidedBy = None]
     /\ IF ApprovalsWith(c) = {} THEN End(c, "ok")
        ELSE GoTo(c, "saveApprovals") /\ UNCHANGED <<cmd, mem, seen>>
     /\ UNCHANGED <<tables, signed>>

\* The signatures follow in a statement of their own; those already there stay.
SaveApprovals(c) ==
  /\ pc[c] = "saveApprovals"
  /\ signed' = [signed EXCEPT ![cmd[c].target] = @ \cup ApprovalsWith(c)]
  /\ End(c, "ok")
  /\ UNCHANGED <<tables, withdrawal>>

----------------------------------------------------------------------------
WithdrawalInit ==
  /\ withdrawal = [c \in Calls |-> None]
  /\ signed = [c \in Calls |-> {}]

Request(c) ==
  \/ \E u \in Users, s \in Assets, n \in Amounts : ReadForRequest(c, u, s, n)
  \/ CheckGas(c)
  \/ PlaceHold(c)
  \/ FileRequest(c)

Decide(c) ==
  \/ \E w \in Calls, o \in Operators, d \in {"approve", "reject"} : ReadForDecision(c, w, o, d)
  \/ ReadApprovals(c)
  \/ ReadCustomer(c)
  \/ ReleaseHold(c)
  \/ ReadPayable(c)
  \/ ReadFees(c)
  \/ PostWithdrawal(c)
  \/ SaveDecision(c)
  \/ SaveApprovals(c)

WithdrawalNext ==
  \E c \in Calls : Request(c) \/ Decide(c) \/ (CrashCall(c) /\ UNCHANGED withdrawalVars)

\* Withdrawals on their own, with no deposits arriving.
WithdrawalSpecInit == StoreInit /\ WithdrawalInit
WithdrawalSpec == WithdrawalSpecInit /\ [][WithdrawalNext]_<<storeVars, withdrawalVars>>

----------------------------------------------------------------------------
(* Properties *)

WithdrawalCallOK(c) ==
  /\ pc[c] \in RequestSteps => cmd[c] \in RequestCommand
  /\ pc[c] \in DecideSteps => /\ cmd[c] \in DecideCommand /\ seen[c] \in WithdrawalSeen
                              /\ withdrawal[cmd[c].target] \in WithdrawalRow

WithdrawalTablesOK ==
  /\ withdrawal \in [Calls -> WithdrawalRow \cup {None}]
  /\ signed \in [Calls -> SUBSET Operators]

WithdrawalTypeOK ==
  StoreTypeOK /\ WithdrawalTablesOK /\ \A c \in Calls : WithdrawalCallOK(c)

Exists(w) == withdrawal[w] # None
Payouts(w) == {c \in Calls : transfer[c] # None /\ transfer[c].kind = "withdrawal"
                                              /\ transfer[c].subject = w}

\* A withdrawal that reads as approved has been paid: the money is posted before the
\* approval is saved, and no interleaving, crash or stale save undoes that order.
ApprovedWasPaid ==
  \A w \in Calls : Exists(w) /\ withdrawal[w].status = "approved" => Payouts(w) # {}

\* "A decided withdrawal cannot be decided again" (architecture.md): no withdrawal is
\* paid twice, and a rejected one is not paid at all.
PaidAtMostOnce ==
  \A w \in Calls :
    /\ Cardinality(Payouts(w)) <= 1
    /\ Exists(w) /\ withdrawal[w].status = "rejected" => Payouts(w) = {}

\* The decision a customer has been told does not change afterwards.
DecisionStands ==
  [][\A w \in Calls :
       Exists(w) /\ withdrawal[w].status # "pending"
         => withdrawal'[w].status = withdrawal[w].status]_withdrawal

\* Withdrawal w has a claim on the hold: it is filed or about to be, and no decision
\* has consumed or released the hold yet.
Reserving(w) ==
  \/ pc[w] = "fileRequest"
  \/ /\ Exists(w) /\ withdrawal[w].status = "pending"
     /\ ~ \E d \in Calls : /\ pc[d] = "saveDecision" /\ cmd[d].target = w
                           /\ cmd[d].decision = "reject" \/ Complete(d)
ReservedBy(w, a) ==
  LET r == IF pc[w] = "fileRequest" THEN cmd[w] ELSE withdrawal[w]
  IN IF Reserving(w) /\ Customer(r) = a THEN TotalReserved(r) ELSE 0

\* What is held on an account is exactly what its undecided withdrawals reserve: no
\* hold outlives its withdrawal, and no withdrawal waits without its hold.
HeldIsWhatIsPending ==
  \A a \in CustomerIds :
    account[a].held = SumFunction([w \in Calls |-> ReservedBy(w, a)])
============================================================================

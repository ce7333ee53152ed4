------------------------- MODULE LedgerBooksProofs -------------------------
(***************************************************************************)
(* Why money is safe under any interleaving: a call writes a row only      *)
(* under the version it read, so what it computed from its copy is what    *)
(* it would have computed from the table.  From that, every step of the    *)
(* ledger is a step of the abstract ledger of Bookkeeping, and what the    *)
(* abstract ledger never does to a balance, the ledger never does.         *)
(*                                                                         *)
(* The types come first.  A step belongs to one call: lemmas say what each *)
(* way of moving on does to that call and that it leaves the others alone; *)
(* the type invariant is then shown action by action.                      *)
(***************************************************************************)
EXTENDS Ledger, TLAPS

----------------------------------------------------------------------------
(* Types *)

\* A step that is no step of the calls other than c.
LeavesOthers(c) ==
  \A d \in Calls \ {c} : /\ pc'[d] = pc[d] /\ cmd'[d] = cmd[d]
                         /\ mem'[d] = mem[d] /\ seen'[d] = seen[d]

\* A withdrawal, once filed, is never taken off the table.
KeepsWithdrawals ==
  \A w \in Calls : withdrawal[w] \in WithdrawalRow => withdrawal'[w] \in WithdrawalRow

\* What has to be shown of one step of call c for the type invariant.
TypedStep(c) ==
  /\ StoreTypeOK' /\ WithdrawalTablesOK' /\ ClaimTablesOK'
  /\ WithdrawalCallOK(c)' /\ ClaimCallOK(c)'
  /\ LeavesOthers(c) /\ KeepsWithdrawals

----------------------------------------------------------------------------
(* Rows and account ids *)

\* The arithmetic of LedgerAccount keeps a row a row, and leaves its version alone.
LEMMA RowArithmetic ==
  ASSUME NEW row \in Row, NEW n \in Int
  PROVE  /\ Hold(row, n) \in Row /\ Release(row, n) \in Row /\ ApplyDelta(row, n) \in Row
         /\ Hold(row, n).version = row.version
         /\ Release(row, n).version = row.version
         /\ ApplyDelta(row, n).version = row.version
         /\ Available(row) \in Int
BY DEF Row, Hold, Release, ApplyDelta, Available

\* updateBalance keeps the figures it is given and moves the version on by one.
LEMMA BumpedRow ==
  ASSUME NEW row \in Row
  PROVE  /\ Bumped(row) \in Row
         /\ Bumped(row).version = row.version + 1
         /\ Bumped(row).balance = row.balance
         /\ Bumped(row).held = row.held
BY DEF Row, Bumped

\* The memory of a call that has read nothing is a memory.
LEMMA NothingReadTyped == NothingRead \in [AccountIds -> Row]
<1>1. Unread \in Row
  BY DEF Unread, Row
<1> QED
  BY <1>1 DEF NothingRead

\* Customers and platform purposes share no account.
LEMMA IdsTyped ==
  /\ \A u \in Users, s \in Assets : <<u, s>> \in CustomerIds /\ <<u, s>> \in AccountIds
  /\ \A p \in Platform, s \in Assets : <<p, s>> \in AccountIds /\ <<p, s>> \notin CustomerIds
  /\ CustomerIds \subseteq AccountIds
BY OwnersAssumption DEF CustomerIds, AccountIds, Owners, Platform

----------------------------------------------------------------------------
(* How a call moves on *)

\* Going to the next await moves the call and no other.
LEMMA GoToMoves ==
  ASSUME DOMAIN pc = Calls, NEW c \in Calls, NEW where, GoTo(c, where)
  PROVE  /\ DOMAIN pc' = Calls /\ pc'[c] = where
         /\ \A d \in Calls \ {c} : pc'[d] = pc[d]
BY DEF GoTo

\* Reading an account puts that one row into the memory of that one call.
LEMMA FindOrOpenReads ==
  ASSUME StoreTypeOK, NEW c \in Calls, NEW a \in AccountIds, FindOrOpen(c, a)
  PROVE  /\ mem' \in [Calls -> [AccountIds -> Row]]
         /\ mem'[c][a] = account[a]
         /\ \A b \in AccountIds \ {a} : mem'[c][b] = mem[c][b]
         /\ \A d \in Calls \ {c} : mem'[d] = mem[d]
BY DEF FindOrOpen, StoreTypeOK

\* A call that ends leaves nothing of itself but the tables.
LEMMA EndForgets ==
  ASSUME StoreTypeOK, NEW c \in Calls, NEW how \in Ended, End(c, how)
  PROVE  /\ mem' \in [Calls -> [AccountIds -> Row]] /\ mem'[c] = NothingRead
         /\ DOMAIN pc' = Calls /\ DOMAIN cmd' = Calls /\ DOMAIN seen' = Calls
         /\ WithdrawalCallOK(c)' /\ ClaimCallOK(c)' /\ LeavesOthers(c)
<1>1. mem' \in [Calls -> [AccountIds -> Row]] /\ mem'[c] = NothingRead
  BY NothingReadTyped DEF End, StoreTypeOK
<1>2. /\ DOMAIN pc' = Calls /\ DOMAIN cmd' = Calls /\ DOMAIN seen' = Calls
      /\ pc'[c] = how
      /\ LeavesOthers(c)
  BY DEF End, StoreTypeOK, LeavesOthers
<1>3. WithdrawalCallOK(c)' /\ ClaimCallOK(c)'
  BY <1>2 DEF WithdrawalCallOK, ClaimCallOK, Ended, RequestSteps, DecideSteps, SubmitSteps,
              CreditSteps, SettleSteps
<1> QED
  BY <1>1, <1>2, <1>3

\* A call that ends with the tables as they are is a typed step.
LEMMA EndTyped ==
  ASSUME LedgerTypeOK, NEW c \in Calls, NEW how \in Ended, End(c, how),
         UNCHANGED <<tables, withdrawalVars, claimVars>>
  PROVE  TypedStep(c)
BY EndForgets DEF LedgerTypeOK, WithdrawalTypeOK, ClaimTypeOK, StoreTypeOK, WithdrawalTablesOK,
                  ClaimTablesOK, TypedStep, KeepsWithdrawals, tables, withdrawalVars, claimVars

\* Writing rows to accounts leaves a table of rows.
LEMMA UpdateTyped ==
  ASSUME NEW rows, DOMAIN rows \subseteq AccountIds, StoreTypeOK,
         \A a \in DOMAIN rows : rows[a] \in Row, UpdateBalance(rows)
  PROVE  account' \in [AccountIds -> Row]
BY BumpedRow DEF UpdateBalance, StoreTypeOK

\* The type invariant holds when the ledger opens.
THEOREM TypeInit == Init => LedgerTypeOK
<1> SUFFICES ASSUME Init PROVE LedgerTypeOK
  OBVIOUS
<1> USE DEF Init, StoreInit, WithdrawalInit, ClaimInit
<1>1. StoreTypeOK
  <2>1. account \in [AccountIds -> Row]
    BY OpeningAssumption DEF Row
  <2>2. mem \in [Calls -> [AccountIds -> Row]]
    BY NothingReadTyped
  <2> QED
    BY <2>1, <2>2 DEF StoreTypeOK
<1>2. WithdrawalTablesOK /\ ClaimTablesOK
  BY DEF WithdrawalTablesOK, ClaimTablesOK
<1>3. \A c \in Calls : WithdrawalCallOK(c) /\ ClaimCallOK(c)
  BY DEF WithdrawalCallOK, ClaimCallOK, RequestSteps, DecideSteps, SubmitSteps, CreditSteps,
         SettleSteps
<1> QED
  BY <1>1, <1>2, <1>3 DEF LedgerTypeOK, WithdrawalTypeOK, ClaimTypeOK

\* A call that goes on within its use case, keeping its command and its copy, is typed
\* if what it wrote to the tables and to its memory is.
LEMMA MoveOnTyped ==
  ASSUME LedgerTypeOK, NEW c \in Calls, NEW where, GoTo(c, where), UNCHANGED <<cmd, seen>>,
         \/ pc[c] \in RequestSteps /\ where \in RequestSteps
         \/ pc[c] \in DecideSteps /\ where \in DecideSteps
         \/ pc[c] \in SubmitSteps /\ where \in SubmitSteps
         \/ pc[c] \in SettleSteps /\ where \in SettleSteps
         \/ pc[c] \in CreditSteps /\ where \in CreditSteps,
         where = "postClaim" => cmd[c].amount # 0,
         account' \in [AccountIds -> Row], transfer' \in [Calls -> TransferRow \cup {None}],
         mem' \in [Calls -> [AccountIds -> Row]], \A d \in Calls \ {c} : mem'[d] = mem[d],
         WithdrawalTablesOK', ClaimTablesOK', KeepsWithdrawals
  PROVE  TypedStep(c)
<1> USE DEF LedgerTypeOK, WithdrawalTypeOK, ClaimTypeOK
<1>1. StoreTypeOK
  OBVIOUS
<1>2. DOMAIN pc' = Calls /\ pc'[c] = where /\ \A d \in Calls \ {c} : pc'[d] = pc[d]
  BY <1>1, GoToMoves DEF StoreTypeOK
<1>3. StoreTypeOK' /\ LeavesOthers(c)
  BY <1>1, <1>2 DEF StoreTypeOK, LeavesOthers
<1>4. WithdrawalCallOK(c)' /\ ClaimCallOK(c)'
  BY <1>2 DEF WithdrawalCallOK, ClaimCallOK, RequestSteps, DecideSteps, SubmitSteps,
              CreditSteps, SettleSteps, KeepsWithdrawals, DecideCommand
<1> QED
  BY <1>3, <1>4 DEF TypedStep

\* Reading one more account on the way is a typed step.
LEMMA ReadOnTyped ==
  ASSUME LedgerTypeOK, NEW c \in Calls, NEW a \in AccountIds, NEW where,
         FindOrOpen(c, a), GoTo(c, where),
         UNCHANGED <<tables, cmd, seen, withdrawalVars, claimVars>>,
         \/ pc[c] \in DecideSteps /\ where \in DecideSteps
         \/ pc[c] \in SettleSteps /\ where \in SettleSteps
         \/ pc[c] \in CreditSteps /\ where \in CreditSteps,
         where = "postClaim" => cmd[c].amount # 0
  PROVE  TypedStep(c)
<1>1. StoreTypeOK /\ WithdrawalTablesOK /\ ClaimTablesOK
  BY DEF LedgerTypeOK, WithdrawalTypeOK, ClaimTypeOK
<1>2. WithdrawalTablesOK' /\ ClaimTablesOK' /\ KeepsWithdrawals
  BY <1>1 DEF WithdrawalTablesOK, ClaimTablesOK, KeepsWithdrawals, withdrawalVars, claimVars
<1>3. /\ mem' \in [Calls -> [AccountIds -> Row]]
      /\ \A d \in Calls \ {c} : mem'[d] = mem[d]
  BY <1>1, FindOrOpenReads
<1>4. account' \in [AccountIds -> Row] /\ transfer' \in [Calls -> TransferRow \cup {None}]
  BY <1>1 DEF StoreTypeOK, tables
<1> QED
  BY <1>2, <1>3, <1>4, MoveOnTyped

\* The figures of a withdrawal are amounts, and its accounts exist.
LEMMA WithdrawalFigures ==
  ASSUME NEW w \in RequestCommand \cup WithdrawalRow
  PROVE  /\ Customer(w) \in CustomerIds /\ Customer(w) \in AccountIds
         /\ PayableId(w.asset) \in AccountIds \ CustomerIds
         /\ FeesId(w.asset) \in AccountIds \ CustomerIds
         /\ w.amount \in Nat \ {0} /\ Fee[w.asset] \in Nat
         /\ TotalReserved(w) \in Nat \ {0} /\ TotalReserved(w) = w.amount + Fee[w.asset]
<1>1. w.user \in Users /\ w.asset \in Assets /\ w.amount \in Amounts
  BY DEF RequestCommand, WithdrawalRow
<1>2. w.amount \in Nat \ {0} /\ Fee[w.asset] \in Nat
  BY <1>1, AmountsAssumption, FeeAssumption
<1>3. {"payable", "fees"} \subseteq Platform
  BY DEF Platform
<1> QED
  BY <1>1, <1>2, <1>3, IdsTyped DEF Customer, PayableId, FeesId, TotalReserved

----------------------------------------------------------------------------
(* The steps of requestWithdrawal *)

\* Reading the balance for a request is a typed step.
LEMMA ReadForRequestTyped ==
  ASSUME LedgerTypeOK, NEW c \in Calls, NEW u \in Users, NEW s \in Assets, NEW n \in Amounts,
         ReadForRequest(c, u, s, n), UNCHANGED claimVars
  PROVE  TypedStep(c)
<1> USE DEF LedgerTypeOK, WithdrawalTypeOK, ClaimTypeOK
<1>1. CASE End(c, "refused")
  BY <1>1, EndTyped DEF ReadForRequest, Ended
<1>2. CASE ~ End(c, "refused")
  <2>1. /\ FindOrOpen(c, <<u, s>>)
        /\ cmd' = [cmd EXCEPT ![c] = [op |-> "request", user |-> u, asset |-> s, amount |-> n]]
        /\ GoTo(c, IF NeedsGas(s) THEN "checkGas" ELSE "placeHold")
        /\ UNCHANGED <<account, transfer, withdrawal, signed, claim, proofs, seen>>
    BY <1>2 DEF ReadForRequest, tables, withdrawalVars, claimVars
  <2>2. /\ pc'[c] \in {"checkGas", "placeHold"} /\ DOMAIN pc' = Calls
        /\ \A d \in Calls \ {c} : pc'[d] = pc[d]
    BY <2>1, GoToMoves DEF StoreTypeOK
  <2>3. /\ mem' \in [Calls -> [AccountIds -> Row]]
        /\ \A d \in Calls \ {c} : mem'[d] = mem[d]
    BY <2>1, IdsTyped, FindOrOpenReads
  <2>4. StoreTypeOK' /\ WithdrawalTablesOK' /\ ClaimTablesOK' /\ LeavesOthers(c)
    BY <2>1, <2>2, <2>3 DEF StoreTypeOK, WithdrawalTablesOK, ClaimTablesOK, KeepsWithdrawals, LeavesOthers
  <2>5. cmd'[c] \in RequestCommand
    BY <2>1 DEF StoreTypeOK, RequestCommand
  <2>6. WithdrawalCallOK(c)' /\ ClaimCallOK(c)'
    BY <2>2, <2>5 DEF WithdrawalCallOK, ClaimCallOK, RequestSteps, DecideSteps, SubmitSteps,
                      CreditSteps, SettleSteps
  <2> QED
    BY <2>1, <2>4, <2>6 DEF TypedStep, KeepsWithdrawals
<1> QED
  BY <1>1, <1>2

\* Looking at the native coin is a typed step.
LEMMA CheckGasTyped ==
  ASSUME LedgerTypeOK, NEW c \in Calls, CheckGas(c), UNCHANGED claimVars
  PROVE  TypedStep(c)
<1>1. CASE End(c, "refused")
  BY <1>1, EndTyped DEF CheckGas, Ended
<1>2. CASE ~ End(c, "refused")
  <2>1. /\ pc[c] = "checkGas" /\ GoTo(c, "placeHold")
        /\ UNCHANGED <<account, transfer, withdrawal, signed, claim, proofs, cmd, mem, seen>>
    BY <1>2 DEF CheckGas, tables, withdrawalVars, claimVars
  <2> QED
    BY <2>1, MoveOnTyped
    DEF LedgerTypeOK, WithdrawalTypeOK, ClaimTypeOK, StoreTypeOK, WithdrawalTablesOK,
        ClaimTablesOK, KeepsWithdrawals, RequestSteps
<1> QED
  BY <1>1, <1>2

\* Placing the hold is a typed step.
LEMMA PlaceHoldTyped ==
  ASSUME LedgerTypeOK, NEW c \in Calls, PlaceHold(c), UNCHANGED claimVars
  PROVE  TypedStep(c)
<1> DEFINE a == Customer(cmd[c])
           total == TotalReserved(cmd[c])
<1>1. StoreTypeOK /\ WithdrawalTablesOK /\ ClaimTablesOK /\ WithdrawalCallOK(c)
  BY DEF LedgerTypeOK, WithdrawalTypeOK, ClaimTypeOK
<1>2. pc[c] = "placeHold" /\ cmd[c] \in RequestCommand
  BY <1>1 DEF PlaceHold, WithdrawalCallOK, RequestSteps
<1>3. a \in AccountIds /\ total \in Int /\ mem[c][a] \in Row
  BY <1>1, <1>2, WithdrawalFigures DEF StoreTypeOK
<1>4. CASE End(c, "failed") /\ UNCHANGED tables
  BY <1>4, EndTyped DEF PlaceHold, Ended
<1>5. CASE ~ (End(c, "failed") /\ UNCHANGED tables)
  <2>1. /\ SaveAccount(a, Hold(mem[c][a], total)) /\ GoTo(c, "fileRequest")
        /\ UNCHANGED <<withdrawal, signed, claim, proofs, cmd, mem, seen>>
    BY <1>5 DEF PlaceHold, withdrawalVars, claimVars
  <2>2. account' \in [AccountIds -> Row] /\ UNCHANGED transfer
    BY <1>1, <1>3, <2>1, UpdateTyped, RowArithmetic DEF SaveAccount
  <2> QED
    BY <1>1, <1>2, <2>1, <2>2, MoveOnTyped
    DEF StoreTypeOK, WithdrawalTablesOK, ClaimTablesOK, KeepsWithdrawals, RequestSteps
<1> QED
  BY <1>4, <1>5

\* Saving the withdrawal is a typed step.
LEMMA FileRequestTyped ==
  ASSUME LedgerTypeOK, NEW c \in Calls, FileRequest(c), UNCHANGED claimVars
  PROVE  TypedStep(c)
<1>1. StoreTypeOK /\ WithdrawalTablesOK /\ ClaimTablesOK /\ WithdrawalCallOK(c)
  BY DEF LedgerTypeOK, WithdrawalTypeOK, ClaimTypeOK
<1>2. cmd[c] \in RequestCommand
  BY <1>1 DEF FileRequest, WithdrawalCallOK, RequestSteps
<1>3. WithdrawalTablesOK'
  BY <1>1, <1>2 DEF FileRequest, WithdrawalTablesOK, WithdrawalRow, RequestCommand
<1>4. ClaimTablesOK' /\ UNCHANGED <<account, transfer>> /\ End(c, "ok") /\ "ok" \in Ended
  BY <1>1 DEF FileRequest, ClaimTablesOK, claimVars, tables, Ended
<1>5. KeepsWithdrawals
  BY <1>1, <1>2 DEF FileRequest, WithdrawalTablesOK, KeepsWithdrawals, WithdrawalRow,
                    RequestCommand
<1> QED
  BY <1>1, <1>3, <1>4, <1>5, EndForgets DEF TypedStep, StoreTypeOK

----------------------------------------------------------------------------
(* The steps of decideWithdrawal *)

\* Reading the withdrawal to be decided is a typed step.
LEMMA ReadForDecisionTyped ==
  ASSUME LedgerTypeOK, NEW c \in Calls, NEW w \in Calls, NEW o \in Operators,
         NEW d \in {"approve", "reject"}, ReadForDecision(c, w, o, d), UNCHANGED claimVars
  PROVE  TypedStep(c)
<1>1. StoreTypeOK /\ WithdrawalTablesOK /\ ClaimTablesOK
  BY DEF LedgerTypeOK, WithdrawalTypeOK, ClaimTypeOK
<1>2. CASE End(c, "refused")
  BY <1>2, EndTyped DEF ReadForDecision, Ended
<1>3. CASE ~ End(c, "refused")
  <2>1. /\ withdrawal[w] # None
        /\ seen' = [seen EXCEPT ![c] = [row |-> withdrawal[w], approvals |-> {}]]
        /\ cmd' = [cmd EXCEPT
             ![c] = [op |-> "decide", target |-> w, operator |-> o, decision |-> d]]
        /\ GoTo(c, "readApprovals")
        /\ UNCHANGED <<account, transfer, withdrawal, signed, claim, proofs, mem>>
    BY <1>3 DEF ReadForDecision, tables, withdrawalVars, claimVars
  <2>2. /\ pc'[c] = "readApprovals" /\ DOMAIN pc' = Calls
        /\ \A e \in Calls \ {c} : pc'[e] = pc[e]
    BY <1>1, <2>1, GoToMoves DEF StoreTypeOK
  <2>3. StoreTypeOK' /\ WithdrawalTablesOK' /\ ClaimTablesOK' /\ LeavesOthers(c)
    BY <1>1, <2>1, <2>2 DEF StoreTypeOK, WithdrawalTablesOK, ClaimTablesOK, KeepsWithdrawals, LeavesOthers
  <2>4. /\ cmd'[c] \in DecideCommand /\ seen'[c] \in WithdrawalSeen
        /\ withdrawal'[cmd'[c].target] \in WithdrawalRow
    BY <1>1, <2>1 DEF StoreTypeOK, WithdrawalTablesOK, DecideCommand, WithdrawalSeen
  <2>5. WithdrawalCallOK(c)' /\ ClaimCallOK(c)'
    BY <2>2, <2>4 DEF WithdrawalCallOK, ClaimCallOK, RequestSteps, DecideSteps, SubmitSteps,
                      CreditSteps, SettleSteps
  <2> QED
    BY <2>1, <2>3, <2>5 DEF TypedStep, KeepsWithdrawals
<1> QED
  BY <1>2, <1>3

\* A call that decides has its command and its copy of the withdrawal.
LEMMA Deciding ==
  ASSUME LedgerTypeOK, NEW c \in Calls, pc[c] \in DecideSteps
  PROVE  /\ cmd[c] \in DecideCommand /\ seen[c].row \in WithdrawalRow
         /\ withdrawal[cmd[c].target] \in WithdrawalRow
         /\ seen[c].approvals \subseteq Operators
         /\ cmd[c].target \in Calls /\ cmd[c].operator \in Operators
         /\ cmd[c].decision \in {"approve", "reject"}
BY DEF LedgerTypeOK, WithdrawalTypeOK, WithdrawalCallOK, DecideCommand, WithdrawalSeen

\* Reading its approvals is a typed step.
LEMMA ReadApprovalsTyped ==
  ASSUME LedgerTypeOK, NEW c \in Calls, ReadApprovals(c), UNCHANGED claimVars
  PROVE  TypedStep(c)
<1>1. StoreTypeOK /\ WithdrawalTablesOK /\ ClaimTablesOK
  BY DEF LedgerTypeOK, WithdrawalTypeOK, ClaimTypeOK
<1>2. pc[c] \in DecideSteps
  BY DEF ReadApprovals, DecideSteps
<1>3. CASE End(c, "refused")
  BY <1>3, EndTyped DEF ReadApprovals, Ended
<1>4. CASE ~ End(c, "refused")
  <2>1. /\ seen' = [seen EXCEPT ![c].approvals = signed[cmd[c].target]]
        /\ GoTo(c, "readCustomer")
        /\ UNCHANGED <<account, transfer, withdrawal, signed, claim, proofs, cmd, mem>>
    BY <1>4 DEF ReadApprovals, tables, withdrawalVars, claimVars
  <2>2. /\ pc'[c] = "readCustomer" /\ DOMAIN pc' = Calls
        /\ \A e \in Calls \ {c} : pc'[e] = pc[e]
    BY <1>1, <2>1, GoToMoves DEF StoreTypeOK
  <2>3. StoreTypeOK' /\ WithdrawalTablesOK' /\ ClaimTablesOK' /\ LeavesOthers(c)
    BY <1>1, <2>1, <2>2 DEF StoreTypeOK, WithdrawalTablesOK, ClaimTablesOK, KeepsWithdrawals, LeavesOthers
  <2>4. seen[c] \in WithdrawalSeen
    BY <1>2 DEF LedgerTypeOK, WithdrawalTypeOK, WithdrawalCallOK
  <2>5. signed[cmd[c].target] \subseteq Operators
    BY <1>1, <1>2, Deciding DEF WithdrawalTablesOK
  <2>6. seen'[c] = [seen[c] EXCEPT !.approvals = signed[cmd[c].target]]
    BY <1>1, <2>1 DEF StoreTypeOK
  <2>7. seen'[c] \in WithdrawalSeen
    BY <2>4, <2>5, <2>6 DEF WithdrawalSeen
  <2>8. cmd'[c] \in DecideCommand /\ withdrawal'[cmd'[c].target] \in WithdrawalRow
    BY <1>2, <2>1, Deciding
  <2>9. WithdrawalCallOK(c)' /\ ClaimCallOK(c)'
    BY <2>2, <2>7, <2>8 DEF WithdrawalCallOK, ClaimCallOK, RequestSteps, DecideSteps,
                            SubmitSteps, CreditSteps, SettleSteps
  <2> QED
    BY <2>1, <2>3, <2>9 DEF TypedStep, KeepsWithdrawals
<1> QED
  BY <1>3, <1>4

\* Reading the customer's account is a typed step.
LEMMA ReadCustomerTyped ==
  ASSUME LedgerTypeOK, NEW c \in Calls, ReadCustomer(c), UNCHANGED claimVars
  PROVE  TypedStep(c)
<1>1. CASE End(c, "refused")
  BY <1>1, EndTyped DEF ReadCustomer, Ended
<1>2. CASE ~ End(c, "refused")
  <2>1. /\ FindOrOpen(c, Customer(seen[c].row))
        /\ GoTo(c, IF cmd[c].decision = "reject" THEN "releaseHold"
                   ELSE IF Complete(c) THEN "readPayable" ELSE "saveDecision")
        /\ UNCHANGED <<tables, cmd, seen, withdrawalVars, claimVars>>
    BY <1>2 DEF ReadCustomer
  <2>2. pc[c] \in DecideSteps
    BY DEF ReadCustomer, DecideSteps
  <2>3. Customer(seen[c].row) \in AccountIds
    BY <2>2, Deciding, WithdrawalFigures
  <2> QED
    BY <2>1, <2>2, <2>3, ReadOnTyped DEF DecideSteps
<1> QED
  BY <1>1, <1>2

\* Giving the hold back is a typed step.
LEMMA ReleaseHoldTyped ==
  ASSUME LedgerTypeOK, NEW c \in Calls, ReleaseHold(c), UNCHANGED claimVars
  PROVE  TypedStep(c)
<1> DEFINE a == Customer(seen[c].row)
           total == TotalReserved(seen[c].row)
<1>1. StoreTypeOK /\ WithdrawalTablesOK /\ ClaimTablesOK
  BY DEF LedgerTypeOK, WithdrawalTypeOK, ClaimTypeOK
<1>2. pc[c] \in DecideSteps
  BY DEF ReleaseHold, DecideSteps
<1>3. a \in AccountIds /\ total \in Int /\ mem[c][a] \in Row
  BY <1>1, <1>2, Deciding, WithdrawalFigures DEF StoreTypeOK
<1>4. CASE End(c, "failed") /\ UNCHANGED tables
  BY <1>4, EndTyped DEF ReleaseHold, Ended
<1>5. CASE ~ (End(c, "failed") /\ UNCHANGED tables)
  <2>1. /\ SaveAccount(a, Release(mem[c][a], total)) /\ GoTo(c, "saveDecision")
        /\ UNCHANGED <<withdrawal, signed, claim, proofs, cmd, mem, seen>>
    BY <1>5 DEF ReleaseHold, withdrawalVars, claimVars
  <2>2. account' \in [AccountIds -> Row] /\ UNCHANGED transfer
    BY <1>1, <1>3, <2>1, UpdateTyped, RowArithmetic DEF SaveAccount
  <2>3. "saveDecision" \in DecideSteps
    BY DEF DecideSteps
  <2> QED
    BY <1>1, <1>2, <2>1, <2>2, <2>3, MoveOnTyped
    DEF StoreTypeOK, WithdrawalTablesOK, ClaimTablesOK, KeepsWithdrawals
<1> QED
  BY <1>4, <1>5

\* Reading the payable and the fees account are typed steps.
LEMMA ReadPlatformTyped ==
  ASSUME LedgerTypeOK, NEW c \in Calls, ReadPayable(c) \/ ReadFees(c), UNCHANGED claimVars
  PROVE  TypedStep(c)
<1>1. pc[c] \in DecideSteps
  BY DEF ReadPayable, ReadFees, DecideSteps
<1>2. /\ PayableId(seen[c].row.asset) \in AccountIds
      /\ FeesId(seen[c].row.asset) \in AccountIds
  BY <1>1, Deciding, WithdrawalFigures
<1>3. CASE ReadPayable(c)
  BY <1>1, <1>2, <1>3, ReadOnTyped DEF ReadPayable, DecideSteps
<1>4. CASE ReadFees(c)
  BY <1>1, <1>2, <1>4, ReadOnTyped DEF ReadFees, DecideSteps
<1> QED
  BY <1>3, <1>4

\* What a transfer leaves behind is a row of the transfers table, and account rows.
LEMMA PostTyped ==
  ASSUME StoreTypeOK, NEW c \in Calls, NEW kind \in {"deposit", "withdrawal"},
         NEW subject \in Calls \cup {None}, NEW entries \in [AccountIds -> Int],
         NEW rows, DOMAIN rows \subseteq AccountIds, \A a \in DOMAIN rows : rows[a] \in Row,
         Post(c, kind, subject, entries, rows)
  PROVE  /\ account' \in [AccountIds -> Row]
         /\ transfer' \in [Calls -> TransferRow \cup {None}]
<1>1. account' \in [AccountIds -> Row]
  BY UpdateTyped DEF Post
<1>2. [kind |-> kind, subject |-> subject, entries |-> entries] \in TransferRow
  BY DEF TransferRow
<1>3. transfer' \in [Calls -> TransferRow \cup {None}]
  BY <1>2 DEF Post, StoreTypeOK
<1> QED
  BY <1>1, <1>3

\* The entries of an approved withdrawal are figures, and so are the rows it leaves.
LEMMA WithdrawalRowsTyped ==
  ASSUME StoreTypeOK, NEW c \in Calls, NEW w \in WithdrawalRow
  PROVE  /\ WithdrawalEntries(w) \in [AccountIds -> Int]
         /\ DOMAIN WithdrawalRows(c, w) = {Customer(w), PayableId(w.asset), FeesId(w.asset)}
         /\ DOMAIN WithdrawalRows(c, w) \subseteq AccountIds
         /\ \A a \in DOMAIN WithdrawalRows(c, w) : /\ WithdrawalRows(c, w)[a] \in Row
                                                   /\ WithdrawalRows(c, w)[a].version = mem[c][a].version
<1> DEFINE ids == {Customer(w), PayableId(w.asset), FeesId(w.asset)}
<1>1. ids \subseteq AccountIds /\ \A a \in ids : mem[c][a] \in Row
  BY WithdrawalFigures DEF StoreTypeOK
<1>2. TotalReserved(w) \in Int /\ -TotalReserved(w) \in Int /\ w.amount \in Int /\ Fee[w.asset] \in Int
  BY WithdrawalFigures
<1>3. WithdrawalEntries(w) \in [AccountIds -> Int]
  <2> DEFINE e == [NoEntries EXCEPT ![Customer(w)] = -TotalReserved(w)]
             f == [e EXCEPT ![PayableId(w.asset)] = w.amount]
  <2>1. NoEntries \in [AccountIds -> Int]
    BY DEF NoEntries
  <2>2. e \in [AccountIds -> Int]
    BY <1>2, <2>1
  <2>3. f \in [AccountIds -> Int]
    BY <1>2, <2>2
  <2>4. [f EXCEPT ![FeesId(w.asset)] = Fee[w.asset]] \in [AccountIds -> Int]
    BY <1>2, <2>3
  <2> QED
    BY <2>4 DEF WithdrawalEntries
<1>4. DOMAIN WithdrawalRows(c, w) = ids
  BY DEF WithdrawalRows
<1>5. ASSUME NEW a \in ids
      PROVE  /\ WithdrawalRows(c, w)[a] \in Row
             /\ WithdrawalRows(c, w)[a].version = mem[c][a].version
  <2>1. /\ Release(mem[c][a], TotalReserved(w)) \in Row
        /\ Release(mem[c][a], TotalReserved(w)).version = mem[c][a].version
    BY <1>1, <1>2, RowArithmetic
  <2> QED
    BY <1>1, <1>2, <2>1, RowArithmetic DEF WithdrawalRows
<1> QED
  BY <1>1, <1>3, <1>4, <1>5

\* Posting the withdrawal is a typed step.
LEMMA PostWithdrawalTyped ==
  ASSUME LedgerTypeOK, NEW c \in Calls, PostWithdrawal(c), UNCHANGED claimVars
  PROVE  TypedStep(c)
<1> DEFINE w == seen[c].row
<1>1. StoreTypeOK /\ WithdrawalTablesOK /\ ClaimTablesOK
  BY DEF LedgerTypeOK, WithdrawalTypeOK, ClaimTypeOK
<1>2. pc[c] \in DecideSteps /\ "saveDecision" \in DecideSteps
  BY DEF PostWithdrawal, DecideSteps
<1>3. w \in WithdrawalRow /\ cmd[c].target \in Calls
  BY <1>2, Deciding
<1>4. CASE End(c, "failed") /\ UNCHANGED tables
  BY <1>4, EndTyped DEF PostWithdrawal, Ended
<1>5. CASE ~ (End(c, "failed") /\ UNCHANGED tables)
  <2>1. /\ Post(c, "withdrawal", cmd[c].target, WithdrawalEntries(w), WithdrawalRows(c, w))
        /\ GoTo(c, "saveDecision")
        /\ UNCHANGED <<withdrawal, signed, claim, proofs, cmd, mem, seen>>
    BY <1>5 DEF PostWithdrawal, withdrawalVars, claimVars
  <2>2. /\ account' \in [AccountIds -> Row]
        /\ transfer' \in [Calls -> TransferRow \cup {None}]
    BY <1>1, <1>3, <2>1, WithdrawalRowsTyped, PostTyped
  <2> QED
    BY <1>1, <1>2, <2>1, <2>2, MoveOnTyped DEF StoreTypeOK, WithdrawalTablesOK, ClaimTablesOK, KeepsWithdrawals
<1> QED
  BY <1>4, <1>5

\* Saving the decision is a typed step.
LEMMA SaveDecisionTyped ==
  ASSUME LedgerTypeOK, NEW c \in Calls, SaveDecision(c), UNCHANGED claimVars
  PROVE  TypedStep(c)
<1>1. StoreTypeOK /\ WithdrawalTablesOK /\ ClaimTablesOK
  BY DEF LedgerTypeOK, WithdrawalTypeOK, ClaimTypeOK
<1>2. pc[c] \in DecideSteps /\ "saveApprovals" \in DecideSteps
  BY DEF SaveDecision, DecideSteps
<1>3. UNCHANGED <<account, transfer, signed, claim, proofs>> /\ "ok" \in Ended
  BY DEF SaveDecision, tables, claimVars, Ended
<1>4. WithdrawalTablesOK' /\ ClaimTablesOK' /\ KeepsWithdrawals
  <2> DEFINE w == cmd[c].target
  <2>1. w \in Calls /\ withdrawal[w] \in WithdrawalRow /\ cmd[c].operator \in Operators
    BY <1>2, Deciding
  <2>2. PICK s \in {"pending", "approved", "rejected"}, o \in Operators \cup {None} :
          withdrawal' = [withdrawal EXCEPT ![w].status = s, ![w].decidedBy = o]
    BY <2>1 DEF SaveDecision
  <2>3. [withdrawal[w] EXCEPT !.status = s, !.decidedBy = o] \in WithdrawalRow
    BY <2>1 DEF WithdrawalRow
  <2>4. /\ withdrawal' = [withdrawal EXCEPT
             ![w] = [withdrawal[w] EXCEPT !.status = s, !.decidedBy = o]]
    BY <1>1, <2>1, <2>2 DEF WithdrawalTablesOK
  <2> QED
    BY <1>1, <1>3, <2>1, <2>3, <2>4 DEF WithdrawalTablesOK, ClaimTablesOK, KeepsWithdrawals
<1>5. CASE End(c, "ok")
  BY <1>1, <1>3, <1>4, <1>5, EndForgets DEF TypedStep, StoreTypeOK
<1>6. CASE GoTo(c, "saveApprovals") /\ UNCHANGED <<cmd, mem, seen>>
  BY <1>1, <1>2, <1>3, <1>4, <1>6, MoveOnTyped DEF StoreTypeOK
<1> QED
  BY <1>5, <1>6 DEF SaveDecision

\* Saving the signatures is a typed step.
LEMMA SaveApprovalsTyped ==
  ASSUME LedgerTypeOK, NEW c \in Calls, SaveApprovals(c), UNCHANGED claimVars
  PROVE  TypedStep(c)
<1>1. StoreTypeOK /\ WithdrawalTablesOK /\ ClaimTablesOK
  BY DEF LedgerTypeOK, WithdrawalTypeOK, ClaimTypeOK
<1>2. pc[c] \in DecideSteps
  BY DEF SaveApprovals, DecideSteps
<1>3. UNCHANGED <<account, transfer, withdrawal, claim, proofs>> /\ End(c, "ok") /\ "ok" \in Ended
  BY DEF SaveApprovals, tables, claimVars, Ended
<1>4. ApprovalsWith(c) \subseteq Operators
  BY <1>2, Deciding DEF ApprovalsWith
<1>5. WithdrawalTablesOK' /\ ClaimTablesOK'
  BY <1>1, <1>3, <1>4 DEF SaveApprovals, WithdrawalTablesOK, ClaimTablesOK
<1> QED
  BY <1>1, <1>3, <1>5, EndForgets DEF TypedStep, StoreTypeOK, KeepsWithdrawals

----------------------------------------------------------------------------
(* The steps of deposits *)

\* A call that has taken its proof in, or read its claim, or read for a credit, is where
\* the use case begins: it has the command and the copy of that place.
LEMMA BeginTyped ==
  ASSUME LedgerTypeOK, NEW c \in Calls, NEW command, NEW copy, NEW where,
         cmd' = [cmd EXCEPT ![c] = command], GoTo(c, where),
         UNCHANGED <<tables, withdrawalVars, claim>>, proofs' \subseteq Calls,
         mem' \in [Calls -> [AccountIds -> Row]], \A d \in Calls \ {c} : mem'[d] = mem[d],
         UNCHANGED seen \/ seen' = [seen EXCEPT ![c] = copy],
         \/ where = "saveClaim" /\ command \in SubmitCommand
         \/ where = "readSource" /\ command \in CreditCommand
         \/ /\ where = "saveMark" /\ command \in MarkCommand
            /\ copy \in ClaimRow /\ seen' = [seen EXCEPT ![c] = copy]
         \/ /\ where \in {"readClaimant", "saveVerdict"} /\ command \in SettleCommand
            /\ copy \in ClaimRow /\ seen' = [seen EXCEPT ![c] = copy]
  PROVE  TypedStep(c)
<1>1. StoreTypeOK /\ WithdrawalTablesOK /\ ClaimTablesOK
  BY DEF LedgerTypeOK, WithdrawalTypeOK, ClaimTypeOK
<1>2. DOMAIN pc' = Calls /\ pc'[c] = where /\ \A d \in Calls \ {c} : pc'[d] = pc[d]
  BY <1>1, GoToMoves DEF StoreTypeOK
<1>3. /\ DOMAIN cmd' = Calls /\ cmd'[c] = command
      /\ DOMAIN seen' = Calls
      /\ seen' = [seen EXCEPT ![c] = copy] => seen'[c] = copy
      /\ \A d \in Calls \ {c} : cmd'[d] = cmd[d] /\ seen'[d] = seen[d]
  BY <1>1 DEF StoreTypeOK
<1>4. StoreTypeOK' /\ WithdrawalTablesOK' /\ ClaimTablesOK' /\ LeavesOthers(c) /\ KeepsWithdrawals
  BY <1>1, <1>2, <1>3
  DEF StoreTypeOK, WithdrawalTablesOK, ClaimTablesOK, LeavesOthers, KeepsWithdrawals, tables,
      withdrawalVars
<1>5. WithdrawalCallOK(c)'
  BY <1>2 DEF WithdrawalCallOK, RequestSteps, DecideSteps
<1>6. ClaimCallOK(c)'
  <2>1. CASE where = "saveClaim" /\ command \in SubmitCommand
    BY <1>2, <1>3, <2>1 DEF ClaimCallOK, SubmitSteps, CreditSteps, SettleSteps
  <2>2. CASE where = "readSource" /\ command \in CreditCommand
    BY <1>2, <1>3, <2>2 DEF ClaimCallOK, SubmitSteps, CreditSteps, SettleSteps
  <2>3. CASE /\ where = "saveMark" /\ command \in MarkCommand
             /\ copy \in ClaimRow /\ seen' = [seen EXCEPT ![c] = copy]
    BY <1>2, <1>3, <2>3 DEF ClaimCallOK, SubmitSteps, CreditSteps, SettleSteps
  <2>4. CASE /\ where \in {"readClaimant", "saveVerdict"} /\ command \in SettleCommand
             /\ copy \in ClaimRow /\ seen' = [seen EXCEPT ![c] = copy]
    BY <1>2, <1>3, <2>4 DEF ClaimCallOK, SubmitSteps, CreditSteps, SettleSteps
  <2> QED
    BY <2>1, <2>2, <2>3, <2>4
<1> QED
  BY <1>4, <1>5, <1>6 DEF TypedStep

\* Storing the proof is a typed step.
LEMMA PutProofTyped ==
  ASSUME LedgerTypeOK, NEW c \in Calls, NEW u \in Users, NEW s \in Assets, NEW n \in Deposits,
         PutProof(c, u, s, n), UNCHANGED withdrawalVars
  PROVE  TypedStep(c)
<1>1. StoreTypeOK /\ ClaimTablesOK
  BY DEF LedgerTypeOK, WithdrawalTypeOK, ClaimTypeOK
<1> DEFINE command == [op |-> "submit", user |-> u, asset |-> s, amount |-> n]
<1>2. command \in SubmitCommand
  BY DEF SubmitCommand
<1>3. proofs' \subseteq Calls /\ mem' \in [Calls -> [AccountIds -> Row]]
  BY <1>1 DEF PutProof, ClaimTablesOK, StoreTypeOK
<1> QED
  BY <1>2, <1>3, BeginTyped DEF PutProof

\* Reading a claim in order to mark it is a typed step.
LEMMA ReadToMarkTyped ==
  ASSUME LedgerTypeOK, NEW c \in Calls, NEW k \in Calls, ReadToMark(c, k),
         UNCHANGED withdrawalVars
  PROVE  TypedStep(c)
<1>1. StoreTypeOK /\ ClaimTablesOK
  BY DEF LedgerTypeOK, WithdrawalTypeOK, ClaimTypeOK
<1>2. CASE End(c, "refused")
  BY <1>2, EndTyped DEF ReadToMark, Ended
<1>3. CASE ~ End(c, "refused")
  <2>1. /\ claim[k] # None /\ Reading(c, k, [op |-> "mark", target |-> k], "saveMark")
        /\ UNCHANGED <<tables, claimVars>>
    BY <1>3 DEF ReadToMark
  <2>2. claim[k] \in ClaimRow /\ [op |-> "mark", target |-> k] \in MarkCommand
    BY <1>1, <2>1 DEF ClaimTablesOK, MarkCommand
  <2>3. proofs' \subseteq Calls /\ mem' \in [Calls -> [AccountIds -> Row]]
    BY <1>1, <2>1 DEF Reading, ClaimTablesOK, StoreTypeOK, claimVars
  <2> QED
    BY <2>1, <2>2, <2>3, BeginTyped DEF Reading, claimVars
<1> QED
  BY <1>2, <1>3

\* Reading a claim in order to decide it is a typed step.
LEMMA ReadToSettleTyped ==
  ASSUME LedgerTypeOK, NEW c \in Calls, NEW k \in Calls, NEW o \in Operators,
         NEW d \in {"approve", "reject"}, NEW n \in Deposits \cup {0},
         ReadToSettle(c, k, o, d, n), UNCHANGED withdrawalVars
  PROVE  TypedStep(c)
<1> DEFINE command == [op |-> "settle", target |-> k, operator |-> o, decision |-> d, amount |-> n]
           where == IF d = "reject" THEN "saveVerdict" ELSE "readClaimant"
<1>1. StoreTypeOK /\ ClaimTablesOK
  BY DEF LedgerTypeOK, WithdrawalTypeOK, ClaimTypeOK
<1>2. CASE End(c, "refused")
  BY <1>2, EndTyped DEF ReadToSettle, Ended
<1>3. CASE ~ End(c, "refused")
  <2>1. claim[k] # None /\ Reading(c, k, command, where) /\ UNCHANGED <<tables, claimVars>>
    BY <1>3 DEF ReadToSettle
  <2>2. claim[k] \in ClaimRow /\ command \in SettleCommand
    BY <1>1, <2>1 DEF ClaimTablesOK, SettleCommand
  <2>3. proofs' \subseteq Calls /\ mem' \in [Calls -> [AccountIds -> Row]]
    BY <1>1, <2>1 DEF Reading, ClaimTablesOK, StoreTypeOK, claimVars
  <2>4. where \in {"readClaimant", "saveVerdict"}
    OBVIOUS
  <2> HIDE DEF where, command
  <2> QED
    BY <2>1, <2>2, <2>3, <2>4, BeginTyped DEF Reading, claimVars
<1> QED
  BY <1>2, <1>3

\* Reading the account to be credited is a typed step.
LEMMA ReadForCreditTyped ==
  ASSUME LedgerTypeOK, NEW c \in Calls, NEW u \in Users, NEW s \in Assets, NEW n \in Deposits,
         NEW source \in {"custody", "demo"},
         ReadForCredit(c, u, s, n, source), UNCHANGED withdrawalVars
  PROVE  TypedStep(c)
<1> DEFINE command ==
      [op |-> "credit", user |-> u, asset |-> s, amount |-> n, source |-> source]
<1>1. StoreTypeOK /\ ClaimTablesOK
  BY DEF LedgerTypeOK, WithdrawalTypeOK, ClaimTypeOK
<1>2. command \in CreditCommand
  <2>1. n \in Nat /\ n > 0
    BY DepositsAssumption DEF ReadForCredit
  <2> QED
    BY <2>1 DEF CreditCommand
<1>3. /\ mem' \in [Calls -> [AccountIds -> Row]]
      /\ \A d \in Calls \ {c} : mem'[d] = mem[d]
  BY <1>1, IdsTyped, FindOrOpenReads DEF ReadForCredit
<1>4. proofs' \subseteq Calls
  BY <1>1 DEF ReadForCredit, ClaimTablesOK, claimVars
<1> QED
  BY <1>2, <1>3, <1>4, BeginTyped DEF ReadForCredit, claimVars

\* A call that writes the claims table and ends is typed if that table is.
LEMMA EndWithClaimTyped ==
  ASSUME LedgerTypeOK, NEW c \in Calls, NEW how \in Ended, End(c, how), ClaimTablesOK',
         UNCHANGED <<tables, withdrawalVars>>
  PROVE  TypedStep(c)
BY EndForgets DEF LedgerTypeOK, WithdrawalTypeOK, ClaimTypeOK, StoreTypeOK, WithdrawalTablesOK,
                  TypedStep, KeepsWithdrawals, tables, withdrawalVars

\* The claim a submission files is a row.
LEMMA NewClaimTyped ==
  ASSUME LedgerTypeOK, NEW c \in Calls, pc[c] \in SubmitSteps
  PROVE  NewClaim(c) \in ClaimRow
<1>1. cmd[c] \in SubmitCommand
  BY DEF LedgerTypeOK, ClaimTypeOK, ClaimCallOK
<1> QED
  BY <1>1 DEF NewClaim, ClaimRow, SubmitCommand

\* The three ways a submission goes on from its proof are typed steps.
LEMMA SubmitOnTyped ==
  ASSUME LedgerTypeOK, NEW c \in Calls, UNCHANGED withdrawalVars,
         SaveClaim(c) \/ SaveClaimRaises(c) \/ RemoveProof(c)
  PROVE  TypedStep(c)
<1>1. StoreTypeOK /\ WithdrawalTablesOK /\ ClaimTablesOK
  BY DEF LedgerTypeOK, WithdrawalTypeOK, ClaimTypeOK
<1>2. pc[c] \in SubmitSteps /\ NewClaim(c) \in ClaimRow /\ "removeProof" \in SubmitSteps
  <2>1. pc[c] \in SubmitSteps
    BY DEF SaveClaim, SaveClaimRaises, RemoveProof, SubmitSteps
  <2> QED
    BY <2>1, NewClaimTyped DEF SubmitSteps
<1>3. CASE SaveClaim(c)
  BY <1>1, <1>2, <1>3, EndWithClaimTyped DEF SaveClaim, ClaimTablesOK, Ended
<1>4. CASE SaveClaimRaises(c)
  <2>1. ClaimTablesOK'
    BY <1>1, <1>2, <1>4 DEF SaveClaimRaises, ClaimTablesOK
  <2> QED
    BY <1>1, <1>2, <1>4, <2>1, MoveOnTyped
    DEF SaveClaimRaises, StoreTypeOK, WithdrawalTablesOK, KeepsWithdrawals, tables,
        withdrawalVars
<1>5. CASE RemoveProof(c)
  BY <1>1, <1>5, EndWithClaimTyped DEF RemoveProof, ClaimTablesOK, Ended
<1> QED
  BY <1>3, <1>4, <1>5

\* Marking a claim as confirming is a typed step.
LEMMA SaveMarkTyped ==
  ASSUME LedgerTypeOK, NEW c \in Calls, SaveMark(c), UNCHANGED withdrawalVars
  PROVE  TypedStep(c)
<1>1. ClaimTablesOK /\ cmd[c] \in MarkCommand /\ seen[c] \in ClaimRow
  BY DEF LedgerTypeOK, ClaimTypeOK, ClaimCallOK, SaveMark
<1>2. [seen[c] EXCEPT !.status = "confirming"] \in ClaimRow
  BY <1>1 DEF ClaimRow
<1>3. ClaimTablesOK'
  BY <1>1, <1>2 DEF SaveMark, ClaimTablesOK, MarkCommand
<1> QED
  BY <1>3, EndWithClaimTyped DEF SaveMark, Ended

\* A call that decides a claim has its command and its copy of the claim.
LEMMA Settling ==
  ASSUME LedgerTypeOK, NEW c \in Calls, pc[c] \in SettleSteps
  PROVE  /\ cmd[c] \in SettleCommand /\ seen[c] \in ClaimRow
         /\ Claimant(c) \in CustomerIds /\ Claimant(c) \in AccountIds
         /\ Custody(c) \in AccountIds \ CustomerIds
         /\ cmd[c].amount \in Nat /\ cmd[c].target \in Calls
<1>1. cmd[c] \in SettleCommand /\ seen[c] \in ClaimRow
  BY DEF LedgerTypeOK, ClaimTypeOK, ClaimCallOK
<1>2. seen[c].user \in Users /\ seen[c].asset \in Assets /\ "custody" \in Platform
  BY <1>1 DEF ClaimRow, Platform
<1>3. cmd[c].amount \in Deposits \cup {0} /\ cmd[c].target \in Calls
  BY <1>1 DEF SettleCommand
<1>4. \A n \in Deposits \cup {0} : n \in Nat
  BY DepositsAssumption
<1>5. Claimant(c) \in CustomerIds /\ Claimant(c) \in AccountIds
  BY <1>2, IdsTyped DEF Claimant
<1>6. Custody(c) \in AccountIds \ CustomerIds
  BY <1>2, IdsTyped DEF Custody
<1>7. cmd[c].amount \in Nat
  BY <1>3, <1>4
<1> QED
  BY <1>1, <1>3, <1>5, <1>6, <1>7

\* So has a call that credits a customer directly.
LEMMA Crediting ==
  ASSUME LedgerTypeOK, NEW c \in Calls, pc[c] \in CreditSteps
  PROVE  /\ cmd[c] \in CreditCommand /\ cmd[c].amount # 0
         /\ <<cmd[c].user, cmd[c].asset>> \in CustomerIds
         /\ <<cmd[c].user, cmd[c].asset>> \in AccountIds
         /\ <<cmd[c].source, cmd[c].asset>> \in AccountIds \ CustomerIds
         /\ cmd[c].amount \in Nat
<1>1. cmd[c] \in CreditCommand
  BY DEF LedgerTypeOK, ClaimTypeOK, ClaimCallOK
<1>2. cmd[c].user \in Users /\ cmd[c].asset \in Assets /\ cmd[c].source \in Platform
  BY <1>1 DEF CreditCommand, Platform
<1>3. cmd[c].amount \in Nat /\ cmd[c].amount # 0
  BY <1>1, DepositsAssumption DEF CreditCommand
<1> QED
  BY <1>1, <1>2, <1>3, IdsTyped

\* The entries of a credit are figures, and so are the two rows it leaves.
LEMMA CreditRowsTyped ==
  ASSUME StoreTypeOK, NEW c \in Calls, NEW to \in AccountIds, NEW from \in AccountIds,
         NEW n \in Nat
  PROVE  /\ CreditEntries(to, from, n) \in [AccountIds -> Int]
         /\ DOMAIN CreditRows(c, to, from, n) = {to, from}
         /\ DOMAIN CreditRows(c, to, from, n) \subseteq AccountIds
         /\ \A a \in DOMAIN CreditRows(c, to, from, n) :
              /\ CreditRows(c, to, from, n)[a] \in Row
              /\ CreditRows(c, to, from, n)[a].version = mem[c][a].version
<1>1. \A a \in {to, from} : mem[c][a] \in Row
  BY DEF StoreTypeOK
<1>2. CreditEntries(to, from, n) \in [AccountIds -> Int]
  BY DEF CreditEntries, NoEntries
<1>3. ASSUME NEW a \in {to, from}
      PROVE  /\ CreditRows(c, to, from, n)[a] \in Row
             /\ CreditRows(c, to, from, n)[a].version = mem[c][a].version
  <2>1. (IF a = to THEN n ELSE -n) \in Int
    OBVIOUS
  <2> QED
    BY <1>1, <2>1, RowArithmetic DEF CreditRows
<1> QED
  BY <1>2, <1>3 DEF CreditRows

\* The steps of a decision that read accounts are typed.
LEMMA SettleReadsTyped ==
  ASSUME LedgerTypeOK, NEW c \in Calls, ReadClaimant(c) \/ ReadCustody(c),
         UNCHANGED withdrawalVars
  PROVE  TypedStep(c)
<1>1. pc[c] \in SettleSteps /\ {"readCustody", "postClaim"} \subseteq SettleSteps
  BY DEF ReadClaimant, ReadCustody, SettleSteps
<1>2. Claimant(c) \in AccountIds /\ Custody(c) \in AccountIds
  BY <1>1, Settling
<1>3. CASE ReadClaimant(c)
  BY <1>1, <1>2, <1>3, ReadOnTyped DEF ReadClaimant
<1>4. CASE ReadCustody(c) /\ End(c, "refused")
  BY <1>4, EndTyped DEF ReadCustody, Ended
<1>5. CASE ReadCustody(c) /\ ~ End(c, "refused")
  BY <1>1, <1>2, <1>5, ReadOnTyped DEF ReadCustody
<1> QED
  BY <1>3, <1>4, <1>5

\* Posting an approved claim is a typed step.
LEMMA PostClaimTyped ==
  ASSUME LedgerTypeOK, NEW c \in Calls, PostClaim(c), UNCHANGED withdrawalVars
  PROVE  TypedStep(c)
<1> DEFINE entries == CreditEntries(Claimant(c), Custody(c), cmd[c].amount)
           rows == CreditRows(c, Claimant(c), Custody(c), cmd[c].amount)
<1>1. StoreTypeOK /\ WithdrawalTablesOK /\ ClaimTablesOK
  BY DEF LedgerTypeOK, WithdrawalTypeOK, ClaimTypeOK
<1>2. pc[c] \in SettleSteps /\ "saveVerdict" \in SettleSteps
  BY DEF PostClaim, SettleSteps
<1>3. CASE End(c, "failed") /\ UNCHANGED tables
  BY <1>3, EndTyped DEF PostClaim, Ended
<1>4. CASE ~ (End(c, "failed") /\ UNCHANGED tables)
  <2>1. /\ Post(c, "deposit", cmd[c].target, entries, rows) /\ GoTo(c, "saveVerdict")
        /\ UNCHANGED <<withdrawal, signed, claim, proofs, cmd, mem, seen>>
    BY <1>4 DEF PostClaim, claimVars, withdrawalVars
  <2>2. /\ entries \in [AccountIds -> Int]
        /\ DOMAIN rows \subseteq AccountIds /\ \A a \in DOMAIN rows : rows[a] \in Row
        /\ cmd[c].target \in Calls
    <3>1. /\ Claimant(c) \in AccountIds /\ Custody(c) \in AccountIds
          /\ cmd[c].amount \in Nat /\ cmd[c].target \in Calls
      BY <1>2, Settling
    <3> QED
      BY <1>1, <3>1, CreditRowsTyped
  <2>3. /\ account' \in [AccountIds -> Row]
        /\ transfer' \in [Calls -> TransferRow \cup {None}]
    <3> HIDE DEF entries, rows
    <3> QED
      BY <1>1, <2>1, <2>2, PostTyped
  <2> QED
    BY <1>1, <1>2, <2>1, <2>3, MoveOnTyped
    DEF StoreTypeOK, WithdrawalTablesOK, ClaimTablesOK, KeepsWithdrawals
<1> QED
  BY <1>3, <1>4

\* Saving the verdict on a claim is a typed step.
LEMMA SaveVerdictTyped ==
  ASSUME LedgerTypeOK, NEW c \in Calls, SaveVerdict(c), UNCHANGED withdrawalVars
  PROVE  TypedStep(c)
<1>1. ClaimTablesOK /\ pc[c] \in SettleSteps
  BY DEF LedgerTypeOK, ClaimTypeOK, SaveVerdict, SettleSteps
<1>2. cmd[c] \in SettleCommand /\ seen[c] \in ClaimRow
  BY <1>1, Settling
<1>3. /\ [seen[c] EXCEPT !.status = "rejected", !.decidedBy = cmd[c].operator] \in ClaimRow
      /\ [seen[c] EXCEPT !.status = "approved", !.decidedBy = cmd[c].operator,
                         !.credited = cmd[c].amount, !.transferId = c] \in ClaimRow
  BY <1>2 DEF ClaimRow, SettleCommand
<1>4. ClaimTablesOK'
  BY <1>1, <1>2, <1>3 DEF SaveVerdict, ClaimTablesOK, SettleCommand
<1> QED
  BY <1>4, EndWithClaimTyped DEF SaveVerdict, Ended

\* The steps of a direct credit are typed.
LEMMA CreditOnTyped ==
  ASSUME LedgerTypeOK, NEW c \in Calls, ReadSource(c) \/ PostCredit(c), UNCHANGED withdrawalVars
  PROVE  TypedStep(c)
<1> DEFINE to == <<cmd[c].user, cmd[c].asset>>
           from == <<cmd[c].source, cmd[c].asset>>
           entries == CreditEntries(to, from, cmd[c].amount)
           rows == CreditRows(c, to, from, cmd[c].amount)
<1>1. StoreTypeOK /\ WithdrawalTablesOK /\ ClaimTablesOK
  BY DEF LedgerTypeOK, WithdrawalTypeOK, ClaimTypeOK
<1>2. pc[c] \in CreditSteps /\ "postCredit" \in CreditSteps
  BY DEF ReadSource, PostCredit, CreditSteps
<1>3. to \in AccountIds /\ from \in AccountIds /\ cmd[c].amount \in Nat
  BY <1>2, Crediting
<1>4. CASE ReadSource(c)
  BY <1>2, <1>3, <1>4, ReadOnTyped DEF ReadSource
<1>5. CASE PostCredit(c) /\ End(c, "failed") /\ UNCHANGED tables
  BY <1>5, EndTyped DEF PostCredit, Ended
<1>6. CASE PostCredit(c) /\ ~ (End(c, "failed") /\ UNCHANGED tables)
  <2>1. /\ Post(c, "deposit", None, entries, rows) /\ End(c, "ok") /\ "ok" \in Ended
        /\ UNCHANGED <<withdrawal, signed, claim, proofs>>
    BY <1>6 DEF PostCredit, claimVars, withdrawalVars, Ended
  <2>2. /\ entries \in [AccountIds -> Int]
        /\ DOMAIN rows \subseteq AccountIds /\ \A a \in DOMAIN rows : rows[a] \in Row
    BY <1>1, <1>3, CreditRowsTyped
  <2>3. /\ account' \in [AccountIds -> Row]
        /\ transfer' \in [Calls -> TransferRow \cup {None}]
    <3> HIDE DEF entries, rows
    <3> QED
      BY <1>1, <2>1, <2>2, PostTyped
  <2> QED
    BY <1>1, <2>1, <2>3, EndForgets
    DEF TypedStep, StoreTypeOK, WithdrawalTablesOK, ClaimTablesOK, KeepsWithdrawals
<1> QED
  BY <1>4, <1>5, <1>6

----------------------------------------------------------------------------
(* The type invariant *)

\* Every step is a typed step of the call that takes it.
LEMMA StepTyped ==
  ASSUME LedgerTypeOK, NEW c \in Calls, WithdrawalStep(c) \/ ClaimStep(c) \/ CrashStep(c)
  PROVE  TypedStep(c)
<1>1. CASE WithdrawalStep(c) /\ Request(c)
  BY <1>1, ReadForRequestTyped, CheckGasTyped, PlaceHoldTyped, FileRequestTyped
  DEF WithdrawalStep, Request
<1>2. CASE WithdrawalStep(c) /\ Decide(c)
  BY <1>2, ReadForDecisionTyped, ReadApprovalsTyped, ReadCustomerTyped, ReleaseHoldTyped,
     ReadPlatformTyped, PostWithdrawalTyped, SaveDecisionTyped, SaveApprovalsTyped
  DEF WithdrawalStep, Decide
<1>3. CASE ClaimStep(c) /\ Submit(c)
  BY <1>3, PutProofTyped, SubmitOnTyped DEF ClaimStep, Submit
<1>4. CASE ClaimStep(c) /\ Mark(c)
  BY <1>4, ReadToMarkTyped, SaveMarkTyped DEF ClaimStep, Mark
<1>5. CASE ClaimStep(c) /\ Settle(c)
  BY <1>5, ReadToSettleTyped, SettleReadsTyped, PostClaimTyped, SaveVerdictTyped
  DEF ClaimStep, Settle
<1>6. CASE ClaimStep(c) /\ CreditDirectly(c)
  BY <1>6, ReadForCreditTyped, CreditOnTyped DEF ClaimStep, CreditDirectly
<1>7. CASE CrashStep(c)
  BY <1>7, EndTyped DEF CrashStep, CrashCall, Ended
<1> QED
  BY <1>1, <1>2, <1>3, <1>4, <1>5, <1>6, <1>7 DEF WithdrawalStep, ClaimStep

\* A typed step of one call keeps the type invariant for all of them.
LEMMA TypedStepKeepsTypes ==
  ASSUME LedgerTypeOK, NEW c \in Calls, TypedStep(c)
  PROVE  LedgerTypeOK'
<1>1. \A d \in Calls : WithdrawalCallOK(d)'
  <2> SUFFICES ASSUME NEW d \in Calls \ {c} PROVE WithdrawalCallOK(d)'
    BY DEF TypedStep
  <2>1. WithdrawalCallOK(d)
    BY DEF LedgerTypeOK, WithdrawalTypeOK
  <2> QED
    BY <2>1 DEF TypedStep, LeavesOthers, KeepsWithdrawals, WithdrawalCallOK, DecideCommand
<1>2. \A d \in Calls : ClaimCallOK(d)'
  BY DEF LedgerTypeOK, ClaimTypeOK, TypedStep, LeavesOthers, ClaimCallOK
<1> QED
  BY <1>1, <1>2 DEF TypedStep, LedgerTypeOK, WithdrawalTypeOK, ClaimTypeOK

\* The tables and the memory of the calls are well typed in every reachable state: the
\* rows that are written from copies, and the decisions saved over whatever is there,
\* leave nothing but rows.
THEOREM TypesHold == Spec => []LedgerTypeOK
<1>1. LedgerTypeOK /\ [Next]_vars => LedgerTypeOK'
  <2> SUFFICES ASSUME LedgerTypeOK, [Next]_vars PROVE LedgerTypeOK'
    OBVIOUS
  <2>1. CASE Next
    BY <2>1, StepTyped, TypedStepKeepsTypes DEF Next
  <2>2. CASE UNCHANGED vars
    BY <2>2 DEF vars, storeVars, tables, callVars, withdrawalVars, claimVars, LedgerTypeOK,
       WithdrawalTypeOK, ClaimTypeOK, StoreTypeOK, WithdrawalTablesOK, ClaimTablesOK,
       WithdrawalCallOK, ClaimCallOK
  <2> QED
    BY <2>1, <2>2
<1> QED
  BY <1>1, TypeInit, PTL DEF Spec

----------------------------------------------------------------------------
(* Copies and versions *)

\* Versions count from zero, so Unread is ahead of no row.
VersionsCount == \A a \in AccountIds : account[a].version >= 0

\* The inductive invariant of this module.
SoundInv == LedgerTypeOK /\ ReadsAreSound /\ VersionsCount

\* A row is left as it is or its version moves on.
RowsMoveOn ==
  \A a \in AccountIds :
    account'[a] = account[a] \/ account'[a].version = account[a].version + 1

\* What call c has in memory after a step was there before, or is gone, or was just read.
RemembersOrReads(c) ==
  \A a \in AccountIds : \/ mem'[c][a] = mem[c][a]
                        \/ mem'[c][a] = Unread
                        \/ mem'[c][a] = account[a] /\ UNCHANGED account

Step(c) == WithdrawalStep(c) \/ ClaimStep(c) \/ CrashStep(c)

----------------------------------------------------------------------------
(* What a step writes *)

\* Five steps write accounts.
LEMMA WritersOfAccounts ==
  ASSUME NEW c \in Calls, Step(c)
  PROVE  \/ UNCHANGED account
         \/ PlaceHold(c) \/ ReleaseHold(c) \/ PostWithdrawal(c) \/ PostClaim(c) \/ PostCredit(c)
BY DEF Step, WithdrawalStep, ClaimStep, CrashStep, Request, Decide, Submit, Mark, Settle,
       CreditDirectly, ReadForRequest, CheckGas, FileRequest, ReadForDecision, ReadApprovals,
       ReadCustomer, ReadPayable, ReadFees, SaveDecision, SaveApprovals, PutProof, SaveClaim,
       SaveClaimRaises, RemoveProof, ReadToMark, SaveMark, ReadToSettle, ReadClaimant,
       ReadCustody, SaveVerdict, ReadForCredit, ReadSource, CrashCall, tables

\* A conditional write under the versions of the copies writes what it would have written
\* had it computed the rows from the table itself.
LEMMA WriteIsCurrent ==
  ASSUME SoundInv, NEW c \in Calls, NEW rows, DOMAIN rows \subseteq AccountIds,
         \A a \in DOMAIN rows : rows[a] \in Row /\ rows[a].version = mem[c][a].version,
         Current(c, DOMAIN rows), UpdateBalance(rows)
  PROVE  /\ RowsMoveOn
         /\ \A a \in DOMAIN rows : /\ mem[c][a] = account[a]
                                   /\ account'[a].balance = rows[a].balance
                                   /\ account'[a].held = rows[a].held
         /\ \A a \in AccountIds \ DOMAIN rows : account'[a] = account[a]
<1>1. StoreTypeOK /\ ReadsAreSound
  BY DEF SoundInv, LedgerTypeOK, WithdrawalTypeOK
<1>2. \A a \in DOMAIN rows : mem[c][a] = account[a]
  BY <1>1 DEF ReadsAreSound, Current
<1>3. \A a \in AccountIds \ DOMAIN rows : account'[a] = account[a]
  BY DEF UpdateBalance
<1>4. \A a \in DOMAIN rows : /\ account'[a].version = account[a].version + 1
                             /\ account'[a].balance = rows[a].balance
                             /\ account'[a].held = rows[a].held
  BY <1>2, BumpedRow DEF UpdateBalance
<1> QED
  BY <1>2, <1>3, <1>4 DEF RowsMoveOn

\* A step reads into the memory of its call what is in the table, or nothing.
LEMMA StepRemembers ==
  ASSUME LedgerTypeOK, NEW c \in Calls, Step(c)
  PROVE  RemembersOrReads(c)
<1>1. StoreTypeOK
  BY DEF LedgerTypeOK, WithdrawalTypeOK
<1>2. ASSUME NEW how, End(c, how) PROVE RemembersOrReads(c)
  BY <1>1, <1>2 DEF End, StoreTypeOK, NothingRead, RemembersOrReads
<1>3. ASSUME NEW a \in AccountIds, FindOrOpen(c, a), UNCHANGED tables PROVE RemembersOrReads(c)
  BY <1>1, <1>3, FindOrOpenReads DEF RemembersOrReads, tables
<1>4. CASE UNCHANGED mem
  BY <1>4 DEF RemembersOrReads
<1>5. CASE WithdrawalStep(c) /\ Request(c)
  BY <1>2, <1>3, <1>4, <1>5, IdsTyped
  DEF WithdrawalStep, Request, ReadForRequest, CheckGas, PlaceHold, FileRequest
<1>6. CASE WithdrawalStep(c) /\ Decide(c)
  <2>1. CASE ReadCustomer(c) \/ ReadPayable(c) \/ ReadFees(c)
    <3>1. pc[c] \in DecideSteps
      BY <2>1 DEF ReadCustomer, ReadPayable, ReadFees, DecideSteps
    <3>2. /\ Customer(seen[c].row) \in AccountIds /\ PayableId(seen[c].row.asset) \in AccountIds
          /\ FeesId(seen[c].row.asset) \in AccountIds
      BY <3>1, Deciding, WithdrawalFigures
    <3> QED
      BY <1>2, <1>3, <2>1, <3>2 DEF ReadCustomer, ReadPayable, ReadFees
  <2>2. CASE ~ (ReadCustomer(c) \/ ReadPayable(c) \/ ReadFees(c))
    BY <1>2, <1>4, <1>6, <2>2
    DEF Decide, ReadForDecision, ReadApprovals, ReleaseHold, PostWithdrawal, SaveDecision,
        SaveApprovals
  <2> QED
    BY <2>1, <2>2
<1>7. CASE ClaimStep(c) /\ (Submit(c) \/ Mark(c))
  BY <1>2, <1>4, <1>7
  DEF Submit, Mark, PutProof, SaveClaim, SaveClaimRaises, RemoveProof, ReadToMark, SaveMark,
      Reading
<1>8. CASE ClaimStep(c) /\ Settle(c)
  <2>1. CASE ReadClaimant(c) \/ ReadCustody(c)
    <3>1. Claimant(c) \in AccountIds /\ Custody(c) \in AccountIds
      BY <2>1, Settling DEF ReadClaimant, ReadCustody, SettleSteps
    <3> QED
      BY <1>2, <1>3, <2>1, <3>1 DEF ReadClaimant, ReadCustody
  <2>2. CASE ~ (ReadClaimant(c) \/ ReadCustody(c))
    BY <1>2, <1>4, <1>8, <2>2 DEF Settle, ReadToSettle, Reading, PostClaim, SaveVerdict
  <2> QED
    BY <2>1, <2>2
<1>9. CASE ClaimStep(c) /\ CreditDirectly(c)
  <2>1. CASE ReadSource(c)
    BY <1>3, <2>1, Crediting DEF ReadSource, CreditSteps
  <2>2. CASE ~ ReadSource(c)
    BY <1>2, <1>3, <1>4, <1>9, <2>2, IdsTyped DEF CreditDirectly, ReadForCredit, PostCredit
  <2> QED
    BY <2>1, <2>2
<1>10. CASE CrashStep(c)
  BY <1>2, <1>10 DEF CrashStep, CrashCall
<1> QED
  BY <1>5, <1>6, <1>7, <1>8, <1>9, <1>10 DEF Step, WithdrawalStep, ClaimStep

----------------------------------------------------------------------------
(* The five writes, as movements of the abstract ledger *)

\* The accounts the abstract ledger has are those of this one.
LEMMA SameAccounts == Books!Ids = AccountIds
BY DEF Books!Ids, Books!Sources, AccountIds, Owners, Platform

\* Placing a hold reserves what was free.
LEMMA PlaceHoldReserves ==
  ASSUME SoundInv, NEW c \in Calls, PlaceHold(c), ~ UNCHANGED account
  PROVE  /\ RowsMoveOn
         /\ \E u \in Users, s \in Assets : Books!Reserve(u, s)
         /\ \A b \in AccountIds :
              /\ account'[b].held = account[b].held
                   + (IF b = Customer(cmd[c]) THEN TotalReserved(cmd[c]) ELSE 0)
              /\ account'[b].balance = account[b].balance
<1> DEFINE a == Customer(cmd[c])
           total == TotalReserved(cmd[c])
           rows == [x \in {a} |-> Hold(mem[c][a], total)]
<1>1. StoreTypeOK /\ cmd[c] \in RequestCommand
  BY DEF SoundInv, LedgerTypeOK, WithdrawalTypeOK, WithdrawalCallOK, PlaceHold, RequestSteps
<1>2. /\ a \in AccountIds /\ total \in Nat \ {0} /\ mem[c][a] \in Row
      /\ account[a] \in Row /\ cmd[c].user \in Users /\ cmd[c].asset \in Assets
  BY <1>1, WithdrawalFigures DEF StoreTypeOK, RequestCommand
<1>3. Available(mem[c][a]) >= total /\ Current(c, {a}) /\ UpdateBalance(rows)
  BY DEF PlaceHold, SaveAccount, CanSave, tables
<1>4. rows[a] = Hold(mem[c][a], total) /\ rows[a] \in Row /\ rows[a].version = mem[c][a].version
  <2>1. /\ Hold(mem[c][a], total) \in Row
        /\ Hold(mem[c][a], total).version = mem[c][a].version
    <3>1. total \in Int
      BY <1>2
    <3> QED
      BY <1>2, <3>1, RowArithmetic
  <2> QED
    BY <2>1
<1>5. DOMAIN rows = {a}
  OBVIOUS
<1>6. /\ RowsMoveOn /\ mem[c][a] = account[a]
      /\ account'[a].balance = rows[a].balance /\ account'[a].held = rows[a].held
      /\ \A b \in AccountIds \ {a} : account'[b] = account[b]
  <2> HIDE DEF rows
  <2> QED
    BY <1>2, <1>3, <1>4, <1>5, WriteIsCurrent
<1>7. /\ account'[a].balance = account[a].balance
      /\ account'[a].held = account[a].held + total
      /\ total \in 1..(account[a].balance - account[a].held)
  BY <1>2, <1>3, <1>4, <1>6 DEF Hold, Available, Row
<1>8. /\ [b \in AccountIds |-> account'[b].held] =
           [[b \in AccountIds |-> account[b].held] EXCEPT ![a] = @ + total]
      /\ [b \in AccountIds |-> account'[b].balance] = [b \in AccountIds |-> account[b].balance]
  BY <1>2, <1>6, <1>7
<1>9. PICK u \in Users, s \in Assets : a = <<u, s>>
  BY <1>2 DEF Customer
<1>10. Books!Reserve(u, s)
  BY <1>2, <1>7, <1>8, <1>9 DEF Books!Reserve
<1>11. \A b \in AccountIds :
         /\ account'[b].held = account[b].held + (IF b = a THEN total ELSE 0)
         /\ account'[b].balance = account[b].balance
  BY <1>1, <1>6, <1>7 DEF StoreTypeOK, Row
<1> QED
  BY <1>6, <1>10, <1>11

\* Releasing a hold gives back what was reserved.
LEMMA ReleaseHoldGivesBack ==
  ASSUME SoundInv, NEW c \in Calls, ReleaseHold(c), ~ UNCHANGED account
  PROVE  /\ RowsMoveOn
         /\ \E u \in Users, s \in Assets : Books!GiveBack(u, s)
         /\ \A b \in AccountIds :
              /\ account'[b].held = account[b].held
                   - (IF b = Customer(seen[c].row) THEN TotalReserved(seen[c].row) ELSE 0)
              /\ account'[b].balance = account[b].balance
<1> DEFINE a == Customer(seen[c].row)
           total == TotalReserved(seen[c].row)
           rows == [x \in {a} |-> Release(mem[c][a], total)]
<1>1. LedgerTypeOK /\ StoreTypeOK /\ pc[c] \in DecideSteps
  BY DEF SoundInv, LedgerTypeOK, WithdrawalTypeOK, ReleaseHold, DecideSteps
<1>2. /\ seen[c].row \in WithdrawalRow
      /\ seen[c].row.user \in Users /\ seen[c].row.asset \in Assets
  BY <1>1, Deciding DEF WithdrawalRow
<1>3. a \in AccountIds /\ total \in Nat \ {0} /\ mem[c][a] \in Row /\ account[a] \in Row
  BY <1>1, <1>2, WithdrawalFigures DEF StoreTypeOK
<1>4. mem[c][a].held >= total /\ Current(c, {a}) /\ UpdateBalance(rows)
  BY DEF ReleaseHold, SaveAccount, CanSave, tables
<1>5. rows[a] = Release(mem[c][a], total) /\ rows[a] \in Row /\ rows[a].version = mem[c][a].version
  <2>1. /\ Release(mem[c][a], total) \in Row
        /\ Release(mem[c][a], total).version = mem[c][a].version
    <3>1. total \in Int
      BY <1>3
    <3> QED
      BY <1>3, <3>1, RowArithmetic
  <2> QED
    BY <2>1
<1>6. /\ RowsMoveOn /\ mem[c][a] = account[a]
      /\ account'[a].balance = rows[a].balance /\ account'[a].held = rows[a].held
      /\ \A b \in AccountIds \ {a} : account'[b] = account[b]
  <2>1. DOMAIN rows = {a}
    OBVIOUS
  <2> HIDE DEF rows
  <2> QED
    BY <1>3, <1>4, <1>5, <2>1, WriteIsCurrent
<1>7. /\ account'[a].balance = account[a].balance
      /\ account'[a].held = account[a].held - total
      /\ total \in 1..account[a].held
  BY <1>3, <1>4, <1>5, <1>6 DEF Release, Row
<1>8. /\ [b \in AccountIds |-> account'[b].held] =
           [[b \in AccountIds |-> account[b].held] EXCEPT ![a] = @ - total]
      /\ [b \in AccountIds |-> account'[b].balance] = [b \in AccountIds |-> account[b].balance]
  BY <1>3, <1>6, <1>7
<1>9. PICK u \in Users, s \in Assets : a = <<u, s>>
  BY <1>2 DEF Customer
<1>10. Books!GiveBack(u, s)
  BY <1>3, <1>7, <1>8, <1>9 DEF Books!GiveBack
<1>11. \A b \in AccountIds :
         /\ account'[b].held = account[b].held - (IF b = a THEN total ELSE 0)
         /\ account'[b].balance = account[b].balance
  BY <1>1, <1>6, <1>7 DEF StoreTypeOK, Row
<1> QED
  BY <1>6, <1>10, <1>11

\* Posting an approved withdrawal pays out what was reserved, the fee to fees.
LEMMA PostWithdrawalPaysOut ==
  ASSUME SoundInv, NEW c \in Calls, PostWithdrawal(c), ~ UNCHANGED tables
  PROVE  /\ RowsMoveOn
         /\ \E u \in Users, s \in Assets : Books!PayOut(u, s)
         /\ \A x \in AccountIds :
              /\ account'[x].held = account[x].held
                   - (IF x = Customer(seen[c].row) THEN TotalReserved(seen[c].row) ELSE 0)
              /\ account'[x].balance = account[x].balance + WithdrawalEntries(seen[c].row)[x]
<1> DEFINE w == seen[c].row
           a == Customer(w)
           p == PayableId(w.asset)
           f == FeesId(w.asset)
           total == TotalReserved(w)
           fee == Fee[w.asset]
<1>1. LedgerTypeOK /\ StoreTypeOK /\ pc[c] \in DecideSteps
  BY DEF SoundInv, LedgerTypeOK, WithdrawalTypeOK, PostWithdrawal, DecideSteps
<1>2. w \in WithdrawalRow /\ w.user \in Users /\ w.asset \in Assets
  BY <1>1, Deciding DEF WithdrawalRow
<1>3. /\ a \in AccountIds /\ p \in AccountIds /\ f \in AccountIds
      /\ a # p /\ a # f /\ p # f
      /\ w.amount \in Nat \ {0} /\ fee \in Nat /\ total = w.amount + fee
  <2>1. p # f
    BY DEF PayableId, FeesId
  <2> QED
    BY <1>2, <2>1, WithdrawalFigures
<1>4. /\ mem[c][a] \in Row /\ mem[c][p] \in Row /\ mem[c][f] \in Row
      /\ account[a] \in Row /\ account[p] \in Row /\ account[f] \in Row
  BY <1>1, <1>3 DEF StoreTypeOK
<1>5. /\ mem[c][a].held >= total /\ Current(c, DOMAIN WithdrawalRows(c, w))
      /\ UpdateBalance(WithdrawalRows(c, w))
  BY DEF PostWithdrawal, Post, CanPost, tables
<1>6. /\ RowsMoveOn
      /\ \A x \in {a, p, f} : /\ mem[c][x] = account[x]
                              /\ account'[x].balance = WithdrawalRows(c, w)[x].balance
                              /\ account'[x].held = WithdrawalRows(c, w)[x].held
      /\ \A x \in AccountIds \ {a, p, f} : account'[x] = account[x]
  <2> DEFINE rows == WithdrawalRows(c, w)
  <2>1. /\ DOMAIN rows = {a, p, f} /\ DOMAIN rows \subseteq AccountIds
        /\ \A x \in DOMAIN rows : rows[x] \in Row /\ rows[x].version = mem[c][x].version
    BY <1>1, <1>2, WithdrawalRowsTyped
  <2>2. Current(c, DOMAIN rows) /\ UpdateBalance(rows)
    BY <1>5
  <2> HIDE DEF rows
  <2>3. /\ RowsMoveOn
        /\ \A x \in DOMAIN rows : /\ mem[c][x] = account[x]
                                  /\ account'[x].balance = rows[x].balance
                                  /\ account'[x].held = rows[x].held
        /\ \A x \in AccountIds \ DOMAIN rows : account'[x] = account[x]
    BY <2>1, <2>2, WriteIsCurrent
  <2> QED
    BY <2>1, <2>3 DEF rows
<1>7. /\ WithdrawalRows(c, w)[a] = ApplyDelta(Release(mem[c][a], total), -total)
      /\ WithdrawalRows(c, w)[p] = ApplyDelta(mem[c][p], w.amount)
      /\ WithdrawalRows(c, w)[f] = ApplyDelta(mem[c][f], fee)
  BY <1>3 DEF WithdrawalRows
<1>8. /\ account'[a].balance = account[a].balance - total
      /\ account'[a].held = account[a].held - total
      /\ account'[p].balance = account[p].balance + w.amount /\ account'[p].held = account[p].held
      /\ account'[f].balance = account[f].balance + fee /\ account'[f].held = account[f].held
  <2>1. /\ ApplyDelta(Release(account[a], total), -total).balance = account[a].balance - total
        /\ ApplyDelta(Release(account[a], total), -total).held = account[a].held - total
    BY <1>3, <1>4 DEF ApplyDelta, Release, Row
  <2>2. /\ ApplyDelta(account[p], w.amount).balance = account[p].balance + w.amount
        /\ ApplyDelta(account[p], w.amount).held = account[p].held
    BY <1>3, <1>4 DEF ApplyDelta, Row
  <2>3. /\ ApplyDelta(account[f], fee).balance = account[f].balance + fee
        /\ ApplyDelta(account[f], fee).held = account[f].held
    BY <1>3, <1>4 DEF ApplyDelta, Row
  <2> QED
    BY <1>6, <1>7, <2>1, <2>2, <2>3
<1>9. total \in 1..account[a].held /\ fee \in 0..(total - 1) /\ w.amount = total - fee
  BY <1>3, <1>4, <1>5, <1>6 DEF Row
<1>14. \A x \in AccountIds :
         /\ account'[x].held = account[x].held - (IF x = a THEN total ELSE 0)
         /\ account'[x].balance = account[x].balance + WithdrawalEntries(w)[x]
  <2>1. /\ WithdrawalEntries(w)[a] = -total /\ WithdrawalEntries(w)[p] = w.amount
        /\ WithdrawalEntries(w)[f] = fee
        /\ \A x \in AccountIds \ {a, p, f} : WithdrawalEntries(w)[x] = 0
    BY <1>3 DEF WithdrawalEntries, NoEntries
  <2>2. \A x \in AccountIds : account[x].balance \in Int /\ account[x].held \in Int
    BY <1>1 DEF StoreTypeOK, Row
  <2> HIDE DEF a, p, f, fee, total
  <2> QED
    BY <1>3, <1>6, <1>8, <2>1, <2>2
<1> HIDE DEF a, p, f, fee, total
<1>10. [x \in AccountIds |-> account'[x].held] =
         [[x \in AccountIds |-> account[x].held] EXCEPT ![a] = @ - total]
  BY <1>3, <1>6, <1>8
<1>11. [x \in AccountIds |-> account'[x].balance] =
         [[x \in AccountIds |-> account[x].balance] EXCEPT
            ![a] = @ - total, ![p] = @ + (total - fee), ![f] = @ + fee]
  BY <1>3, <1>6, <1>8, <1>9
<1>12. PICK u \in Users, s \in Assets :
         a = <<u, s>> /\ p = <<"payable", s>> /\ f = <<"fees", s>>
  BY <1>2 DEF a, p, f, Customer, PayableId, FeesId
<1>13. Books!PayOut(u, s)
  BY <1>3, <1>9, <1>10, <1>11, <1>12 DEF Books!PayOut
<1> QED
  BY <1>6, <1>13, <1>14 DEF a, total

\* Two rows written as CreditRows computes them take n from one account and add it to the
\* other, and touch no hold.
LEMMA CreditRowsMove ==
  ASSUME SoundInv, NEW c \in Calls, NEW to \in AccountIds, NEW from \in AccountIds, to # from,
         NEW n \in Nat, Current(c, DOMAIN CreditRows(c, to, from, n)),
         UpdateBalance(CreditRows(c, to, from, n))
  PROVE  /\ RowsMoveOn
         /\ \A x \in AccountIds :
              /\ account'[x].held = account[x].held
              /\ account'[x].balance = account[x].balance
                                         + (IF x = to THEN n ELSE IF x = from THEN -n ELSE 0)
<1> DEFINE rows == CreditRows(c, to, from, n)
<1>1. StoreTypeOK
  BY DEF SoundInv, LedgerTypeOK, WithdrawalTypeOK
<1>2. \A x \in AccountIds : account[x] \in Row /\ mem[c][x] \in Row
  BY <1>1 DEF StoreTypeOK
<1>3. /\ DOMAIN rows = {to, from} /\ DOMAIN rows \subseteq AccountIds
      /\ \A a \in DOMAIN rows : rows[a] \in Row /\ rows[a].version = mem[c][a].version
  <2>1. DOMAIN rows = {to, from}
    BY DEF CreditRows
  <2>2. DOMAIN rows \subseteq AccountIds
    BY <1>1, CreditRowsTyped, Zenon
  <2>3. \A a \in DOMAIN rows : rows[a] \in Row /\ rows[a].version = mem[c][a].version
    BY <1>1, CreditRowsTyped, Zenon
  <2> QED
    BY <2>1, <2>2, <2>3
<1>4. Current(c, DOMAIN rows) /\ UpdateBalance(rows)
  OBVIOUS
<1>5. rows[to] = ApplyDelta(mem[c][to], n) /\ rows[from] = ApplyDelta(mem[c][from], -n)
  BY DEF CreditRows
<1> HIDE DEF rows
<1>6. /\ RowsMoveOn
      /\ \A x \in {to, from} : /\ mem[c][x] = account[x]
                               /\ account'[x].balance = rows[x].balance
                               /\ account'[x].held = rows[x].held
      /\ \A x \in AccountIds \ {to, from} : account'[x] = account[x]
  BY <1>3, <1>4, WriteIsCurrent
<1>7. /\ account'[to].balance = account[to].balance + n /\ account'[to].held = account[to].held
      /\ account'[from].balance = account[from].balance - n
      /\ account'[from].held = account[from].held
  BY <1>2, <1>5, <1>6 DEF ApplyDelta, Row
<1>8. \A x \in AccountIds : account[x].balance \in Int
  BY <1>2 DEF Row
<1> QED
  BY <1>6, <1>7, <1>8

\* From custody or demo to a customer, that is a credit of the abstract ledger.
LEMMA CreditRowsCredit ==
  ASSUME SoundInv, NEW c \in Calls, NEW u \in Users, NEW s \in Assets,
         NEW source \in {"custody", "demo"}, NEW n \in Nat, n # 0,
         Current(c, DOMAIN CreditRows(c, <<u, s>>, <<source, s>>, n)),
         UpdateBalance(CreditRows(c, <<u, s>>, <<source, s>>, n))
  PROVE  RowsMoveOn /\ Books!Credit(u, s, source)
<1>1. <<u, s>> \in AccountIds /\ <<source, s>> \in AccountIds /\ <<u, s>> # <<source, s>>
  <2>1. source \in Platform
    BY DEF Platform
  <2> QED
    BY <2>1, IdsTyped
<1>2. /\ RowsMoveOn
      /\ \A x \in AccountIds :
           /\ account'[x].held = account[x].held
           /\ account'[x].balance = account[x].balance
                + (IF x = <<u, s>> THEN n ELSE IF x = <<source, s>> THEN -n ELSE 0)
  BY <1>1, CreditRowsMove
<1>3. \A x \in AccountIds : account[x].balance \in Int
  BY DEF SoundInv, LedgerTypeOK, WithdrawalTypeOK, StoreTypeOK, Row
<1>4. [x \in AccountIds |-> account'[x].held] = [x \in AccountIds |-> account[x].held]
  BY <1>2
<1>5. [x \in AccountIds |-> account'[x].balance] =
        [[x \in AccountIds |-> account[x].balance] EXCEPT
           ![<<u, s>>] = @ + n, ![<<source, s>>] = @ - n]
  <2> DEFINE old == [x \in AccountIds |-> account[x].balance]
             new == [x \in AccountIds |-> account'[x].balance]
  <2>1. new[<<u, s>>] = old[<<u, s>>] + n /\ new[<<source, s>>] = old[<<source, s>>] - n
    BY <1>1, <1>2, <1>3
  <2>2. \A x \in AccountIds \ {<<u, s>>, <<source, s>>} : new[x] = old[x]
    BY <1>2, <1>3
  <2> QED
    BY <1>1, <2>1, <2>2
<1>6. [x \in AccountIds |-> account'[x].balance][<<u, s>>]
        - [x \in AccountIds |-> account[x].balance][<<u, s>>] = n
  BY <1>1, <1>2, <1>3
<1>7. n > 0
  OBVIOUS
<1>8. Books!Credit(u, s, source)
  BY <1>4, <1>5, <1>6, <1>7 DEF Books!Credit
<1> QED
  BY <1>2, <1>8

----------------------------------------------------------------------------
(* The invariant, and the abstract ledger *)

\* Every step leaves the accounts alone or is a movement of the abstract ledger, and every
\* row it writes moves on.
LEMMA StepMoves ==
  ASSUME SoundInv, NEW c \in Calls, Step(c)
  PROVE  /\ RowsMoveOn
         /\ UNCHANGED account \/ Books!Next
<1>1. LedgerTypeOK
  BY DEF SoundInv
<1>2. CASE UNCHANGED account
  BY <1>2 DEF RowsMoveOn
<1>3. CASE PlaceHold(c) /\ ~ UNCHANGED account
  BY <1>3, PlaceHoldReserves DEF Books!Next
<1>4. CASE ReleaseHold(c) /\ ~ UNCHANGED account
  BY <1>4, ReleaseHoldGivesBack DEF Books!Next
<1>5. CASE PostWithdrawal(c) /\ ~ UNCHANGED account
  BY <1>5, PostWithdrawalPaysOut DEF Books!Next, tables
<1>6. CASE PostClaim(c) /\ ~ UNCHANGED account
  <2>1. pc[c] = "postClaim" /\ pc[c] \in SettleSteps
    BY <1>6 DEF PostClaim, SettleSteps
  <2>2. seen[c] \in ClaimRow /\ cmd[c].amount \in Nat /\ cmd[c].amount # 0
    BY <1>1, <2>1, Settling DEF LedgerTypeOK, ClaimTypeOK, ClaimCallOK
  <2>3. PICK u \in Users, s \in Assets, n \in Nat :
          seen[c].user = u /\ seen[c].asset = s /\ cmd[c].amount = n
    BY <2>2 DEF ClaimRow
  <2>4. /\ Current(c, DOMAIN CreditRows(c, <<u, s>>, <<"custody", s>>, n))
        /\ UpdateBalance(CreditRows(c, <<u, s>>, <<"custody", s>>, n))
    BY <1>6, <2>3 DEF PostClaim, Post, CanPost, Claimant, Custody, tables
  <2>5. RowsMoveOn /\ Books!Credit(u, s, "custody")
    BY <2>2, <2>3, <2>4, CreditRowsCredit
  <2> QED
    BY <2>3, <2>5 DEF Books!Next, Books!Sources
<1>7. CASE PostCredit(c) /\ ~ UNCHANGED account
  <2>1. pc[c] \in CreditSteps
    BY <1>7 DEF PostCredit, CreditSteps
  <2>2. cmd[c] \in CreditCommand /\ cmd[c].amount \in Nat /\ cmd[c].amount # 0
    BY <1>1, <2>1, Crediting
  <2>3. PICK u \in Users, s \in Assets, source \in {"custody", "demo"}, n \in Nat :
          cmd[c].user = u /\ cmd[c].asset = s /\ cmd[c].source = source /\ cmd[c].amount = n
    BY <2>2 DEF CreditCommand
  <2>4. /\ Current(c, DOMAIN CreditRows(c, <<u, s>>, <<source, s>>, n))
        /\ UpdateBalance(CreditRows(c, <<u, s>>, <<source, s>>, n))
    BY <1>7, <2>3 DEF PostCredit, Post, CanPost, tables
  <2>5. RowsMoveOn /\ Books!Credit(u, s, source)
    BY <2>2, <2>3, <2>4, CreditRowsCredit
  <2> QED
    BY <2>3, <2>5 DEF Books!Next, Books!Sources
<1> QED
  BY <1>2, <1>3, <1>4, <1>5, <1>6, <1>7, WritersOfAccounts

\* What a call remembers stays true or falls behind.
LEMMA StepKeepsReadsSound ==
  ASSUME SoundInv, NEW c \in Calls, Step(c)
  PROVE  ReadsAreSound' /\ VersionsCount'
<1>1. /\ LedgerTypeOK /\ StoreTypeOK /\ TypedStep(c) /\ StoreTypeOK'
      /\ RowsMoveOn /\ RemembersOrReads(c)
  BY StepTyped, StepMoves, StepRemembers
  DEF SoundInv, LedgerTypeOK, WithdrawalTypeOK, TypedStep, Step
<1>2. \A a \in AccountIds : account[a].version \in Int /\ account[a].version >= 0
  BY <1>1 DEF StoreTypeOK, Row, SoundInv, VersionsCount
<1>3. VersionsCount'
  BY <1>1, <1>2 DEF VersionsCount, RowsMoveOn
<1>4. ASSUME NEW d \in Calls, NEW a \in AccountIds
      PROVE  /\ mem'[d][a].version <= account'[a].version
             /\ mem'[d][a].version = account'[a].version => mem'[d][a] = account'[a]
  <2>1. /\ mem[d][a].version <= account[a].version
        /\ mem[d][a].version = account[a].version => mem[d][a] = account[a]
        /\ mem[d][a].version \in Int
    BY <1>1 DEF SoundInv, ReadsAreSound, StoreTypeOK, Row
  <2>2. account'[a] = account[a] \/ account'[a].version = account[a].version + 1
    BY <1>1 DEF RowsMoveOn
  <2>3. CASE mem'[d][a] = mem[d][a]
    BY <1>2, <2>1, <2>2, <2>3
  <2>4. CASE mem'[d][a] = Unread
    BY <1>2, <2>2, <2>4 DEF Unread
  <2>5. CASE mem'[d][a] = account[a] /\ UNCHANGED account
    BY <1>2, <2>5
  <2>6. CASE d # c
    BY <1>1, <2>3, <2>6 DEF TypedStep, LeavesOthers
  <2> QED
    BY <1>1, <2>3, <2>4, <2>5, <2>6 DEF RemembersOrReads
<1> QED
  BY <1>3, <1>4 DEF ReadsAreSound

\* The invariant holds when the ledger opens, and every step keeps it.
LEMMA SoundInvHolds == Spec => []SoundInv
<1>1. Init => SoundInv
  <2> SUFFICES ASSUME Init PROVE SoundInv
    OBVIOUS
  <2>1. LedgerTypeOK
    BY TypeInit
  <2>2. /\ \A a \in AccountIds : account[a].version = 0
        /\ \A c \in Calls, a \in AccountIds : mem[c][a].version = -1
    BY DEF Init, StoreInit, NothingRead, Unread
  <2> QED
    BY <2>1, <2>2 DEF SoundInv, ReadsAreSound, VersionsCount
<1>2. SoundInv /\ [Next]_vars => SoundInv'
  <2> SUFFICES ASSUME SoundInv, [Next]_vars PROVE SoundInv'
    OBVIOUS
  <2>1. CASE Next
    <3>1. PICK c \in Calls : Step(c)
      BY <2>1 DEF Next, Step
    <3>2. LedgerTypeOK'
      BY <3>1, StepTyped, TypedStepKeepsTypes DEF SoundInv, Step
    <3> QED
      BY <3>1, <3>2, StepKeepsReadsSound DEF SoundInv
  <2>2. CASE UNCHANGED vars
    <3>1. LedgerTypeOK'
      BY <2>2 DEF SoundInv, vars, storeVars, tables, callVars, withdrawalVars, claimVars,
         LedgerTypeOK, WithdrawalTypeOK, ClaimTypeOK, StoreTypeOK, WithdrawalTablesOK,
         ClaimTablesOK, WithdrawalCallOK, ClaimCallOK
    <3> QED
      BY <2>2, <3>1 DEF SoundInv, vars, storeVars, tables, callVars, ReadsAreSound, VersionsCount
  <2> QED
    BY <2>1, <2>2
<1> QED
  BY <1>1, <1>2, PTL DEF Spec

\* A copy whose version is still current is the row, however many calls write at once: the
\* version guard of saveAccounts and post is enough to work on copies.
THEOREM ReadsStaySound == Spec => []ReadsAreSound
<1>1. SoundInv => ReadsAreSound
  BY DEF SoundInv
<1> QED
  BY <1>1, SoundInvHolds, PTL

\* The ledger implements the abstract ledger: whatever calls interleave, crash or lose a
\* reply, its balances and holds change only by whole, allowed movements.
THEOREM LedgerImplementsBooks == Spec => MovementsAreAtomic
<1>1. Init => Books!Init
  <2> SUFFICES ASSUME Init PROVE Books!Init
    OBVIOUS
  <2>1. /\ \A a \in AccountIds : account[a].balance = Opening[a] /\ account[a].held = 0
        /\ Opening \in [AccountIds -> Int] /\ \A a \in CustomerIds : Opening[a] >= 0
    BY OpeningAssumption DEF Init, StoreInit
  <2>2. \A u \in Users, s \in Assets : <<u, s>> \in CustomerIds /\ <<u, s>> \in AccountIds
    BY IdsTyped
  <2> QED
    BY <2>1, <2>2, SameAccounts DEF Books!Init
<1>2. SoundInv /\ [Next]_vars =>
        [Books!Next]_<<[a \in AccountIds |-> account[a].balance],
                       [a \in AccountIds |-> account[a].held]>>
  <2> SUFFICES ASSUME SoundInv, [Next]_vars
               PROVE  Books!Next \/ UNCHANGED account
    BY Zenon
  <2>1. CASE Next
    BY <2>1, StepMoves DEF Next, Step
  <2>2. CASE UNCHANGED vars
    BY <2>2 DEF vars, storeVars, tables
  <2> QED
    BY <2>1, <2>2
<1> QED
  BY <1>1, <1>2, SoundInvHolds, PTL DEF Spec, MovementsAreAtomic, Books!Spec

\* A movement of the abstract ledger leaves every customer's hold covered.
LEMMA MovementsStayCovered ==
  ASSUME StoreTypeOK, StoreTypeOK', HeldWithinBalance, Books!Next
  PROVE  HeldWithinBalance'
<1> DEFINE b == [a \in AccountIds |-> account[a].balance]
           h == [a \in AccountIds |-> account[a].held]
           b2 == [a \in AccountIds |-> account'[a].balance]
           h2 == [a \in AccountIds |-> account'[a].held]
<1>1. /\ b \in [AccountIds -> Int] /\ h \in [AccountIds -> Int]
      /\ b2 \in [AccountIds -> Int] /\ h2 \in [AccountIds -> Int]
  BY DEF StoreTypeOK, Row
<1>2. \A a \in CustomerIds : 0 <= h[a] /\ h[a] <= b[a]
  BY IdsTyped DEF HeldWithinBalance
<1>3. SUFFICES \A a \in CustomerIds : 0 <= h2[a] /\ h2[a] <= b2[a]
  BY IdsTyped DEF HeldWithinBalance
<1>4. PICK u \in Users, s \in Assets :
        \/ \E source \in Books!Sources : Books!Credit(u, s, source)
        \/ Books!Reserve(u, s) \/ Books!GiveBack(u, s) \/ Books!PayOut(u, s)
  BY DEF Books!Next
<1>5. <<u, s>> \in CustomerIds
  BY IdsTyped
<1>6. ASSUME NEW source \in Books!Sources, Books!Credit(u, s, source)
      PROVE  \A a \in CustomerIds : 0 <= h2[a] /\ h2[a] <= b2[a]
  <2>1. <<source, s>> \in AccountIds \ CustomerIds
    <3>1. source \in Platform
      BY DEF Books!Sources, Platform
    <3> QED
      BY <3>1, IdsTyped
  <2>2. PICK n \in Int : n > 0 /\ b2 = [b EXCEPT ![<<u, s>>] = @ + n, ![<<source, s>>] = @ - n]
    <3>1. b2[<<u, s>>] - b[<<u, s>>] \in Int
      BY <1>1, <1>5, IdsTyped
    <3> QED
      BY <1>6, <3>1 DEF Books!Credit
  <2>3. h2 = h
    BY <1>6 DEF Books!Credit
  <2> HIDE DEF b, h, b2, h2
  <2> QED
    BY <1>1, <1>2, <1>5, <2>1, <2>2, <2>3, IdsTyped
<1>7. CASE Books!Reserve(u, s)
  <2>1. PICK n \in 1..(b[<<u, s>>] - h[<<u, s>>]) : h2 = [h EXCEPT ![<<u, s>>] = @ + n]
    BY <1>7 DEF Books!Reserve
  <2>2. b2 = b
    BY <1>7 DEF Books!Reserve
  <2> HIDE DEF b, h, b2, h2
  <2> QED
    BY <1>1, <1>2, <1>5, <2>1, <2>2, IdsTyped
<1>8. CASE Books!GiveBack(u, s)
  <2>1. PICK n \in 1..h[<<u, s>>] : h2 = [h EXCEPT ![<<u, s>>] = @ - n]
    BY <1>8 DEF Books!GiveBack
  <2>2. b2 = b
    BY <1>8 DEF Books!GiveBack
  <2> HIDE DEF b, h, b2, h2
  <2> QED
    BY <1>1, <1>2, <1>5, <2>1, <2>2, IdsTyped
<1>9. CASE Books!PayOut(u, s)
  <2>1. PICK n \in 1..h[<<u, s>>] : \E fee \in 0..(n - 1) :
          /\ b2 = [b EXCEPT ![<<u, s>>] = @ - n, ![<<"payable", s>>] = @ + (n - fee),
                            ![<<"fees", s>>] = @ + fee]
          /\ h2 = [h EXCEPT ![<<u, s>>] = @ - n]
    BY <1>9 DEF Books!PayOut
  <2>2. PICK fee \in 0..(n - 1) :
          /\ b2 = [b EXCEPT ![<<u, s>>] = @ - n, ![<<"payable", s>>] = @ + (n - fee),
                            ![<<"fees", s>>] = @ + fee]
          /\ h2 = [h EXCEPT ![<<u, s>>] = @ - n]
    BY <2>1
  <2>3. <<"payable", s>> \in AccountIds \ CustomerIds /\ <<"fees", s>> \in AccountIds \ CustomerIds
    BY IdsTyped DEF Platform
  <2> HIDE DEF b, h, b2, h2
  <2>4. h2[<<u, s>>] = h[<<u, s>>] - n /\ b2[<<u, s>>] = b[<<u, s>>] - n
    BY <1>1, <1>5, <2>2, <2>3, IdsTyped
  <2>5. \A a \in CustomerIds \ {<<u, s>>} : h2[a] = h[a] /\ b2[a] = b[a]
    BY <1>1, <1>5, <2>2, <2>3, IdsTyped
  <2>6. 0 <= h2[<<u, s>>] /\ h2[<<u, s>>] <= b2[<<u, s>>]
    BY <1>1, <1>2, <1>5, <2>4, IdsTyped
  <2> QED
    BY <1>2, <2>5, <2>6
<1> QED
  BY <1>4, <1>6, <1>7, <1>8, <1>9

\* No customer is ever reserved more than the customer has, for any number of customers,
\* amounts and calls: it holds of the abstract ledger, which the ledger implements.
THEOREM HoldsStayCovered == Spec => []HeldWithinBalance
<1>1. Init => HeldWithinBalance
  BY OpeningAssumption, IdsTyped DEF Init, StoreInit, HeldWithinBalance
<1>2. SoundInv /\ SoundInv' /\ HeldWithinBalance /\ [Next]_vars => HeldWithinBalance'
  <2> SUFFICES ASSUME SoundInv, SoundInv', HeldWithinBalance, [Next]_vars
               PROVE  HeldWithinBalance'
    OBVIOUS
  <2>1. StoreTypeOK /\ StoreTypeOK'
    BY DEF SoundInv, LedgerTypeOK, WithdrawalTypeOK
  <2>2. CASE Books!Next
    BY <2>1, <2>2, MovementsStayCovered
  <2>3. CASE UNCHANGED account
    BY <2>3 DEF HeldWithinBalance
  <2>4. CASE Next
    BY <2>2, <2>3, <2>4, StepMoves DEF Next, Step
  <2>5. CASE UNCHANGED vars
    BY <2>3, <2>5 DEF vars, storeVars, tables
  <2> QED
    BY <2>4, <2>5
<1> QED
  BY <1>1, <1>2, SoundInvHolds, PTL DEF Spec

=============================================================================

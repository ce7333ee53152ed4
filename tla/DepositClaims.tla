--------------------------- MODULE DepositClaims ---------------------------
(***************************************************************************)
(* Money arriving, over the tables of LedgerStore: a customer reports a    *)
(* deposit with a proof (submitDepositClaim), an operator marks it as      *)
(* waiting on the chain (markDepositConfirming) or decides it              *)
(* (decideDepositClaim), and operators credit a customer directly, from    *)
(* custody (recordDeposit) or as demo funds (grantDemoFunds).              *)
(*                                                                         *)
(* The commands enumerated pass the checks no table is needed for (asset,  *)
(* network, amount, inspected proof, stated reason or reference).          *)
(***************************************************************************)
EXTENDS LedgerStore

CONSTANTS
  Deposits,       \* the amounts customers report and operators credit
  RepliesMayFail  \* a write may raise, before it committed or after

ASSUME DepositsAssumption == Deposits \subseteq Nat
ASSUME RepliesAssumption == RepliesMayFail \in BOOLEAN

VARIABLES
  claim,   \* claim[k]: the row of deposit claim k, or None
  proofs   \* the claims whose proof image is stored; a proof's key is fresh per claim

claimVars == <<claim, proofs>>

SubmitCommand == [op : {"submit"}, user : Users, asset : Assets, amount : Deposits]
MarkCommand == [op : {"mark"}, target : Calls]
SettleCommand == [op : {"settle"}, target : Calls, operator : Operators,
                  decision : {"approve", "reject"}, amount : Deposits \cup {0}]
CreditCommand == [op : {"credit"}, user : Users, asset : Assets, amount : Deposits \ {0},
                  source : {"custody", "demo"}]

\* The confirming_* fields follow status and are left out; credited is 0 for null.
ClaimRow == [user : Users, asset : Assets, claimed : Deposits,
             status : {"pending", "confirming", "approved", "rejected"},
             credited : Deposits \cup {0}, transferId : Calls \cup {None},
             decidedBy : Operators \cup {None}]

SubmitSteps == {"saveClaim", "removeProof"}
SettleSteps == {"readClaimant", "readCustody", "postClaim", "saveVerdict"}
CreditSteps == {"readSource", "postCredit"}

Undecided(k) == k.status \in {"pending", "confirming"}

----------------------------------------------------------------------------
(* submitDepositClaim *)

\* Mutant: the claim does not wait for its proof.
PutProofUnstored(c, u, s, n) ==
  /\ pc[c] = "idle"
  /\ n > 0
  /\ cmd' = [cmd EXCEPT ![c] = [op |-> "submit", user |-> u, asset |-> s, amount |-> n]]
  /\ GoTo(c, "saveClaim")
  /\ UNCHANGED <<tables, mem, seen, claimVars>>

\* The proof is stored first, under a key of its own.
PutProof(c, u, s, n) ==
  /\ pc[c] = "idle"
  /\ n > 0
  /\ proofs' = proofs \cup {c}
  /\ cmd' = [cmd EXCEPT ![c] = [op |-> "submit", user |-> u, asset |-> s, amount |-> n]]
  /\ GoTo(c, "saveClaim")
  /\ UNCHANGED <<tables, mem, seen, claim>>

NewClaim(c) ==
  [user |-> cmd[c].user, asset |-> cmd[c].asset, claimed |-> cmd[c].amount,
   status |-> "pending", credited |-> 0, transferId |-> None, decidedBy |-> None]

SaveClaim(c) ==
  /\ pc[c] = "saveClaim"
  /\ claim' = [claim EXCEPT ![c] = NewClaim(c)]
  /\ End(c, "ok")
  /\ UNCHANGED <<tables, proofs>>

\* The insert raises: it was refused, or it committed and the answer was lost.
SaveClaimRaises(c) ==
  /\ RepliesMayFail
  /\ pc[c] = "saveClaim"
  /\ UNCHANGED claim \/ claim' = [claim EXCEPT ![c] = NewClaim(c)]
  /\ GoTo(c, "removeProof")
  /\ UNCHANGED <<tables, cmd, mem, seen, proofs>>

\* The proof is taken out again, with the outcome of that ignored.
RemoveProof(c) ==
  /\ pc[c] = "removeProof"
  /\ proofs' = proofs \ {c} \/ UNCHANGED proofs
  /\ End(c, "failed")
  /\ UNCHANGED <<tables, claim>>

----------------------------------------------------------------------------
(* markDepositConfirming *)

Reading(c, k, command, next) ==
  /\ seen' = [seen EXCEPT ![c] = claim[k]]
  /\ cmd' = [cmd EXCEPT ![c] = command]
  /\ GoTo(c, next)
  /\ UNCHANGED mem

InHand(k) ==
  \E d \in Calls : pc[d] \in SettleSteps \cup {"saveMark"} /\ cmd[d].target = k

\* Mutant: a decided claim may be marked.
ReadToMarkDecided(c, k) ==
  /\ pc[c] = "idle"
  /\ OneAtATime => ~InHand(k)
  /\ IF claim[k] = None
     THEN End(c, "refused")
     ELSE Reading(c, k, [op |-> "mark", target |-> k], "saveMark")
  /\ UNCHANGED <<tables, claimVars>>

\* Mutant: a claim that was not found is gone on with.
ReadToMarkMissing(c, k) ==
  /\ pc[c] = "idle"
  /\ OneAtATime => ~InHand(k)
  /\ IF claim[k] # None /\ claim[k].status # "pending"
     THEN End(c, "refused")
     ELSE Reading(c, k, [op |-> "mark", target |-> k], "saveMark")
  /\ UNCHANGED <<tables, claimVars>>

ReadToMark(c, k) ==
  /\ pc[c] = "idle"
  /\ OneAtATime => ~InHand(k)
  /\ IF claim[k] = None \/ claim[k].status # "pending"
     THEN End(c, "refused")
     ELSE Reading(c, k, [op |-> "mark", target |-> k], "saveMark")
  /\ UNCHANGED <<tables, claimVars>>

\* claims.save writes every decision field from the copy, null ones included.
SaveMark(c) ==
  /\ pc[c] = "saveMark"
  /\ claim' = [claim EXCEPT ![cmd[c].target] = [seen[c] EXCEPT !.status = "confirming"]]
  /\ End(c, "ok")
  /\ UNCHANGED <<tables, proofs>>

----------------------------------------------------------------------------
(* decideDepositClaim *)

\* Mutant: a decided claim may be decided again.
ReadToSettleDecided(c, k, o, d, n) ==
  /\ pc[c] = "idle"
  /\ d = "reject" => n = 0
  /\ OneAtATime => ~InHand(k)
  /\ IF claim[k] = None
     THEN End(c, "refused")
     ELSE Reading(c, k,
            [op |-> "settle", target |-> k, operator |-> o, decision |-> d, amount |-> n],
            IF d = "reject" THEN "saveVerdict" ELSE "readClaimant")
  /\ UNCHANGED <<tables, claimVars>>

\* A pending or a confirming claim may be decided, once read as such.
ReadToSettle(c, k, o, d, n) ==
  /\ pc[c] = "idle"
  /\ d = "reject" => n = 0
  /\ OneAtATime => ~InHand(k)
  /\ IF claim[k] = None \/ ~Undecided(claim[k])
     THEN End(c, "refused")
     ELSE Reading(c, k,
            [op |-> "settle", target |-> k, operator |-> o, decision |-> d, amount |-> n],
            IF d = "reject" THEN "saveVerdict" ELSE "readClaimant")
  /\ UNCHANGED <<tables, claimVars>>

Claimant(c) == <<seen[c].user, seen[c].asset>>
Custody(c) == <<"custody", seen[c].asset>>

ReadClaimant(c) ==
  /\ pc[c] = "readClaimant"
  /\ FindOrOpen(c, Claimant(c))
  /\ GoTo(c, "readCustody")
  /\ UNCHANGED <<tables, cmd, seen, claimVars>>

\* An approval must credit a positive amount (DepositClaim.approve).
ReadCustody(c) ==
  /\ pc[c] = "readCustody"
  /\ IF cmd[c].amount = 0
     THEN End(c, "refused")
     ELSE /\ FindOrOpen(c, Custody(c))
          /\ GoTo(c, "postClaim")
          /\ UNCHANGED <<cmd, seen>>
  /\ UNCHANGED <<tables, claimVars>>

CreditEntries(to, from, n) == [NoEntries EXCEPT ![to] = n, ![from] = -n]
CreditRows(c, to, from, n) ==
  [a \in {to, from} |-> ApplyDelta(mem[c][a], IF a = to THEN n ELSE -n)]

\* Mutant: a failed post does not stop the verdict from being saved.
PostClaimSwallowed(c) ==
  LET entries == CreditEntries(Claimant(c), Custody(c), cmd[c].amount)
      rows == CreditRows(c, Claimant(c), Custody(c), cmd[c].amount)
  IN /\ pc[c] = "postClaim"
     /\ IF CanPost(c, entries, rows)
        THEN Post(c, "deposit", cmd[c].target, entries, rows)
        ELSE UNCHANGED tables
     /\ GoTo(c, "saveVerdict")
     /\ UNCHANGED <<cmd, mem, seen, claimVars>>

\* The customer's balance and custody's move together, or neither does.
PostClaim(c) ==
  LET entries == CreditEntries(Claimant(c), Custody(c), cmd[c].amount)
      rows == CreditRows(c, Claimant(c), Custody(c), cmd[c].amount)
  IN /\ pc[c] = "postClaim"
     /\ IF CanPost(c, entries, rows)
        THEN /\ Post(c, "deposit", cmd[c].target, entries, rows)
             /\ GoTo(c, "saveVerdict")
             /\ UNCHANGED <<cmd, mem, seen>>
        ELSE End(c, "failed") /\ UNCHANGED tables
     /\ UNCHANGED claimVars

\* The verdict replaces the decision fields, whatever they hold by now.
SaveVerdict(c) ==
  /\ pc[c] = "saveVerdict"
  /\ claim' = [claim EXCEPT ![cmd[c].target] =
       IF cmd[c].decision = "reject"
       THEN [seen[c] EXCEPT !.status = "rejected", !.decidedBy = cmd[c].operator]
       ELSE [seen[c] EXCEPT !.status = "approved", !.decidedBy = cmd[c].operator,
                            !.credited = cmd[c].amount, !.transferId = c]]
  /\ End(c, "ok")
  /\ UNCHANGED <<tables, proofs>>

----------------------------------------------------------------------------
(* recordDeposit, from custody, and grantDemoFunds, from demo *)

ReadForCredit(c, u, s, n, source) ==
  /\ pc[c] = "idle"
  /\ n > 0
  /\ FindOrOpen(c, <<u, s>>)
  /\ cmd' = [cmd EXCEPT
       ![c] = [op |-> "credit", user |-> u, asset |-> s, amount |-> n, source |-> source]]
  /\ GoTo(c, "readSource")
  /\ UNCHANGED <<tables, seen, claimVars>>

ReadSource(c) ==
  /\ pc[c] = "readSource"
  /\ FindOrOpen(c, <<cmd[c].source, cmd[c].asset>>)
  /\ GoTo(c, "postCredit")
  /\ UNCHANGED <<tables, cmd, seen, claimVars>>

PostCredit(c) ==
  LET to == <<cmd[c].user, cmd[c].asset>>
      from == <<cmd[c].source, cmd[c].asset>>
      entries == CreditEntries(to, from, cmd[c].amount)
      rows == CreditRows(c, to, from, cmd[c].amount)
  IN /\ pc[c] = "postCredit"
     /\ IF CanPost(c, entries, rows)
        THEN Post(c, "deposit", None, entries, rows) /\ End(c, "ok")
        ELSE End(c, "failed") /\ UNCHANGED tables
     /\ UNCHANGED claimVars

----------------------------------------------------------------------------
ClaimInit ==
  /\ claim = [c \in Calls |-> None]
  /\ proofs = {}

Submit(c) ==
  \/ \E u \in Users, s \in Assets, n \in Deposits : PutProof(c, u, s, n)
  \/ SaveClaim(c)
  \/ SaveClaimRaises(c)
  \/ RemoveProof(c)

Mark(c) == (\E k \in Calls : ReadToMark(c, k)) \/ SaveMark(c)

Settle(c) ==
  \/ \E k \in Calls, o \in Operators, d \in {"approve", "reject"}, n \in Deposits \cup {0} :
       ReadToSettle(c, k, o, d, n)
  \/ ReadClaimant(c)
  \/ ReadCustody(c)
  \/ PostClaim(c)
  \/ SaveVerdict(c)

CreditDirectly(c) ==
  \/ \E u \in Users, s \in Assets, n \in Deposits, source \in {"custody", "demo"} :
       ReadForCredit(c, u, s, n, source)
  \/ ReadSource(c)
  \/ PostCredit(c)

ClaimNext ==
  \E c \in Calls : \/ Submit(c) \/ Mark(c) \/ Settle(c) \/ CreditDirectly(c)
                   \/ CrashCall(c) /\ UNCHANGED claimVars

\* Deposits on their own, with no withdrawals going on.
ClaimSpecInit == StoreInit /\ ClaimInit
ClaimSpec == ClaimSpecInit /\ [][ClaimNext]_<<storeVars, claimVars>>

----------------------------------------------------------------------------
(* Properties *)

ClaimCallOK(c) ==
  /\ pc[c] \in SubmitSteps => cmd[c] \in SubmitCommand
  /\ pc[c] \in CreditSteps => cmd[c] \in CreditCommand
  /\ pc[c] = "saveMark" => cmd[c] \in MarkCommand /\ seen[c] \in ClaimRow
  /\ pc[c] \in SettleSteps => cmd[c] \in SettleCommand /\ seen[c] \in ClaimRow
  /\ pc[c] = "postClaim" => cmd[c].amount # 0

ClaimTablesOK ==
  /\ claim \in [Calls -> ClaimRow \cup {None}]
  /\ proofs \subseteq Calls

ClaimTypeOK == StoreTypeOK /\ ClaimTablesOK /\ \A c \in Calls : ClaimCallOK(c)

Claimed(k) == claim[k] # None
CreditsOf(k) == {c \in Calls : transfer[c] # None /\ transfer[c].kind = "deposit"
                                               /\ transfer[c].subject = k}

\* An approved claim names the transfer that credited it, for the amount it says: the
\* money is on the books before the claim reads as approved, whoever else writes the
\* claim in between.
ApprovedWasCredited ==
  \A k \in Calls :
    Claimed(k) /\ claim[k].status = "approved" =>
      /\ claim[k].transferId \in CreditsOf(k)
      /\ transfer[claim[k].transferId].entries[<<claim[k].user, claim[k].asset>>]
           = claim[k].credited

\* A claim is credited once at most, and a rejected one not at all (assertUndecided
\* "refuses a second decision").
CreditedAtMostOnce ==
  \A k \in Calls :
    /\ Cardinality(CreditsOf(k)) <= 1
    /\ Claimed(k) /\ claim[k].status = "rejected" => CreditsOf(k) = {}

\* "Only approved and rejected are terminal": a verdict is not overwritten, by another
\* verdict or by an operator marking the claim as confirming.
VerdictStands ==
  [][\A k \in Calls :
       Claimed(k) /\ ~Undecided(claim[k]) => claim'[k] = claim[k]]_claim

\* "A proof and the claim that references it cannot diverge": the image an operator
\* decides by is there as long as the claim is.
ClaimHasProof == \A k \in Calls : Claimed(k) => k \in proofs
============================================================================

---------------------------- MODULE LedgerStore ----------------------------
(***************************************************************************)
(* The accounts and transfers tables of the ledger module, the operations  *)
(* of DrizzleLedgerRepository on them, and the rules of LedgerAccount and  *)
(* Transfer that decide what may be written.                               *)
(*                                                                         *)
(* A use case runs as a call: it reads account rows into memory, computes  *)
(* new rows there, and writes them under the version it read.  Everything  *)
(* between two awaits is one step; any other call may run in between.      *)
(* The ids of a call's own withdrawal, claim and transfer come from a      *)
(* generator (deps.ids.next()), and a call makes at most one of each, so   *)
(* the call itself names them.                                             *)
(***************************************************************************)
EXTENDS Integers, FiniteSets, Functions

CONSTANTS
  Users,     \* customers, each the owner of one account per asset
  Assets,    \* codes of the asset catalogue
  Operators, \* who may decide; an operator may also be a customer
  Calls,     \* executions of a use case; the bound on how many there are
  Opening,   \* Opening[a]: the balance of account a when the model starts
  OneAtATime,\* whether a record is under decision by one operator at a time
  MayCrash,  \* whether a call may stop between two awaits
  None       \* the null of the source

Platform == {"custody", "fees", "payable", "demo"}
Owners == Users \cup Platform

\* An account exists as soon as it is named: findOrOpen inserts a zero row when
\* there is none, and a missing row and a zero row answer every read alike.
AccountIds == Owners \X Assets
CustomerIds == Users \X Assets

ASSUME OwnersAssumption == Users \cap Platform = {}
ASSUME OpeningAssumption ==
  Opening \in [AccountIds -> Int] /\ \A a \in CustomerIds : Opening[a] >= 0
ASSUME NoneAssumption == None \notin Calls \cup Operators
ASSUME CallsAssumption == IsFiniteSet(Calls)
ASSUME SwitchAssumption == OneAtATime \in BOOLEAN /\ MayCrash \in BOOLEAN

VARIABLES
  account,    \* account[a]: the row of account a
  transfer,   \* transfer[c]: the transfer call c posted, with its entries, or None
  pc,         \* pc[c]: the await call c stands at, or how it ended
  cmd,        \* cmd[c]: the command of call c while it runs
  mem,        \* mem[c][a]: account a as call c read it
  seen        \* seen[c]: the withdrawal or claim as call c read it, or None

tables == <<account, transfer>>
callVars == <<pc, cmd, mem, seen>>
storeVars == <<tables, callVars>>

Row == [balance : Int, held : Int, version : Int]

\* No stored row has this version, so a row that was not read is never current.
Unread == [balance |-> 0, held |-> 0, version |-> -1]
NothingRead == [a \in AccountIds |-> Unread]

TransferRow == [kind : {"deposit", "withdrawal"},
                subject : Calls \cup {None},
                entries : [AccountIds -> Int]]

Ended == {"ok", "refused", "failed", "crashed"}

----------------------------------------------------------------------------
(* LedgerAccount: the arithmetic of one account in memory. *)

\* Mutant: what is already held counts as free.
AvailableIgnoringHolds(row) == row.balance
Available(row) == row.balance - row.held
Hold(row, n) == [row EXCEPT !.held = @ + n]
Release(row, n) == [row EXCEPT !.held = @ - n]
ApplyDelta(row, d) == [row EXCEPT !.balance = @ + d]

\* applyDelta throws when it would take a customer's balance below zero.
MayApply(a, row, d) == a \in CustomerIds => row.balance + d >= 0

----------------------------------------------------------------------------
(* Transfer.create: the entries of each asset must sum to zero. *)

Balanced(entries) ==
  \A s \in Assets : SumFunctionOnSet(entries, Owners \X {s}) = 0

\* The ledger opens with closed books.
ASSUME OpeningBalances == Balanced(Opening)

NoEntries == [a \in AccountIds |-> 0]

----------------------------------------------------------------------------
(* DrizzleLedgerRepository. *)

\* findOrOpen: the row as it stands is now in the memory of call c.
FindOrOpen(c, a) == mem' = [mem EXCEPT ![c][a] = account[a]]

Current(c, ids) == \A a \in ids : mem[c][a].version = account[a].version

Bumped(row) == [row EXCEPT !.version = @ + 1]

\* Mutant: the version is not moved on.
UpdateBalanceSameVersion(rows) ==
  account' = [a \in AccountIds |-> IF a \in DOMAIN rows THEN rows[a] ELSE account[a]]

\* updateBalance for each row of rows, which maps the accounts to be written to
\* their new contents: the row's version moves on by one.
UpdateBalance(rows) ==
  account' = [a \in AccountIds |->
                IF a \in DOMAIN rows THEN Bumped(rows[a]) ELSE account[a]]

\* Mutant: the write is not conditional on the version.
CanSaveAnyVersion(c, a) == TRUE
\* saveAccounts with one account: the conditional write, outside a transaction.
CanSave(c, a) == Current(c, {a})
SaveAccount(a, row) == UpdateBalance([x \in {a} |-> row]) /\ UNCHANGED transfer

\* Mutant: the writes are not conditional on the versions.
CanPostAnyVersion(c, entries, rows) == Balanced(entries)
\* post: the transfer, its entries and every balance in one transaction.  One row
\* whose version has moved on takes all of it back (ConcurrencyError), and
\* Transfer.create throws before it when the entries do not balance.
CanPost(c, entries, rows) == Balanced(entries) /\ Current(c, DOMAIN rows)
Post(c, kind, subject, entries, rows) ==
  /\ UpdateBalance(rows)
  /\ transfer' = [transfer EXCEPT
       ![c] = [kind |-> kind, subject |-> subject, entries |-> entries]]

----------------------------------------------------------------------------
(* The course of a call. *)

GoTo(c, where) == pc' = [pc EXCEPT ![c] = where]

\* A call ends: what it held in memory is gone.
End(c, how) ==
  /\ pc' = [pc EXCEPT ![c] = how]
  /\ cmd' = [cmd EXCEPT ![c] = None]
  /\ mem' = [mem EXCEPT ![c] = NothingRead]
  /\ seen' = [seen EXCEPT ![c] = None]

----------------------------------------------------------------------------
StoreInit ==
  /\ account = [a \in AccountIds |-> [balance |-> Opening[a], held |-> 0, version |-> 0]]
  /\ transfer = [c \in Calls |-> None]
  /\ pc = [c \in Calls |-> "idle"]
  /\ cmd = [c \in Calls |-> None]
  /\ mem = [c \in Calls |-> NothingRead]
  /\ seen = [c \in Calls |-> None]

\* The process serving call c dies, or its connection does: whatever it had
\* committed stays, and nothing resumes it.
CrashCall(c) ==
  /\ MayCrash
  /\ pc[c] \notin Ended \cup {"idle"}
  /\ End(c, "crashed")
  /\ UNCHANGED tables

----------------------------------------------------------------------------
(* Properties of the tables, whichever use cases run on them. *)

\* The rows hold what their columns may hold, in the tables and in every copy.
StoreTypeOK ==
  /\ account \in [AccountIds -> Row]
  /\ transfer \in [Calls -> TransferRow \cup {None}]
  /\ mem \in [Calls -> [AccountIds -> Row]]
  /\ DOMAIN pc = Calls /\ DOMAIN cmd = Calls /\ DOMAIN seen = Calls

\* No customer is reserved more than the customer has, and neither figure goes
\* below zero: schema.ts says held "never exceeds balance for a user".  Every call
\* works on a copy of the row, so this rests on the version guard.
HeldWithinBalance ==
  \A a \in CustomerIds : 0 <= account[a].held /\ account[a].held <= account[a].balance

\* The entries of all transfers to account a, summed.
EntryTotal(a) ==
  SumFunction([c \in Calls |-> IF transfer[c] = None THEN 0 ELSE transfer[c].entries[a]])

\* "The balance is stored, and the entries are the truth": every balance
\* is what the entries say, however the calls that wrote them interleaved.
BalanceIsItsEntries ==
  \A a \in AccountIds : account[a].balance = Opening[a] + EntryTotal(a)

\* What a call has in memory was true when it was read: if the version it read is
\* still the stored one, so is the row, and no version it read is ahead.
ReadsAreSound ==
  \A c \in Calls, a \in AccountIds :
    /\ mem[c][a].version <= account[a].version
    /\ mem[c][a].version = account[a].version => mem[c][a] = account[a]

\* Seen from outside, every write to the accounts is one indivisible movement of the
\* abstract ledger, allowed by the balances it meets and not by the ones it read.
Books == INSTANCE Bookkeeping
           WITH balance <- [a \in AccountIds |-> account[a].balance],
                held <- [a \in AccountIds |-> account[a].held]
MovementsAreAtomic == Books!Spec
============================================================================

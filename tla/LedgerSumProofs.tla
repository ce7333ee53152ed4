-------------------------- MODULE LedgerSumProofs --------------------------
(***************************************************************************)
(* Why the figures on an account add up.  A balance is the opening balance *)
(* plus the entries of every transfer posted to the account: each write of *)
(* a row adds to it what the one transfer it belongs to says.  What is     *)
(* held is what the undecided withdrawals reserve: each write of a hold    *)
(* comes with one withdrawal beginning or ceasing to reserve it.           *)
(*                                                                         *)
(* Both are sums over all calls, so the lemmas come first that say how a   *)
(* sum over a finite set behaves.                                          *)
(***************************************************************************)
EXTENDS LedgerDecisionProofs

----------------------------------------------------------------------------
(* Sums over a finite set *)

\* Every non-empty set of natural numbers has a least element: the ground of every
\* induction below, each of them on a least counterexample.
LEMMA NatLeast ==
  ASSUME NEW T \in SUBSET Nat, T # {}
  PROVE \E m \in T : \A k \in T : m <= k
<1> DEFINE R == OpToRel(<, Nat)
<1>1. IsWellFoundedOn(R, Nat)
  BY NatLessThanWellFounded
<1>2. \E x \in T : \A y \in T : ~ (<<y, x>> \in R)
  <2> HIDE DEF R
  <2> QED BY <1>1, WFMin
<1>3. PICK m \in T : \A y \in T : ~ (<<y, m>> \in R)
  BY <1>2
<1>4. \A y \in T : <<y, m>> \in R <=> y < m
  BY DEF OpToRel
<1> HIDE DEF R
<1>5. m \in Nat /\ \A y \in T : y \in Nat /\ ~ (y < m)
  BY <1>3, <1>4
<1> QED
  BY <1>5

\* The sum over S of the values of f is read off a function on the subsets of S, which
\* takes out one picked element at a time.
Picked(s) == CHOOSE x \in s : TRUE
IsRunningSum(it, f, D) ==
  it = [s \in D |-> IF s = {} THEN 0 ELSE f[Picked(s)] + it[s \ {Picked(s)}]]
RunningSum(f, S) == CHOOSE it : IsRunningSum(it, f, SUBSET S)

\* The subsets of S with n elements at most.
UpTo(S, n) == {s \in SUBSET S : Cardinality(s) <= n}

\* What is picked is an element.
LEMMA PickedIn == ASSUME NEW s, s # {} PROVE Picked(s) \in s
BY DEF Picked

\* Without the picked element the set is smaller by one.
LEMMA SmallerWithout ==
  ASSUME NEW S, IsFiniteSet(S), NEW s \in SUBSET S, s # {}
  PROVE  /\ IsFiniteSet(s) /\ Cardinality(s) \in Nat
         /\ s \ {Picked(s)} \in SUBSET S
         /\ Cardinality(s \ {Picked(s)}) = Cardinality(s) - 1
<1>1. IsFiniteSet(s)
  BY FS_Subset
<1>2. Picked(s) \in s
  BY PickedIn
<1> QED
  BY <1>1, <1>2, FS_CardinalityType, FS_RemoveElement

\* There is such a function on the subsets of any size: the next size is built from the last.
LEMMA RunningSumUpTo ==
  ASSUME NEW f, NEW S, IsFiniteSet(S), NEW n \in Nat
  PROVE  \E it : IsRunningSum(it, f, UpTo(S, n))
<1> DEFINE Bad == {k \in Nat : ~ \E it : IsRunningSum(it, f, UpTo(S, k))}
<1> SUFFICES ASSUME n \in Bad PROVE FALSE
  OBVIOUS
<1>1. PICK k \in Bad : \A j \in Bad : k <= j
  BY NatLeast
<1>2. CASE k = 0
  <2>1. UpTo(S, 0) = {{}}
    <3>1. ASSUME NEW s \in SUBSET S, Cardinality(s) <= 0
          PROVE  s = {}
      <4>1. IsFiniteSet(s)
        BY FS_Subset
      <4>2. Cardinality(s) \in Nat /\ (Cardinality(s) = 0 <=> s = {})
        BY <4>1, FS_CardinalityType, FS_EmptySet
      <4> QED
        BY <4>2, <3>1
    <3>2. Cardinality({}) = 0 /\ {} \in SUBSET S
      BY FS_EmptySet
    <3>3. \A s : s \in UpTo(S, 0) <=> s = {}
      BY <3>1, <3>2 DEF UpTo
    <3> QED
      BY <3>3
  <2> DEFINE it0 == [s \in {{}} |-> 0]
  <2>2. IsRunningSum(it0, f, UpTo(S, 0))
    BY <2>1 DEF IsRunningSum
  <2> QED
    BY <2>2, <1>2
<1>3. CASE k # 0
  <2>1. k - 1 \in Nat /\ k - 1 \notin Bad
    BY <1>1, <1>3
  <2>2. PICK it : IsRunningSum(it, f, UpTo(S, k - 1))
    BY <2>1
  <2> DEFINE more == [s \in UpTo(S, k) |->
                        IF s = {} THEN 0 ELSE f[Picked(s)] + it[s \ {Picked(s)}]]
  <2>3. ASSUME NEW s \in UpTo(S, k), s # {}
        PROVE  s \ {Picked(s)} \in UpTo(S, k - 1)
    <3>1. s \in SUBSET S /\ Cardinality(s) <= k
      BY DEF UpTo
    <3>2. /\ s \ {Picked(s)} \in SUBSET S /\ Cardinality(s) \in Nat
          /\ Cardinality(s \ {Picked(s)}) = Cardinality(s) - 1
      BY <2>3, <3>1, SmallerWithout
    <3> QED
      BY <2>1, <3>1, <3>2 DEF UpTo
  <2>4. \A s \in UpTo(S, k - 1) : s \in UpTo(S, k) /\ it[s] = more[s]
    <3>1. \A s \in UpTo(S, k - 1) : s \in UpTo(S, k)
      <4>1. \A s \in SUBSET S : Cardinality(s) \in Nat
        BY FS_Subset, FS_CardinalityType
      <4> QED
        BY <4>1, <2>1, <1>1 DEF UpTo
    <3> QED
      BY <3>1, <2>2 DEF IsRunningSum
  <2>5. IsRunningSum(more, f, UpTo(S, k))
    BY <2>3, <2>4 DEF IsRunningSum
  <2> QED
    BY <2>5, <1>1
<1> QED
  BY <1>2, <1>3

\* So the function the sum is read off satisfies its equation.
LEMMA RunningSumUnfolds ==
  ASSUME NEW f, NEW S, IsFiniteSet(S)
  PROVE  IsRunningSum(RunningSum(f, S), f, SUBSET S)
<1>1. UpTo(S, Cardinality(S)) = SUBSET S
  BY FS_Subset DEF UpTo
<1>2. Cardinality(S) \in Nat
  BY FS_CardinalityType
<1>3. \E it : IsRunningSum(it, f, UpTo(S, Cardinality(S)))
  BY <1>2, RunningSumUpTo
<1>4. \E it : IsRunningSum(it, f, SUBSET S)
  BY <1>1, <1>3, Zenon
<1> QED
  BY <1>4 DEF RunningSum

\* The sum of the library is what that function says of the whole set.
LEMMA SumIsRead ==
  ASSUME NEW f, NEW S
  PROVE  SumFunctionOnSet(f, S) = RunningSum(f, S)[S]
BY DEF SumFunctionOnSet, FoldFunctionOnSet, MapThenFoldSet, RunningSum, IsRunningSum, Picked

\* Two such functions agree wherever both are defined.
LEMMA RunningSumIsUnique ==
  ASSUME NEW f, NEW it, NEW jt, NEW S, IsFiniteSet(S), NEW t \in SUBSET S,
         IsRunningSum(it, f, SUBSET S), IsRunningSum(jt, f, SUBSET t)
  PROVE  \A s \in SUBSET t : it[s] = jt[s]
<1> DEFINE Bad == {n \in Nat : \E s \in SUBSET t : Cardinality(s) = n /\ it[s] # jt[s]}
<1>1. ASSUME Bad # {} PROVE FALSE
  <2>1. PICK n \in Bad : \A m \in Bad : n <= m
    BY <1>1, NatLeast
  <2>2. PICK s \in SUBSET t : Cardinality(s) = n /\ it[s] # jt[s]
    BY <2>1
  <2>3. s # {}
    BY <2>2 DEF IsRunningSum
  <2> DEFINE r == s \ {Picked(s)}
  <2>4. s \in SUBSET S /\ r \in SUBSET t /\ Cardinality(r) = n - 1 /\ Cardinality(r) \in Nat
    BY <2>2, <2>3, SmallerWithout, FS_Subset, FS_CardinalityType
  <2>5. it[s] = f[Picked(s)] + it[r] /\ jt[s] = f[Picked(s)] + jt[r]
    BY <2>3, <2>4 DEF IsRunningSum
  <2>6. it[r] # jt[r]
    BY <2>5, <2>2
  <2>7. n - 1 \in Bad
    BY <2>4, <2>6
  <2> QED
    BY <2>7, <2>1
<1>2. \A s \in SUBSET t : Cardinality(s) \in Nat
  BY FS_Subset, FS_CardinalityType
<1> QED
  BY <1>1, <1>2

\* The equation of the sum itself.
LEMMA SumUnfolds ==
  ASSUME NEW f, NEW S, IsFiniteSet(S)
  PROVE  SumFunctionOnSet(f, S) =
           IF S = {} THEN 0 ELSE f[Picked(S)] + SumFunctionOnSet(f, S \ {Picked(S)})
<1> DEFINE t == S \ {Picked(S)}
<1>1. IsRunningSum(RunningSum(f, S), f, SUBSET S)
  BY RunningSumUnfolds
<1>2. IsFiniteSet(t) /\ t \in SUBSET S
  BY FS_Subset
<1>3. IsRunningSum(RunningSum(f, t), f, SUBSET t)
  BY <1>2, RunningSumUnfolds
<1>4. RunningSum(f, S)[t] = RunningSum(f, t)[t]
  <2> HIDE DEF t
  <2>1. \A s \in SUBSET t : RunningSum(f, S)[s] = RunningSum(f, t)[s]
    BY <1>1, <1>2, <1>3, RunningSumIsUnique
  <2> QED
    BY <2>1
<1>5. RunningSum(f, S)[S] = IF S = {} THEN 0 ELSE f[Picked(S)] + RunningSum(f, S)[t]
  BY <1>1 DEF IsRunningSum
<1> QED
  BY <1>4, <1>5, SumIsRead

\* Any element may be taken out first.
LEMMA SumTakesOut ==
  ASSUME NEW S, IsFiniteSet(S), NEW f, \A x \in S : f[x] \in Int
  PROVE  /\ SumFunctionOnSet(f, S) \in Int
         /\ \A x \in S : SumFunctionOnSet(f, S) = f[x] + SumFunctionOnSet(f, S \ {x})
<1> DEFINE Sum(s) == SumFunctionOnSet(f, s)
           Good(s) == Sum(s) \in Int /\ \A x \in s : Sum(s) = f[x] + Sum(s \ {x})
           Bad == {n \in Nat : \E s \in SUBSET S : Cardinality(s) = n /\ ~ Good(s)}
<1>1. ASSUME Bad # {} PROVE FALSE
  <2>1. PICK n \in Bad : \A m \in Bad : n <= m
    BY <1>1, NatLeast
  <2>2. PICK s \in SUBSET S : Cardinality(s) = n /\ ~ Good(s)
    BY <2>1
  <2> HIDE DEF Sum
  <2>3. IsFiniteSet(s)
    BY FS_Subset
  <2>4. \A r \in SUBSET S : Cardinality(r) \in Nat /\ Cardinality(r) < n => Good(r)
    BY <2>1
  <2>5. \A x \in s : /\ s \ {x} \in SUBSET S /\ IsFiniteSet(s \ {x})
                    /\ Cardinality(s \ {x}) = n - 1 /\ Cardinality(s \ {x}) \in Nat
    BY <2>2, <2>3, FS_RemoveElement, FS_Subset, FS_CardinalityType
  <2>6. \A x \in s : Good(s \ {x})
    BY <2>1, <2>4, <2>5
  <2>7. Sum(s) = IF s = {} THEN 0 ELSE f[Picked(s)] + Sum(s \ {Picked(s)})
    BY <2>3, SumUnfolds DEF Sum
  <2>8. s # {} /\ Picked(s) \in s
    BY <2>2, <2>7, PickedIn
  <2> DEFINE p == Picked(s)
  <2>9. Sum(s) \in Int
    BY <2>6, <2>7, <2>8
  <2>10. ASSUME NEW x \in s
         PROVE  Sum(s) = f[x] + Sum(s \ {x})
    <3>1. CASE x = p
      BY <3>1, <2>7, <2>8
    <3>2. CASE x # p
      <4> DEFINE r == (s \ {p}) \ {x}
      <4>1. r = (s \ {x}) \ {p} /\ x \in s \ {p} /\ p \in s \ {x}
        BY <3>2, <2>8
      <4>2. Sum(s \ {p}) = f[x] + Sum(r) /\ Sum(s \ {x}) = f[p] + Sum(r)
        BY <4>1, <2>6, <2>8
      <4>3. r \in SUBSET S /\ IsFiniteSet(r) /\ Cardinality(r) < n /\ Cardinality(r) \in Nat
        BY <2>2, <2>5, <2>8, <4>1, FS_RemoveElement, FS_Subset, FS_CardinalityType
      <4>4. Sum(r) \in Int /\ f[x] \in Int /\ f[p] \in Int
        BY <4>3, <2>4, <2>8
      <4> HIDE DEF r, p
      <4>5. Sum(s) = f[p] + Sum(s \ {p})
        BY <2>7, <2>8 DEF p
      <4> QED
        BY <4>2, <4>4, <4>5
    <3> QED
      BY <3>1, <3>2
  <2> QED
    BY <2>2, <2>9, <2>10
<1>2. Cardinality(S) \in Nat
  BY FS_CardinalityType
<1>3. Good(S)
  BY <1>1, <1>2
<1> QED
  BY <1>3

\* Only the values on the set count.
LEMMA SumReadsItsSet ==
  ASSUME NEW S, IsFiniteSet(S), NEW f, NEW g, \A x \in S : f[x] = g[x]
  PROVE  SumFunctionOnSet(f, S) = SumFunctionOnSet(g, S)
<1>1. IsRunningSum(RunningSum(f, S), f, SUBSET S) /\ IsRunningSum(RunningSum(g, S), g, SUBSET S)
  BY RunningSumUnfolds
<1>2. \A s \in SUBSET S : s # {} => f[Picked(s)] = g[Picked(s)]
  BY PickedIn
<1>3. IsRunningSum(RunningSum(g, S), f, SUBSET S)
  BY <1>1, <1>2 DEF IsRunningSum
<1>4. RunningSum(f, S)[S] = RunningSum(g, S)[S]
  BY <1>1, <1>3, RunningSumIsUnique
<1> QED
  BY <1>4, SumIsRead

\* A sum moves by what one of its terms moves by.
LEMMA SumMovesByOneTerm ==
  ASSUME NEW S, IsFiniteSet(S), NEW f, NEW g, NEW x \in S,
         \A y \in S : f[y] \in Int /\ g[y] \in Int,
         \A y \in S \ {x} : f[y] = g[y]
  PROVE  SumFunctionOnSet(g, S) = SumFunctionOnSet(f, S) + (g[x] - f[x])
<1> DEFINE R == S \ {x}
<1>1. IsFiniteSet(R)
  BY FS_Subset
<1>2. SumFunctionOnSet(f, R) = SumFunctionOnSet(g, R)
  BY <1>1, SumReadsItsSet
<1>3. SumFunctionOnSet(f, R) \in Int
  BY <1>1, SumTakesOut
<1>4. /\ SumFunctionOnSet(f, S) = f[x] + SumFunctionOnSet(f, R)
      /\ SumFunctionOnSet(g, S) = g[x] + SumFunctionOnSet(g, R)
  BY SumTakesOut
<1> QED
  BY <1>2, <1>3, <1>4

\* A sum of nothing but zeros is zero.
LEMMA SumOfZeros ==
  ASSUME NEW S, IsFiniteSet(S), NEW f, \A x \in S : f[x] = 0
  PROVE  SumFunctionOnSet(f, S) = 0
<1> DEFINE zero == [s \in SUBSET S |-> 0]
<1>1. IsRunningSum(RunningSum(f, S), f, SUBSET S)
  BY RunningSumUnfolds
<1>2. \A s \in SUBSET S : s # {} => f[Picked(s)] = 0
  BY PickedIn
<1>3. IsRunningSum(zero, f, SUBSET S)
  BY <1>2 DEF IsRunningSum
<1>4. RunningSum(f, S)[S] = zero[S]
  <2> HIDE DEF zero
  <2> QED
    BY <1>1, <1>3, RunningSumIsUnique
<1> QED
  BY <1>4, SumIsRead

----------------------------------------------------------------------------
(* The balance is its entries *)

\* What call c has posted to account a.
Entry(c, a) == IF transfer[c] = None THEN 0 ELSE transfer[c].entries[a]

\* An entry is a whole amount.
LEMMA EntryTyped ==
  ASSUME StoreTypeOK
  PROVE  \A c \in Calls, a \in AccountIds : Entry(c, a) \in Int
BY DEF StoreTypeOK, TransferRow, Entry

\* A step of call c posts nothing and moves no balance, or posts its one transfer and moves
\* every balance by the entry of it.
PostsWhatItMoves(c) ==
  \/ /\ UNCHANGED transfer
     /\ \A a \in AccountIds : account'[a].balance = account[a].balance
  \/ /\ transfer[c] = None /\ transfer'[c] # None
     /\ \A d \in Calls \ {c} : transfer'[d] = transfer[d]
     /\ \A a \in AccountIds : account'[a].balance = account[a].balance + transfer'[c].entries[a]

\* A post leaves its transfer under its call, and it is a row of the table.
LEMMA PostLeaves ==
  ASSUME LedgerTypeOK, PostsOnce, NEW c \in Calls, pc[c] \notin Posted,
         NEW kind \in {"deposit", "withdrawal"}, NEW subject \in Calls \cup {None},
         NEW entries \in [AccountIds -> Int], NEW rows, Post(c, kind, subject, entries, rows)
  PROVE  /\ transfer[c] = None /\ transfer'[c] # None /\ transfer'[c].entries = entries
         /\ \A d \in Calls \ {c} : transfer'[d] = transfer[d]
<1>1. DOMAIN transfer = Calls
  BY DEF LedgerTypeOK, WithdrawalTypeOK, StoreTypeOK
<1> DEFINE t == [kind |-> kind, subject |-> subject, entries |-> entries]
<1>2. transfer'[c] = t /\ \A d \in Calls \ {c} : transfer'[d] = transfer[d]
  BY <1>1 DEF Post
<1>3. t \in TransferRow
  BY DEF TransferRow
<1> QED
  BY <1>2, <1>3, NoRecordAssumption DEF PostsOnce

\* The entries of a credit are what its two rows move by.
LEMMA CreditPosts ==
  ASSUME SoundInv, PostsOnce, NEW c \in Calls, pc[c] \notin Posted,
         NEW to \in AccountIds, NEW from \in AccountIds, to # from, NEW n \in Nat,
         NEW subject \in Calls \cup {None},
         CanPost(c, CreditEntries(to, from, n), CreditRows(c, to, from, n)),
         Post(c, "deposit", subject, CreditEntries(to, from, n), CreditRows(c, to, from, n))
  PROVE  PostsWhatItMoves(c)
<1> DEFINE e == CreditEntries(to, from, n)
<1>1. LedgerTypeOK
  BY DEF SoundInv
<1>2. \A x \in AccountIds :
        account'[x].balance = account[x].balance
                                + (IF x = to THEN n ELSE IF x = from THEN -n ELSE 0)
  BY CreditRowsMove DEF CanPost, Post
<1>3. /\ e \in [AccountIds -> Int]
      /\ \A x \in AccountIds : e[x] = IF x = to THEN n ELSE IF x = from THEN -n ELSE 0
  BY DEF CreditEntries, NoEntries
<1> HIDE DEF e
<1>4. /\ transfer[c] = None /\ transfer'[c] # None /\ transfer'[c].entries = e
      /\ \A d \in Calls \ {c} : transfer'[d] = transfer[d]
  <2>1. Post(c, "deposit", subject, e, CreditRows(c, to, from, n))
    BY DEF e
  <2> QED
    BY <1>1, <1>3, <2>1, PostLeaves
<1> QED
  BY <1>2, <1>3, <1>4 DEF PostsWhatItMoves

\* Every step posts the transfer by which it changes the balances, or neither.
LEMMA StepPostsWhatItMoves ==
  ASSUME SoundInv, PostsOnce, NEW c \in Calls, Step(c)
  PROVE  PostsWhatItMoves(c)
<1>1. LedgerTypeOK /\ StoreTypeOK
  BY DEF SoundInv, LedgerTypeOK, WithdrawalTypeOK
<1>2. CASE UNCHANGED tables
  BY <1>2 DEF tables, PostsWhatItMoves
<1>3. CASE PlaceHold(c) /\ ~ UNCHANGED tables
  <2>1. UNCHANGED transfer /\ ~ UNCHANGED account
    BY <1>3 DEF PlaceHold, SaveAccount, tables
  <2> QED
    BY <1>3, <2>1, PlaceHoldReserves DEF PostsWhatItMoves
<1>4. CASE ReleaseHold(c) /\ ~ UNCHANGED tables
  <2>1. UNCHANGED transfer /\ ~ UNCHANGED account
    BY <1>4 DEF ReleaseHold, SaveAccount, tables
  <2> QED
    BY <1>4, <2>1, ReleaseHoldGivesBack DEF PostsWhatItMoves
<1>5. CASE PostWithdrawal(c) /\ ~ UNCHANGED tables
  <2> DEFINE w == seen[c].row
  <2>1. pc[c] = "postWithdrawal" /\ pc[c] \in DecideSteps /\ pc[c] \notin Posted
    BY <1>5 DEF PostWithdrawal, DecideSteps, Posted, Ended
  <2>2. w \in WithdrawalRow /\ cmd[c].target \in Calls
    BY <1>1, <2>1, Deciding
  <2>3. WithdrawalEntries(w) \in [AccountIds -> Int]
    BY <1>1, <2>2, WithdrawalRowsTyped
  <2>4. Post(c, "withdrawal", cmd[c].target, WithdrawalEntries(w), WithdrawalRows(c, w))
    BY <1>5 DEF PostWithdrawal, tables
  <2>5. /\ transfer[c] = None /\ transfer'[c] # None /\ transfer'[c].entries = WithdrawalEntries(w)
        /\ \A d \in Calls \ {c} : transfer'[d] = transfer[d]
    <3> HIDE DEF w
    <3> QED
      BY <1>1, <2>1, <2>2, <2>3, <2>4, PostLeaves
  <2>6. \A x \in AccountIds : account'[x].balance = account[x].balance + WithdrawalEntries(w)[x]
    BY <1>5, PostWithdrawalPaysOut
  <2> QED
    BY <2>5, <2>6 DEF PostsWhatItMoves
<1>6. CASE PostClaim(c) /\ ~ UNCHANGED tables
  <2>1. pc[c] \in SettleSteps /\ pc[c] \notin Posted
    BY <1>6 DEF PostClaim, SettleSteps, Posted, Ended
  <2>2. /\ Claimant(c) \in AccountIds /\ Custody(c) \in AccountIds /\ Claimant(c) # Custody(c)
        /\ cmd[c].amount \in Nat /\ cmd[c].target \in Calls
    BY <1>1, <2>1, Settling
  <2>3. /\ CanPost(c, CreditEntries(Claimant(c), Custody(c), cmd[c].amount),
                      CreditRows(c, Claimant(c), Custody(c), cmd[c].amount))
        /\ Post(c, "deposit", cmd[c].target, CreditEntries(Claimant(c), Custody(c), cmd[c].amount),
                   CreditRows(c, Claimant(c), Custody(c), cmd[c].amount))
    BY <1>6 DEF PostClaim, tables
  <2> QED
    BY <2>1, <2>2, <2>3, CreditPosts
<1>7. CASE PostCredit(c) /\ ~ UNCHANGED tables
  <2> DEFINE to == <<cmd[c].user, cmd[c].asset>>
             from == <<cmd[c].source, cmd[c].asset>>
  <2>1. pc[c] \in CreditSteps /\ pc[c] \notin Posted
    BY <1>7 DEF PostCredit, CreditSteps, Posted, Ended
  <2>2. to \in AccountIds /\ from \in AccountIds /\ to # from /\ cmd[c].amount \in Nat
    BY <1>1, <2>1, Crediting
  <2>3. /\ CanPost(c, CreditEntries(to, from, cmd[c].amount), CreditRows(c, to, from, cmd[c].amount))
        /\ Post(c, "deposit", None, CreditEntries(to, from, cmd[c].amount),
                CreditRows(c, to, from, cmd[c].amount))
    BY <1>7 DEF PostCredit, tables
  <2> HIDE DEF to, from
  <2> QED
    BY <2>1, <2>2, <2>3, CreditPosts
<1>8. CASE UNCHANGED account /\ ~ (PlaceHold(c) \/ ReleaseHold(c) \/ PostWithdrawal(c) \/ PostClaim(c) \/ PostCredit(c))
  <2>1. UNCHANGED transfer
    BY <1>8, WritersOfTransfers
  <2> QED
    BY <1>8, <2>1 DEF PostsWhatItMoves
<1> QED
  BY <1>2, <1>3, <1>4, <1>5, <1>6, <1>7, <1>8, WritersOfAccounts

\* A step keeps every balance equal to what the entries make of the opening one.
LEMMA StepKeepsBalances ==
  ASSUME SoundInv, PostsOnce, BalanceIsItsEntries, NEW c \in Calls, Step(c)
  PROVE  BalanceIsItsEntries'
<1>1. StoreTypeOK /\ StoreTypeOK'
  BY StepTyped DEF SoundInv, LedgerTypeOK, WithdrawalTypeOK, Step, TypedStep
<1> SUFFICES ASSUME NEW a \in AccountIds
             PROVE  account'[a].balance = Opening[a] + EntryTotal(a)'
  BY DEF BalanceIsItsEntries
<1> DEFINE f == [d \in Calls |-> Entry(d, a)]
           g == [d \in Calls |-> Entry(d, a)']
<1>2. EntryTotal(a) = SumFunctionOnSet(f, Calls) /\ EntryTotal(a)' = SumFunctionOnSet(g, Calls)
  BY DEF EntryTotal, SumFunction, Entry
<1>3. \A d \in Calls : f[d] \in Int /\ g[d] \in Int
  BY <1>1, EntryTyped DEF StoreTypeOK, TransferRow, Entry
<1>4. account[a].balance = Opening[a] + SumFunctionOnSet(f, Calls)
  BY <1>2 DEF BalanceIsItsEntries
<1>5. Opening[a] \in Int /\ SumFunctionOnSet(f, Calls) \in Int
  BY <1>3, OpeningAssumption, CallsAssumption, SumTakesOut
<1>6. CASE UNCHANGED transfer /\ account'[a].balance = account[a].balance
  <2>1. f = g
    BY <1>6 DEF Entry
  <2> QED
    BY <1>2, <1>4, <1>6, <2>1
<1>7. CASE /\ transfer[c] = None /\ transfer'[c] # None
           /\ \A d \in Calls \ {c} : transfer'[d] = transfer[d]
           /\ account'[a].balance = account[a].balance + transfer'[c].entries[a]
  <2>1. f[c] = 0 /\ g[c] = transfer'[c].entries[a] /\ \A d \in Calls \ {c} : f[d] = g[d]
    BY <1>7 DEF Entry
  <2> HIDE DEF f, g
  <2>2. SumFunctionOnSet(g, Calls) = SumFunctionOnSet(f, Calls) + (g[c] - f[c])
    BY <1>3, <2>1, CallsAssumption, SumMovesByOneTerm
  <2> QED
    BY <1>2, <1>3, <1>4, <1>5, <1>7, <2>1, <2>2
<1> QED
  BY <1>6, <1>7, StepPostsWhatItMoves DEF PostsWhatItMoves

\* "The balance is stored, and the entries are the truth": with any number of customers,
\* operators and calls deciding, crediting and stopping at once, every stored balance is
\* the opening one and the entries of all transfers.
THEOREM BalancesAreTheirEntries == Spec => []BalanceIsItsEntries
<1>1. Init => BalanceIsItsEntries
  <2> SUFFICES ASSUME Init, NEW a \in AccountIds
               PROVE  account[a].balance = Opening[a] + EntryTotal(a)
    BY DEF BalanceIsItsEntries
  <2> DEFINE f == [d \in Calls |-> Entry(d, a)]
  <2>1. EntryTotal(a) = SumFunctionOnSet(f, Calls)
    BY DEF EntryTotal, SumFunction, Entry
  <2>2. \A d \in Calls : f[d] = 0
    BY DEF Init, StoreInit, Entry
  <2>3. account[a].balance = Opening[a] /\ Opening[a] \in Int
    BY OpeningAssumption DEF Init, StoreInit
  <2>4. SumFunctionOnSet(f, Calls) = 0
    <3> HIDE DEF f
    <3> QED
      BY <2>2, CallsAssumption, SumOfZeros
  <2> QED
    BY <2>1, <2>3, <2>4
<1>2. SoundInv /\ PostedInv /\ BalanceIsItsEntries /\ [Next]_vars => BalanceIsItsEntries'
  <2> SUFFICES ASSUME SoundInv, PostedInv, BalanceIsItsEntries, [Next]_vars
               PROVE  BalanceIsItsEntries'
    OBVIOUS
  <2>1. CASE Next
    BY <2>1, StepKeepsBalances DEF Next, Step, PostedInv
  <2>2. CASE UNCHANGED vars
    BY <2>2 DEF vars, storeVars, tables, BalanceIsItsEntries, EntryTotal
  <2> QED
    BY <2>1, <2>2
<1> QED
  BY <1>1, <1>2, SoundInvHolds, PostedInvHolds, PTL DEF Spec

----------------------------------------------------------------------------
(* What is held is what is pending *)

\* What a deciding call has read of whose withdrawal it is, and of how much, stays true:
\* the row is only ever rewritten in its decision.
SameAsk(w, v) == w.user = v.user /\ w.asset = v.asset /\ w.amount = v.amount
AskIsCurrent ==
  \A c \in Calls : pc[c] \in SavePending => SameAsk(withdrawal[cmd[c].target], seen[c].row)

\* The inductive invariant of this part.
HeldInv == SoundInv /\ PostedInv /\ HandInv /\ AskIsCurrent /\ HeldIsWhatIsPending

\* Call d has taken the hold of w, and is about to save why.
HasTaken(d, w) ==
  pc[d] = "saveDecision" /\ cmd[d].target = w /\ (cmd[d].decision = "reject" \/ Complete(d))

\* The withdrawal whose hold call w accounts for.
Ask(w) == IF pc[w] = "fileRequest" THEN cmd[w] ELSE withdrawal[w]

\* When a withdrawal is reserved, in its parts.
LEMMA ReservingMeans ==
  ASSUME NEW w
  PROVE  /\ Reserving(w) <=>
              \/ pc[w] = "fileRequest"
              \/ /\ withdrawal[w] # None /\ withdrawal[w].status = "pending"
                 /\ \A d \in Calls : ~ HasTaken(d, w)
         /\ \A a : ReservedBy(w, a) =
              IF Reserving(w) /\ Customer(Ask(w)) = a THEN TotalReserved(Ask(w)) ELSE 0
BY DEF Reserving, ReservedBy, Exists, HasTaken, Ask

\* What a call reserves is a figure.
LEMMA ReservedTyped ==
  ASSUME LedgerTypeOK, NEW w \in Calls, NEW a
  PROVE  ReservedBy(w, a) \in Int
<1>1. CASE Reserving(w)
  <2>1. Ask(w) \in RequestCommand \cup WithdrawalRow
    BY <1>1, ReservingMeans
    DEF Ask, LedgerTypeOK, WithdrawalTypeOK, WithdrawalTablesOK, WithdrawalCallOK, RequestSteps
  <2> QED
    BY <2>1, WithdrawalFigures, ReservingMeans
<1>2. CASE ~ Reserving(w)
  BY <1>2, ReservingMeans
<1> QED
  BY <1>1, <1>2

\* Nor does a step make it anything else.
LEMMA ReservedPrimedTyped ==
  ASSUME LedgerTypeOK', NEW w \in Calls, NEW a
  PROVE  ReservedBy(w, a)' \in Int
<1> DEFINE r == Ask(w)'
<1>1. ReservedBy(w, a)' = IF Reserving(w)' /\ Customer(r) = a THEN TotalReserved(r) ELSE 0
  BY DEF ReservedBy, Ask, Customer, TotalReserved
<1>2. Reserving(w)' => r \in RequestCommand \cup WithdrawalRow
  BY DEF Reserving, Exists, Ask, LedgerTypeOK, WithdrawalTypeOK, WithdrawalTablesOK,
         WithdrawalCallOK, RequestSteps
<1> HIDE DEF r
<1> QED
  BY <1>1, <1>2, WithdrawalFigures

\* What a decision has read of the request is still what was asked.
LEMMA StepKeepsAskCurrent ==
  ASSUME HandInv, AskIsCurrent, NEW c \in Calls, Step(c)
  PROVE  AskIsCurrent'
<1>1. LedgerTypeOK /\ LeavesOthers(c) /\ FiledIsOver /\ LedgerTypeOK'
  BY StepLeavesOthers DEF HandInv
<1> SUFFICES ASSUME NEW d \in Calls, pc'[d] \in SavePending
             PROVE  SameAsk(withdrawal'[cmd'[d].target], seen'[d].row)
  BY DEF AskIsCurrent, SameAsk
<1>2. CASE d = c
  <2>1. pc'[c] \in DecideSteps /\ pc'[c] # "saveApprovals"
    BY <1>2 DEF SavePending
  <2> QED
    BY <1>1, <1>2, <2>1, DecisionGoesOn DEF AskIsCurrent, SameAsk
<1>3. CASE d # c
  <2>1. pc[d] \in SavePending /\ pc[d] \in DecideSteps /\ cmd'[d] = cmd[d] /\ seen'[d] = seen[d]
    BY <1>1, <1>3 DEF LeavesOthers, SavePending
  <2> DEFINE w == cmd[d].target
  <2>2. w \in Calls /\ withdrawal[w] # None /\ withdrawal[w] \in WithdrawalRow
    BY <1>1, <2>1, InHandIsThere, Deciding
  <2>3. w # c
    BY <1>1, <2>2, EndedStays DEF FiledIsOver
  <2>4. SameAsk(withdrawal'[w], withdrawal[w])
    <3>1. CASE withdrawal'[w] = withdrawal[w]
      BY <3>1 DEF SameAsk
    <3>2. CASE SaveDecision(c)
      <4>1. DOMAIN withdrawal = Calls
        BY <1>1 DEF LedgerTypeOK, WithdrawalTypeOK, WithdrawalTablesOK
      <4> HIDE DEF w
      <4> QED
        BY <2>2, <3>2, <4>1 DEF SaveDecision, SameAsk, WithdrawalRow
    <3> QED
      BY <1>1, <2>2, <2>3, <3>1, <3>2, WrittenWithdrawals
  <2> QED
    BY <2>1, <2>4 DEF AskIsCurrent, SameAsk
<1> QED
  BY <1>2, <1>3

\* The hold on every account moves by what one call begins or ceases to reserve.
HoldFollows(w) ==
  \A a \in CustomerIds :
    /\ \A d \in Calls \ {w} : ReservedBy(d, a)' = ReservedBy(d, a)
    /\ account'[a].held = account[a].held + (ReservedBy(w, a)' - ReservedBy(w, a))

\* A call away from the two places that count changes no other call's reservation.
LEMMA OthersReserveOn ==
  ASSUME NEW c \in Calls, LeavesOthers(c), NEW w \in Calls, w # c,
         withdrawal'[w] = withdrawal[w], HasTaken(c, w)' <=> HasTaken(c, w)
  PROVE  \A a : ReservedBy(w, a)' = ReservedBy(w, a)
<1>1. pc'[w] = pc[w] /\ cmd'[w] = cmd[w]
  BY DEF LeavesOthers
<1>2. \A d \in Calls : HasTaken(d, w)' <=> HasTaken(d, w)
  <2>1. \A d \in Calls \ {c} : HasTaken(d, w)' <=> HasTaken(d, w)
    BY DEF LeavesOthers, HasTaken, Complete, ApprovalsWith
  <2> QED
    BY <2>1
<1>3. Ask(w)' = Ask(w)
  BY <1>1 DEF Ask
<1>4. Reserving(w)' <=> Reserving(w)
  <2>1. Reserving(w)' <=> \/ pc'[w] = "fileRequest"
                          \/ /\ withdrawal'[w] # None /\ withdrawal'[w].status = "pending"
                             /\ \A d \in Calls : ~ HasTaken(d, w)'
    BY DEF Reserving, Exists, HasTaken
  <2> QED
    BY <1>1, <1>2, <2>1, ReservingMeans
<1> QED
  BY <1>3, <1>4 DEF ReservedBy, Ask, Customer, TotalReserved

\* Nor its own.
LEMMA SteadyStep ==
  ASSUME LedgerTypeOK, NEW c \in Calls, LeavesOthers(c), UNCHANGED withdrawal,
         pc[c] # "fileRequest", pc'[c] # "fileRequest",
         \A w \in Calls : HasTaken(c, w)' <=> HasTaken(c, w),
         \A a \in CustomerIds : account'[a].held = account[a].held
  PROVE  HoldFollows(c)
<1>1. \A d \in Calls \ {c}, a \in CustomerIds : ReservedBy(d, a)' = ReservedBy(d, a)
  BY OthersReserveOn
<1>2. \A d \in Calls : HasTaken(d, c)' <=> HasTaken(d, c)
  BY DEF LeavesOthers, HasTaken, Complete, ApprovalsWith
<1>3. Reserving(c)' <=> Reserving(c)
  BY <1>2, ReservingMeans DEF Reserving, Exists, HasTaken
<1>4. \A a \in CustomerIds : ReservedBy(c, a)' = ReservedBy(c, a)
  BY <1>3 DEF ReservedBy, Customer, TotalReserved
<1>5. \A a \in CustomerIds : account[a].held \in Int /\ ReservedBy(c, a) \in Int
  BY ReservedTyped DEF LedgerTypeOK, WithdrawalTypeOK, StoreTypeOK, Row, CustomerIds,
                       AccountIds, Owners
<1> QED
  BY <1>1, <1>4, <1>5 DEF HoldFollows

\* A step that ends the call, or leads it anywhere but to the two places that count, from
\* anywhere but them, with the holds as they are.
LEMMA ElsewhereStep ==
  ASSUME LedgerTypeOK, NEW c \in Calls, LeavesOthers(c), UNCHANGED withdrawal,
         pc[c] \notin {"fileRequest", "saveDecision"},
         pc'[c] \notin {"fileRequest", "saveDecision"},
         \A a \in CustomerIds : account'[a].held = account[a].held
  PROVE  HoldFollows(c)
BY SteadyStep DEF HasTaken

\* Deposits and direct credits touch no hold.
LEMMA ClaimStepsTouchNoHold ==
  ASSUME SoundInv, NEW c \in Calls, ClaimStep(c)
  PROVE  \A a \in CustomerIds : account'[a].held = account[a].held
<1>1. LedgerTypeOK
  BY DEF SoundInv
<1>2. CustomerIds \subseteq AccountIds
  BY DEF CustomerIds, AccountIds, Owners
<1>3. CASE UNCHANGED tables
  BY <1>3 DEF tables
<1>4. CASE PostClaim(c) /\ ~ UNCHANGED tables
  <2>1. pc[c] \in SettleSteps
    BY <1>4 DEF PostClaim, SettleSteps
  <2>2. /\ Claimant(c) \in AccountIds /\ Custody(c) \in AccountIds /\ Claimant(c) # Custody(c)
        /\ cmd[c].amount \in Nat
    BY <1>1, <2>1, Settling
  <2>3. /\ Current(c, DOMAIN CreditRows(c, Claimant(c), Custody(c), cmd[c].amount))
        /\ UpdateBalance(CreditRows(c, Claimant(c), Custody(c), cmd[c].amount))
    BY <1>4 DEF PostClaim, CanPost, Post, tables
  <2> QED
    BY <1>2, <2>2, <2>3, CreditRowsMove
<1>5. CASE PostCredit(c) /\ ~ UNCHANGED tables
  <2> DEFINE to == <<cmd[c].user, cmd[c].asset>>
             from == <<cmd[c].source, cmd[c].asset>>
  <2>1. pc[c] \in CreditSteps
    BY <1>5 DEF PostCredit, CreditSteps
  <2>2. to \in AccountIds /\ from \in AccountIds /\ to # from /\ cmd[c].amount \in Nat
    BY <1>1, <2>1, Crediting
  <2>3. /\ Current(c, DOMAIN CreditRows(c, to, from, cmd[c].amount))
        /\ UpdateBalance(CreditRows(c, to, from, cmd[c].amount))
    BY <1>5 DEF PostCredit, CanPost, Post, tables
  <2> HIDE DEF to, from
  <2> QED
    BY <1>2, <2>2, <2>3, CreditRowsMove
<1> QED
  BY <1>3, <1>4, <1>5
  DEF ClaimStep, Submit, Mark, Settle, CreditDirectly, PutProof, SaveClaim, SaveClaimRaises,
      RemoveProof, ReadToMark, SaveMark, ReadToSettle, ReadClaimant, ReadCustody, SaveVerdict,
      ReadForCredit, ReadSource

\* The steps of claims are no steps of a withdrawal.
LEMMA ClaimStepsGoElsewhere ==
  ASSUME LedgerTypeOK, NEW c \in Calls, ClaimStep(c)
  PROVE  /\ pc[c] \notin {"fileRequest", "saveDecision"}
         /\ pc'[c] \notin {"fileRequest", "saveDecision"}
<1>1. \A how \in {"ok", "refused", "failed"} :
        End(c, how) => pc'[c] \notin {"fileRequest", "saveDecision"}
  BY EndEnds DEF Ended
<1>2. CASE Submit(c)
  BY <1>1, <1>2, GoToGoes DEF Submit, PutProof, SaveClaim, SaveClaimRaises, RemoveProof
<1>3. CASE Mark(c)
  BY <1>1, <1>3, GoToGoes DEF Mark, ReadToMark, Reading, SaveMark
<1>4. CASE Settle(c)
  BY <1>1, <1>4, GoToGoes
  DEF Settle, ReadToSettle, Reading, ReadClaimant, ReadCustody, PostClaim, SaveVerdict
<1>5. CASE CreditDirectly(c)
  BY <1>1, <1>5, GoToGoes DEF CreditDirectly, ReadForCredit, ReadSource, PostCredit
<1> QED
  BY <1>2, <1>3, <1>4, <1>5 DEF ClaimStep

\* The hold is placed as its withdrawal begins to reserve it, and stays as it is filed.
LEMMA RequestHoldFollows ==
  ASSUME HeldInv, NEW c \in Calls, Step(c), Request(c)
  PROVE  HoldFollows(c)
<1>1. LedgerTypeOK /\ LeavesOthers(c) /\ LedgerTypeOK' /\ FiledIsOver /\ HandInv /\ SoundInv
  BY StepLeavesOthers DEF HeldInv, HandInv
<1>2. \A how \in {"ok", "refused", "failed"} :
        End(c, how) => pc'[c] \notin {"fileRequest", "saveDecision"}
  BY <1>1, EndEnds DEF Ended
<1>3. CustomerIds \subseteq AccountIds
  BY DEF CustomerIds, AccountIds, Owners
<1>4. \A a \in CustomerIds : account[a].held \in Int
  BY <1>1, <1>3 DEF LedgerTypeOK, WithdrawalTypeOK, StoreTypeOK, Row
<1>5. CASE ~ FileRequest(c) /\ ~ (PlaceHold(c) /\ ~ UNCHANGED tables)
  <2>1. /\ UNCHANGED <<account, withdrawal>>
        /\ pc[c] \notin {"fileRequest", "saveDecision"}
        /\ pc'[c] \notin {"fileRequest", "saveDecision"}
    <3>1. CASE PlaceHold(c) /\ UNCHANGED tables
      <4>1. End(c, "failed")
        <5>1. SUFFICES ASSUME ~ End(c, "failed") PROVE FALSE
          OBVIOUS
        <5>2. /\ cmd[c] \in RequestCommand /\ Current(c, {Customer(cmd[c])})
              /\ SaveAccount(Customer(cmd[c]), Hold(mem[c][Customer(cmd[c])], TotalReserved(cmd[c])))
              /\ UNCHANGED account
          BY <1>1, <3>1, <5>1
          DEF PlaceHold, CanSave, tables, LedgerTypeOK, WithdrawalTypeOK, WithdrawalCallOK, RequestSteps
        <5> DEFINE a == Customer(cmd[c])
                   row == Hold(mem[c][a], TotalReserved(cmd[c]))
        <5>3. a \in AccountIds /\ TotalReserved(cmd[c]) \in Int
          BY <5>2, WithdrawalFigures
        <5>4. mem[c][a] \in Row /\ account[a] \in Row
          BY <1>1, <5>3 DEF LedgerTypeOK, WithdrawalTypeOK, StoreTypeOK
        <5>5. row \in Row /\ row.version = mem[c][a].version
          BY <5>3, <5>4, RowArithmetic
        <5>6. account'[a] = Bumped(row)
          BY <5>2, <5>3 DEF SaveAccount, UpdateBalance
        <5>7. account'[a].version = mem[c][a].version + 1
          BY <5>5, <5>6, BumpedRow
        <5> QED
          BY <5>2, <5>4, <5>7 DEF Current, Row
      <4> QED
        BY <1>2, <3>1, <4>1 DEF PlaceHold, tables, withdrawalVars
    <3>2. CASE ~ PlaceHold(c)
      BY <1>1, <1>2, <1>5, <3>2, GoToGoes DEF Request, ReadForRequest, CheckGas, tables, withdrawalVars
    <3> QED
      BY <1>5, <3>1, <3>2
  <2> QED
    BY <1>1, <2>1, ElsewhereStep
<1>6. CASE PlaceHold(c) /\ ~ UNCHANGED tables
  <2> DEFINE a == Customer(cmd[c])
             total == TotalReserved(cmd[c])
  <2>1. /\ pc[c] = "placeHold" /\ GoTo(c, "fileRequest") /\ UNCHANGED <<cmd, withdrawal>>
        /\ UNCHANGED transfer /\ ~ UNCHANGED account
    BY <1>6 DEF PlaceHold, SaveAccount, tables, withdrawalVars
  <2>2. pc'[c] = "fileRequest" /\ withdrawal[c] = None
    BY <1>1, <2>1, GoToGoes DEF FiledIsOver, Ended
  <2>3. \A b \in AccountIds :
          account'[b].held = account[b].held + (IF b = a THEN total ELSE 0)
    BY <1>1, <1>6, <2>1, PlaceHoldReserves
  <2>4. \A w \in Calls : ~ HasTaken(c, w) /\ ~ HasTaken(c, w)'
    BY <2>1, <2>2 DEF HasTaken
  <2>5. \A d \in Calls \ {c}, b \in CustomerIds : ReservedBy(d, b)' = ReservedBy(d, b)
    BY <1>1, <2>1, <2>4, OthersReserveOn
  <2>6. \A b \in CustomerIds : ReservedBy(c, b) = 0
    BY <2>1, <2>2, ReservingMeans
  <2>7. \A b \in CustomerIds : ReservedBy(c, b)' = IF b = a THEN total ELSE 0
    BY <2>1, <2>2 DEF ReservedBy, Reserving, Customer, TotalReserved
  <2>8. total \in Int
    BY <1>1, <2>1, WithdrawalFigures
    DEF LedgerTypeOK, WithdrawalTypeOK, WithdrawalCallOK, RequestSteps
  <2> HIDE DEF a, total
  <2> QED
    BY <1>3, <1>4, <2>3, <2>5, <2>6, <2>7, <2>8 DEF HoldFollows
<1>7. CASE FileRequest(c)
  <2>1. /\ pc[c] = "fileRequest" /\ End(c, "ok") /\ UNCHANGED account
        /\ withdrawal' = [withdrawal EXCEPT
             ![c] = [user |-> cmd[c].user, asset |-> cmd[c].asset, amount |-> cmd[c].amount,
                     status |-> "pending", decidedBy |-> None]]
    BY <1>7 DEF FileRequest, tables
  <2>2. pc'[c] \notin {"fileRequest", "saveDecision"}
    BY <1>2, <2>1
  <2>3. DOMAIN withdrawal = Calls
    BY <1>1 DEF LedgerTypeOK, WithdrawalTypeOK, WithdrawalTablesOK
  <2>4. /\ withdrawal'[c].user = cmd[c].user /\ withdrawal'[c].asset = cmd[c].asset
        /\ withdrawal'[c].amount = cmd[c].amount /\ withdrawal'[c].status = "pending"
        /\ \A w \in Calls \ {c} : withdrawal'[w] = withdrawal[w]
    BY <2>1, <2>3
  <2>5. withdrawal[c] = None /\ withdrawal'[c] # None
    <3>1. withdrawal[c] = None
      BY <1>1, <2>1 DEF FiledIsOver, Ended
    <3>2. cmd[c] \in RequestCommand
      BY <1>1, <2>1 DEF LedgerTypeOK, WithdrawalTypeOK, WithdrawalCallOK, RequestSteps
    <3>3. withdrawal'[c] \in WithdrawalRow
      BY <2>1, <2>3, <3>2 DEF WithdrawalRow, RequestCommand
    <3> QED
      BY <3>1, <3>3, NoRecordAssumption
  <2>6. \A w \in Calls : ~ HasTaken(c, w) /\ ~ HasTaken(c, w)'
    BY <2>1, <2>2 DEF HasTaken
  <2>7. \A d \in Calls \ {c}, b \in CustomerIds : ReservedBy(d, b)' = ReservedBy(d, b)
    BY <1>1, <2>4, <2>6, OthersReserveOn
  <2>8. \A d \in Calls : ~ HasTaken(d, c)'
    <3>1. ASSUME NEW d \in Calls \ {c}, HasTaken(d, c)'
          PROVE  FALSE
      <4>1. pc[d] \in DecideSteps /\ cmd[d].target = c
        BY <1>1, <3>1 DEF HasTaken, LeavesOthers, DecideSteps
      <4> QED
        BY <1>1, <2>5, <4>1, InHandIsThere
    <3> QED
      BY <2>6, <3>1
  <2>9. Reserving(c) /\ Reserving(c)'
    BY <2>1, <2>2, <2>4, <2>5, <2>8 DEF Reserving, Exists, HasTaken
  <2>10. \A b \in CustomerIds : ReservedBy(c, b)' = ReservedBy(c, b)
    BY <2>1, <2>2, <2>4, <2>9 DEF ReservedBy, Customer, TotalReserved
  <2>11. \A b \in CustomerIds : ReservedBy(c, b) \in Int
    BY <1>1, ReservedTyped
  <2> QED
    BY <1>4, <2>1, <2>7, <2>10, <2>11 DEF HoldFollows
<1> QED
  BY <1>5, <1>6, <1>7

\* A call that takes the hold of the withdrawal it decides ends that reservation, and no
\* other.
LEMMA TakingEndsReservation ==
  ASSUME HeldInv, NEW c \in Calls, Step(c), UNCHANGED <<withdrawal, cmd>>,
         pc[c] \in SavePending, pc[c] \notin {"readApprovals", "saveDecision"},
         pc'[c] = "saveDecision", HasTaken(c, cmd[c].target)',
         \A b \in AccountIds :
           account'[b].held = account[b].held
             - (IF b = Customer(seen[c].row) THEN TotalReserved(seen[c].row) ELSE 0)
  PROVE  HoldFollows(cmd[c].target)
<1> DEFINE w == cmd[c].target
           r == seen[c].row
<1>1. /\ LedgerTypeOK /\ LeavesOthers(c) /\ HandInv /\ FiledIsOver /\ AloneOnIt
      /\ StatusIsCurrent /\ AskIsCurrent
  BY StepLeavesOthers DEF HeldInv, HandInv
<1>2. pc[c] \in DecideSteps
  BY DEF SavePending
<1>3. w \in Calls /\ withdrawal[w] # None /\ withdrawal[w] \in WithdrawalRow /\ r \in WithdrawalRow
  BY <1>1, <1>2, InHandIsThere, Deciding
<1>4. pc[w] \in Ended /\ w # c
  BY <1>1, <1>2, <1>3 DEF FiledIsOver, DecideSteps, Ended
<1>5. pc'[w] = pc[w] /\ pc[w] # "fileRequest"
  BY <1>1, <1>3, <1>4 DEF LeavesOthers, Ended
<1>6. withdrawal[w].status = "pending" /\ SameAsk(withdrawal[w], r)
  BY <1>1 DEF StatusIsCurrent, AskIsCurrent
<1>7. \A v \in Calls \ {w} : ~ HasTaken(c, v) /\ ~ HasTaken(c, v)'
  BY DEF HasTaken
<1>8. \A d \in Calls : ~ HasTaken(d, w)
  BY <1>1, <1>2 DEF HasTaken, AloneOnIt, DecideSteps
<1>9. \A v \in Calls \ {w}, b \in CustomerIds : ReservedBy(v, b)' = ReservedBy(v, b)
  <2>1. ASSUME NEW v \in Calls \ {w}, v # c
        PROVE  \A b \in CustomerIds : ReservedBy(v, b)' = ReservedBy(v, b)
    BY <1>1, <1>7, <2>1, OthersReserveOn
  <2>2. \A b \in CustomerIds : ReservedBy(c, b)' = ReservedBy(c, b)
    <3>1. withdrawal[c] = None /\ pc[c] # "fileRequest" /\ pc'[c] # "fileRequest"
      BY <1>1, <1>2 DEF FiledIsOver, DecideSteps, Ended
    <3> QED
      BY <3>1 DEF ReservedBy, Reserving, Exists
  <2> QED
    BY <2>1, <2>2
<1>10. Reserving(w) /\ Ask(w) = withdrawal[w]
  BY <1>3, <1>5, <1>6, <1>8, ReservingMeans DEF Ask
<1>11. ~ Reserving(w)'
  BY <1>5, <1>3 DEF Reserving, HasTaken
<1>12. \A b \in CustomerIds : ReservedBy(w, b)' = 0
  BY <1>11 DEF ReservedBy
<1>13. \A b \in CustomerIds :
         ReservedBy(w, b) = IF b = Customer(r) THEN TotalReserved(r) ELSE 0
  BY <1>6, <1>10, ReservingMeans DEF SameAsk, Customer, TotalReserved
<1>14. TotalReserved(r) \in Int /\ CustomerIds \subseteq AccountIds
  BY <1>3, WithdrawalFigures DEF CustomerIds, AccountIds, Owners
<1>15. \A b \in CustomerIds : account[b].held \in Int
  BY <1>1, <1>14 DEF LedgerTypeOK, WithdrawalTypeOK, StoreTypeOK, Row
<1> HIDE DEF w, r
<1>16. \A b \in CustomerIds :
         account'[b].held = account[b].held - (IF b = Customer(r) THEN TotalReserved(r) ELSE 0)
  BY <1>14 DEF r
<1>17. HoldFollows(w)
  BY <1>9, <1>12, <1>13, <1>14, <1>15, <1>16 DEF HoldFollows
<1> QED
  BY <1>17 DEF w

\* Saving a decision changes no reservation: what it ends was ended when the hold was taken,
\* and an approval that does not complete the set leaves the withdrawal as it was.
LEMMA SaveDecisionKeepsReservations ==
  ASSUME HeldInv, NEW c \in Calls, Step(c), SaveDecision(c)
  PROVE  HoldFollows(c)
<1>1. /\ LedgerTypeOK /\ LeavesOthers(c) /\ HandInv /\ FiledIsOver /\ AloneOnIt
      /\ StatusIsCurrent
  BY StepLeavesOthers DEF HeldInv, HandInv
<1>2. pc[c] = "saveDecision" /\ pc[c] \in DecideSteps /\ pc[c] \in SavePending /\ UNCHANGED account
  BY DEF SaveDecision, DecideSteps, SavePending, tables
<1>w. PICK w \in Calls : w = cmd[c].target
  BY <1>1, <1>2, Deciding
<1>3. /\ withdrawal[w] # None /\ withdrawal[w] \in WithdrawalRow
      /\ cmd[c].decision \in {"approve", "reject"}
  BY <1>w, <1>1, <1>2, InHandIsThere, Deciding
<1>4. pc[w] \in Ended /\ w # c
  BY <1>1, <1>2, <1>3 DEF FiledIsOver, Ended
<1>5. pc'[w] = pc[w] /\ pc[w] # "fileRequest"
  BY <1>1, <1>3, <1>4 DEF LeavesOthers, Ended
<1>6. withdrawal[w].status = "pending"
  BY <1>w, <1>1, <1>2 DEF StatusIsCurrent
<1>7. pc'[c] \notin {"saveDecision", "fileRequest"}
  BY <1>1, EndEnds, GoToGoes DEF SaveDecision, Ended
<1>8. DOMAIN withdrawal = Calls
  BY <1>1 DEF LedgerTypeOK, WithdrawalTypeOK, WithdrawalTablesOK
<1>9. \A v \in Calls \ {w} : withdrawal'[v] = withdrawal[v]
  BY <1>w, <1>8 DEF SaveDecision
<1>10. \A v \in Calls \ {w} : ~ HasTaken(c, v) /\ ~ HasTaken(c, v)'
  BY <1>w, <1>7 DEF HasTaken
<1>11. \A v \in Calls \ {w}, b \in CustomerIds : ReservedBy(v, b)' = ReservedBy(v, b)
  <2>1. ASSUME NEW v \in Calls \ {w}, v # c
        PROVE  \A b \in CustomerIds : ReservedBy(v, b)' = ReservedBy(v, b)
    BY <1>1, <1>9, <1>10, <2>1, OthersReserveOn
  <2>2. \A b \in CustomerIds : ReservedBy(c, b)' = ReservedBy(c, b)
    <3>1. withdrawal[c] = None /\ withdrawal'[c] = None
      BY <1>1, <1>2, <1>4, <1>9 DEF FiledIsOver, Ended
    <3> QED
      BY <1>2, <1>7, <3>1 DEF ReservedBy, Reserving, Exists
  <2> QED
    BY <2>1, <2>2
<1>12. ASSUME HasTaken(c, w)
       PROVE  \A b \in CustomerIds : ReservedBy(w, b)' = ReservedBy(w, b)
  <2>1. ~ Reserving(w)
    BY <1>5, <1>12, ReservingMeans
  <2>2. withdrawal'[w].status # "pending"
    BY <1>w, <1>2, <1>3, <1>8, <1>12 DEF SaveDecision, HasTaken, WithdrawalRow
  <2>3. ~ Reserving(w)'
    BY <1>5, <2>2 DEF Reserving
  <2>4. \A b \in CustomerIds : ReservedBy(w, b)' = 0 /\ ReservedBy(w, b) = 0
    BY <2>1, <2>3 DEF ReservedBy
  <2> QED
    BY <2>4
<1>13. ASSUME ~ HasTaken(c, w)
       PROVE  \A b \in CustomerIds : ReservedBy(w, b)' = ReservedBy(w, b)
  <2>1. cmd[c].decision = "approve" /\ ~ Complete(c)
    BY <1>w, <1>2, <1>3, <1>13 DEF HasTaken
  <2>2. withdrawal' = [withdrawal EXCEPT ![w].status = "pending", ![w].decidedBy = None]
    BY <1>w, <2>1 DEF SaveDecision
  <2>3. /\ withdrawal'[w].status = "pending" /\ SameAsk(withdrawal'[w], withdrawal[w])
        /\ withdrawal'[w].decidedBy = None
    BY <1>3, <1>8, <2>2 DEF WithdrawalRow, SameAsk
  <2>4. withdrawal'[w] # None
    <3>1. withdrawal'[w] \in WithdrawalRow
      BY <1>3, <1>8, <2>2 DEF WithdrawalRow
    <3> QED
      BY <3>1, NoRecordAssumption
  <2>5. \A d \in Calls : ~ HasTaken(d, w) /\ ~ HasTaken(d, w)'
    <3>1. \A d \in Calls \ {c} : ~ HasTaken(d, w) /\ ~ HasTaken(d, w)'
      BY <1>w, <1>1, <1>2 DEF HasTaken, AloneOnIt, DecideSteps, LeavesOthers
    <3>2. ~ HasTaken(c, w)'
      BY <1>7 DEF HasTaken
    <3> QED
      BY <1>13, <3>1, <3>2
  <2>6. Reserving(w) /\ Reserving(w)'
    <3>1. Reserving(w)
      BY <1>3, <1>6, <2>5, ReservingMeans
    <3>2. Reserving(w)'
      BY <2>3, <2>4, <2>5 DEF Reserving, Exists, HasTaken
    <3> QED
      BY <3>1, <3>2
  <2> QED
    BY <1>5, <2>3, <2>6 DEF ReservedBy, SameAsk, Customer, TotalReserved
<1>14. \A b \in CustomerIds : ReservedBy(w, b)' = ReservedBy(w, b)
  BY <1>12, <1>13
<1>15. \A v \in Calls, b \in CustomerIds : ReservedBy(v, b)' = ReservedBy(v, b)
  BY <1>11, <1>14
<1>16. \A b \in CustomerIds : account[b].held \in Int /\ ReservedBy(c, b) \in Int
  BY <1>1, ReservedTyped DEF LedgerTypeOK, WithdrawalTypeOK, StoreTypeOK, Row, CustomerIds,
                             AccountIds, Owners
<1> QED
  BY <1>2, <1>15, <1>16 DEF HoldFollows

\* A decision releases or spends the hold as its withdrawal ceases to reserve it.
LEMMA DecideHoldFollows ==
  ASSUME HeldInv, NEW c \in Calls, Step(c), Decide(c)
  PROVE  \E w \in Calls : HoldFollows(w)
<1>1. /\ LedgerTypeOK /\ LeavesOthers(c) /\ SoundInv /\ PostedInv
  BY StepLeavesOthers DEF HeldInv, HandInv
<1>2. \A how \in {"ok", "refused", "failed"} :
        End(c, how) => pc'[c] \notin {"fileRequest", "saveDecision"}
  BY <1>1, EndEnds DEF Ended
<1>3. ASSUME UNCHANGED <<account, withdrawal>>, pc[c] \notin {"fileRequest", "saveDecision"},
             pc'[c] \notin {"fileRequest", "saveDecision"}
      PROVE  HoldFollows(c)
  BY <1>1, <1>3, ElsewhereStep
<1>4. CASE \E w \in Calls, o \in Operators, d \in {"approve", "reject"} : ReadForDecision(c, w, o, d)
  <2>1. /\ UNCHANGED <<account, withdrawal>> /\ pc[c] \notin {"fileRequest", "saveDecision"}
        /\ pc'[c] \notin {"fileRequest", "saveDecision"}
    BY <1>1, <1>2, <1>4, GoToGoes DEF ReadForDecision, tables, withdrawalVars
  <2> QED
    BY <1>3, <2>1
<1>5. CASE ReadApprovals(c) \/ ReadPayable(c) \/ ReadFees(c) \/ SaveApprovals(c)
  <2>1. /\ UNCHANGED <<account, withdrawal>> /\ pc[c] \notin {"fileRequest", "saveDecision"}
        /\ pc'[c] \notin {"fileRequest", "saveDecision"}
    BY <1>1, <1>2, <1>5, GoToGoes
    DEF ReadApprovals, ReadPayable, ReadFees, SaveApprovals, tables, withdrawalVars
  <2> QED
    BY <1>3, <2>1
<1>6. CASE ReadCustomer(c)
  <2>1. UNCHANGED <<account, withdrawal>> /\ pc[c] = "readCustomer"
    BY <1>6 DEF ReadCustomer, tables, withdrawalVars
  <2>2. CASE pc'[c] \notin {"fileRequest", "saveDecision"}
    BY <1>3, <2>1, <2>2
  <2>3. CASE pc'[c] \in {"fileRequest", "saveDecision"}
    <3>1. /\ ~ (cmd[c].decision = "reject") /\ ~ Complete(c) /\ UNCHANGED <<cmd, seen>>
          /\ pc'[c] = "saveDecision"
      <4>1. GoTo(c, IF cmd[c].decision = "reject" THEN "releaseHold"
                    ELSE IF Complete(c) THEN "readPayable" ELSE "saveDecision")
            /\ UNCHANGED <<cmd, seen>>
        BY <1>2, <1>6, <2>3 DEF ReadCustomer
      <4>2. pc'[c] = IF cmd[c].decision = "reject" THEN "releaseHold"
                     ELSE IF Complete(c) THEN "readPayable" ELSE "saveDecision"
        BY <1>1, <4>1, GoToGoes
      <4> QED
        BY <2>3, <4>1, <4>2
    <3>2. \A w \in Calls : ~ HasTaken(c, w) /\ ~ HasTaken(c, w)'
      BY <2>1, <3>1 DEF HasTaken, Complete, ApprovalsWith
    <3> QED
      BY <1>1, <2>1, <3>1, <3>2, SteadyStep
  <2> QED
    BY <2>2, <2>3
<1>7. CASE ReleaseHold(c)
  <2>1. pc[c] = "releaseHold" /\ UNCHANGED withdrawal
    BY <1>7 DEF ReleaseHold, withdrawalVars
  <2>2. CASE End(c, "failed") /\ UNCHANGED tables
    BY <1>2, <1>3, <2>1, <2>2 DEF tables
  <2>3. CASE ~ (End(c, "failed") /\ UNCHANGED tables)
    <3>1. /\ GoTo(c, "saveDecision") /\ UNCHANGED <<cmd, transfer>>
          /\ ~ UNCHANGED account
      <4>1. /\ GoTo(c, "saveDecision") /\ UNCHANGED <<cmd, transfer>> /\ CanSave(c, Customer(seen[c].row))
            /\ SaveAccount(Customer(seen[c].row),
                           Release(mem[c][Customer(seen[c].row)], TotalReserved(seen[c].row)))
        BY <1>7, <2>3 DEF ReleaseHold, SaveAccount
      <4> DEFINE a == Customer(seen[c].row)
                 row == Release(mem[c][a], TotalReserved(seen[c].row))
      <4>2. pc[c] \in DecideSteps
        BY <2>1 DEF DecideSteps
      <4>3. a \in AccountIds /\ TotalReserved(seen[c].row) \in Int
        BY <1>1, <4>2, Deciding, WithdrawalFigures
      <4>4. mem[c][a] \in Row /\ account[a] \in Row
        BY <1>1, <4>3 DEF LedgerTypeOK, WithdrawalTypeOK, StoreTypeOK
      <4>5. row \in Row /\ row.version = mem[c][a].version
        BY <4>3, <4>4, RowArithmetic
      <4>6. account'[a] = Bumped(row)
        BY <4>1, <4>3 DEF SaveAccount, UpdateBalance
      <4>7. account'[a].version = mem[c][a].version + 1
        BY <4>5, <4>6, BumpedRow
      <4>8. mem[c][a].version = account[a].version
        BY <4>1 DEF CanSave, Current
      <4> QED
        BY <4>1, <4>4, <4>7, <4>8 DEF Row
    <3>2. pc'[c] = "saveDecision" /\ cmd[c].decision = "reject" /\ cmd[c].target \in Calls
      BY <1>1, <2>1, <3>1, GoToGoes, Deciding DEF PostedInv, OnTheWay, DecideSteps
    <3>3. HasTaken(c, cmd[c].target)'
      BY <3>1, <3>2 DEF HasTaken
    <3>4. \A b \in AccountIds :
            account'[b].held = account[b].held
              - (IF b = Customer(seen[c].row) THEN TotalReserved(seen[c].row) ELSE 0)
      BY <1>1, <1>7, <3>1, ReleaseHoldGivesBack
    <3>5. pc[c] \in SavePending /\ pc[c] \notin {"readApprovals", "saveDecision"}
      BY <2>1 DEF SavePending, DecideSteps
    <3>6. HoldFollows(cmd[c].target)
      BY <2>1, <3>1, <3>2, <3>3, <3>4, <3>5, TakingEndsReservation
    <3>7. PICK w \in Calls : w = cmd[c].target
      BY <3>2
    <3>8. HoldFollows(w)
      BY <3>1, <3>6, <3>7 DEF HoldFollows, ReservedBy, Reserving
    <3> QED
      BY <3>8
  <2> QED
    BY <2>2, <2>3
<1>8. CASE PostWithdrawal(c)
  <2>1. pc[c] = "postWithdrawal" /\ UNCHANGED withdrawal
    BY <1>8 DEF PostWithdrawal, withdrawalVars
  <2>2. CASE End(c, "failed") /\ UNCHANGED tables
    BY <1>2, <1>3, <2>1, <2>2 DEF tables
  <2>3. CASE ~ (End(c, "failed") /\ UNCHANGED tables)
    <3>1. /\ GoTo(c, "saveDecision") /\ UNCHANGED <<cmd, seen>>
          /\ Post(c, "withdrawal", cmd[c].target, WithdrawalEntries(seen[c].row),
                  WithdrawalRows(c, seen[c].row))
      BY <1>8, <2>3 DEF PostWithdrawal
    <3>2. pc[c] \in DecideSteps /\ pc[c] \notin Posted
      BY <2>1 DEF DecideSteps, Posted, Ended
    <3>3. ~ UNCHANGED tables
      <4>1. seen[c].row \in WithdrawalRow /\ cmd[c].target \in Calls
        BY <1>1, <3>2, Deciding
      <4>2. WithdrawalEntries(seen[c].row) \in [AccountIds -> Int]
        BY <1>1, <4>1, WithdrawalRowsTyped DEF LedgerTypeOK, WithdrawalTypeOK
      <4>3. transfer[c] = None /\ transfer'[c] # None
        BY <1>1, <3>1, <3>2, <4>1, <4>2, PostLeaves DEF PostedInv
      <4> QED
        BY <4>3 DEF tables
    <3>4. pc'[c] = "saveDecision" /\ Completing(c) /\ cmd[c].target \in Calls
      BY <1>1, <2>1, <3>1, <3>2, GoToGoes, Deciding DEF PostedInv, OnTheWay
    <3>5. HasTaken(c, cmd[c].target)'
      BY <3>1, <3>4 DEF HasTaken, Completing, Complete, ApprovalsWith
    <3>6. \A b \in AccountIds :
            account'[b].held = account[b].held
              - (IF b = Customer(seen[c].row) THEN TotalReserved(seen[c].row) ELSE 0)
      BY <1>1, <1>8, <3>3, PostWithdrawalPaysOut
    <3>7. pc[c] \in SavePending /\ pc[c] \notin {"readApprovals", "saveDecision"}
      BY <2>1 DEF SavePending, DecideSteps
    <3>8. HoldFollows(cmd[c].target)
      BY <2>1, <3>1, <3>4, <3>5, <3>6, <3>7, TakingEndsReservation
    <3>9. PICK w \in Calls : w = cmd[c].target
      BY <3>4
    <3>10. HoldFollows(w)
      BY <3>1, <3>8, <3>9 DEF HoldFollows, ReservedBy, Reserving
    <3> QED
      BY <3>10
  <2> QED
    BY <2>2, <2>3
<1>9. CASE SaveDecision(c)
  BY <1>9, SaveDecisionKeepsReservations
<1> QED
  BY <1>3, <1>4, <1>5, <1>6, <1>7, <1>8, <1>9 DEF Decide

\* A step of a ledger whose calls do not stop on the way moves the holds with what reserves
\* them.
LEMMA StepHoldFollows ==
  ASSUME ~ MayCrash, HeldInv, NEW c \in Calls, Step(c)
  PROVE  \E w \in Calls : HoldFollows(w)
<1>1. LedgerTypeOK /\ LeavesOthers(c) /\ SoundInv
  BY StepLeavesOthers DEF HeldInv, HandInv
<1>2. CASE WithdrawalStep(c)
  BY <1>2, RequestHoldFollows, DecideHoldFollows DEF WithdrawalStep
<1>3. CASE ClaimStep(c)
  <2>1. UNCHANGED withdrawal
    BY <1>3 DEF ClaimStep, withdrawalVars
  <2> QED
    BY <1>1, <1>3, <2>1, ClaimStepsTouchNoHold, ClaimStepsGoElsewhere, ElsewhereStep
<1>4. ~ CrashStep(c)
  BY DEF CrashStep, CrashCall
<1> QED
  BY <1>2, <1>3, <1>4 DEF Step

\* Without a crash, a step takes from what is held what it takes from what is pending.
LEMMA StepKeepsHeldPending ==
  ASSUME ~ MayCrash, HeldInv, LedgerTypeOK', NEW c \in Calls, Step(c)
  PROVE  HeldIsWhatIsPending'
<1>1. LedgerTypeOK
  BY DEF HeldInv, HandInv
<1>2. PICK w \in Calls : HoldFollows(w)
  BY StepHoldFollows
<1> SUFFICES ASSUME NEW a \in CustomerIds
             PROVE  account'[a].held = SumFunction([d \in Calls |-> ReservedBy(d, a)])'
  BY DEF HeldIsWhatIsPending
<1> DEFINE f == [d \in Calls |-> ReservedBy(d, a)]
           g == [d \in Calls |-> ReservedBy(d, a)']
<1>3. /\ SumFunction(f) = SumFunctionOnSet(f, Calls)
      /\ SumFunction([d \in Calls |-> ReservedBy(d, a)])' = SumFunctionOnSet(g, Calls)
  BY DEF SumFunction
<1>4. account[a].held = SumFunctionOnSet(f, Calls)
  BY <1>3 DEF HeldInv, HeldIsWhatIsPending
<1>5. \A d \in Calls : ReservedBy(d, a) \in Int
  BY <1>1, ReservedTyped
<1>6. \A d \in Calls : ReservedBy(d, a)' \in Int
  <2>1. \A d \in Calls \ {w} : ReservedBy(d, a)' \in Int
    BY <1>2, <1>5 DEF HoldFollows
  <2>2. ReservedBy(w, a)' \in Int
    BY ReservedPrimedTyped
  <2> QED
    BY <2>1, <2>2
<1>7. \A d \in Calls \ {w} : f[d] = g[d]
  BY <1>2 DEF HoldFollows
<1>8. \A d \in Calls : f[d] \in Int /\ g[d] \in Int
  BY <1>5, <1>6
<1>9. account'[a].held = account[a].held + (g[w] - f[w])
  BY <1>2 DEF HoldFollows
<1> HIDE DEF f, g
<1>10. SumFunctionOnSet(g, Calls) = SumFunctionOnSet(f, Calls) + (g[w] - f[w])
  BY <1>7, <1>8, CallsAssumption, SumMovesByOneTerm
<1> QED
  BY <1>3, <1>4, <1>9, <1>10

\* What is held on a customer's account is what the undecided withdrawals reserve: with one
\* operator at a time on a withdrawal and no call stopping between its two writes, no hold
\* outlives its withdrawal and none is missing, for any number of customers and calls.
THEOREM HeldIsPending ==
  ASSUME OneAtATime, ~ MayCrash
  PROVE  Spec => []HeldIsWhatIsPending
<1>1. Init => AskIsCurrent /\ HeldIsWhatIsPending
  <2> SUFFICES ASSUME Init PROVE AskIsCurrent /\ HeldIsWhatIsPending
    OBVIOUS
  <2>1. AskIsCurrent
    BY DEF Init, StoreInit, AskIsCurrent, SavePending, DecideSteps
  <2>2. ASSUME NEW a \in CustomerIds
        PROVE  account[a].held = SumFunction([w \in Calls |-> ReservedBy(w, a)])
    <3> DEFINE f == [w \in Calls |-> ReservedBy(w, a)]
    <3>1. SumFunction(f) = SumFunctionOnSet(f, Calls)
      BY DEF SumFunction
    <3>2. \A w \in Calls : f[w] = 0
      BY DEF Init, StoreInit, WithdrawalInit, ReservedBy, Reserving, Exists
    <3>3. account[a].held = 0
      BY DEF Init, StoreInit, CustomerIds, AccountIds, Owners
    <3>4. SumFunctionOnSet(f, Calls) = 0
      <4> HIDE DEF f
      <4> QED
        BY <3>2, CallsAssumption, SumOfZeros
    <3> QED
      BY <3>1, <3>3, <3>4
  <2> QED
    BY <2>1, <2>2 DEF HeldIsWhatIsPending
<1>2. /\ SoundInv /\ PostedInv /\ HandInv /\ HandInv'
      /\ AskIsCurrent /\ HeldIsWhatIsPending /\ [Next]_vars
      => AskIsCurrent' /\ HeldIsWhatIsPending'
  <2> SUFFICES ASSUME HeldInv, HandInv', [Next]_vars
               PROVE  AskIsCurrent' /\ HeldIsWhatIsPending'
    BY DEF HeldInv
  <2>1. CASE Next
    <3>1. PICK c \in Calls : Step(c)
      BY <2>1 DEF Next, Step
    <3> QED
      BY <3>1, StepKeepsAskCurrent, StepKeepsHeldPending DEF HeldInv, HandInv
  <2>2. CASE UNCHANGED vars
    <3>1. UNCHANGED <<account, pc, cmd, seen, withdrawal>>
      BY <2>2 DEF vars, storeVars, tables, callVars, withdrawalVars
    <3>2. AskIsCurrent'
      BY <3>1 DEF HeldInv, AskIsCurrent, SameAsk
    <3>3. \A a : [w \in Calls |-> ReservedBy(w, a)]' = [w \in Calls |-> ReservedBy(w, a)]
      BY <3>1 DEF ReservedBy, Reserving, Exists, Complete, ApprovalsWith, Customer, TotalReserved
    <3> QED
      BY <3>1, <3>2, <3>3 DEF HeldInv, HeldIsWhatIsPending
  <2> QED
    BY <2>1, <2>2
<1> QED
  BY <1>1, <1>2, SoundInvHolds, PostedInvHolds, HandInvHolds, PTL DEF Spec
=============================================================================

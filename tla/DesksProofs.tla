------------------------------ MODULE DesksProofs ------------------------------
(***************************************************************************)
(* What holds of the services beside the ledger and identity, for any      *)
(* number of customers, requests, documents and messages.                  *)
(*                                                                         *)
(* A verdict is final and a customer has one case: the insert of a case    *)
(* only ever adds a pending one, the upsert of a verdict only writes a row *)
(* that is still pending, and what a submission has checked cannot be      *)
(* undone by an operator while it goes on.                                 *)
(*                                                                         *)
(* Turning notifications off is retried until it has worked: while the     *)
(* push service delivers to this browser through any registration, the     *)
(* cookie names that registration and the page remembers an owner, as long *)
(* as the server's deletions work and nobody presses "sign out everywhere" *)
(* here.  Lost requests, dead tokens, lapsed sessions and the other        *)
(* browsers are allowed in any number and any order.                       *)
(*                                                                         *)
(* A nonce is accepted once and a verified row was signed for: the update  *)
(* that consumes a challenge hands its nonce to one request only; what     *)
(* that request carries from then on is a claim that was issued and        *)
(* signed, and no other way of writing a row makes it verified.            *)
(*                                                                         *)
(* A notice shows what was last chosen for it, as the list would have it   *)
(* by then; an image that was sent is on one message; and while requests   *)
(* take turns, a conversation's summary tells its transcript.              *)
(*                                                                         *)
(* What a customer typed is in the box, in a bubble or stored, and a       *)
(* bubble that nothing on screen stands for is drawn.  The feed reaches    *)
(* every record: what a page leaves out is older than all of the page, so  *)
(* it is below the next cursor.                                            *)
(***************************************************************************)
EXTENDS Desks, FiniteSetTheorems, SequenceTheorems, TLAPS

----------------------------------------------------------------------------
(* Identity verification *)

\* What a customer's submission has found to be so, and still is.
ChecksStand(u) ==
  \A at \in submissions[u] :
    /\ at # "pending?" => \A c \in CasesOf(u) : cases[c].status # "pending"
    /\ at \in {"store", "save"} => \A c \in CasesOf(u) : cases[c].status # "approved"

OneAtATimeSubmitted == \A u \in Applicants : \A a, b \in submissions[u] : a = b

\* The inductive invariant: the types, and for customers whose submissions follow one
\* another, the checks that stand and the one case they guard.
VerificationInv ==
  /\ VerificationTypeOK
  /\ SerialSubmissions => OneAtATimeSubmitted /\ \A u \in Applicants : ChecksStand(u)
  /\ OneCasePerCustomer

SubmissionStep(u) ==
  Submit(u) \/ CheckPending(u) \/ CheckApproved(u) \/ StoreDocument(u) \/ StopSubmission(u)
ReviewStep(r) ==
  (\E c \in Cases, verdict \in Decided : OpenCase(r, c, verdict)) \/ StopReview(r)

----------------------------------------------------------------------------
\* There are no cases yet.
LEMMA VerificationInvInit == VerificationInit => VerificationInv
BY VerificationAssumption DEF VerificationInit, VerificationInv, VerificationTypeOK, CaseRow, Review,
   OneAtATimeSubmitted, ChecksStand, OneCasePerCustomer, CasesOf

\* Every step keeps the types.
LEMMA VerificationTypesStep ==
  ASSUME VerificationTypeOK, [VerificationNext]_verificationVars
  PROVE  VerificationTypeOK'
<1>1. CASE UNCHANGED verificationVars
  BY <1>1 DEF VerificationTypeOK, verificationVars
<1>2. ASSUME NEW u \in Applicants, SubmissionStep(u)
      PROVE  VerificationTypeOK'
  BY <1>2 DEF VerificationTypeOK, SubmissionStep, Submit, CheckPending, CheckApproved,
     StoreDocument, StopSubmission, StepsOn, DropSubmission, Stages
<1>3. ASSUME NEW u \in Applicants, FileCase(u)
      PROVE  VerificationTypeOK'
  <2>1. PICK c \in Cases : cases' = [cases EXCEPT ![c] =
                             [user |-> u, status |-> "pending", decidedBy |-> NoCase]]
    BY <1>3 DEF FileCase
  <2>2. [user |-> u, status |-> "pending", decidedBy |-> NoCase] \in CaseRow
    BY DEF CaseRow
  <2>3. cases'[c] # NoCase
    BY <2>1, <2>2, VerificationAssumption DEF VerificationTypeOK, CaseRow, Decided
  <2> QED BY <1>3, <2>1, <2>2, <2>3 DEF VerificationTypeOK, FileCase, DropSubmission, Review
<1>4. ASSUME NEW r \in Reviewers, ReviewStep(r)
      PROVE  VerificationTypeOK'
  BY <1>4 DEF VerificationTypeOK, ReviewStep, OpenCase, StopReview, MoveReview, Review
<1>5. ASSUME NEW r \in Reviewers, SaveDecision(r)
      PROVE  VerificationTypeOK'
  <2> DEFINE id == reviews[r].id
  <2>1. id \in Cases /\ reviews[r].verdict \in Decided /\ cases[id] \in CaseRow
    BY <1>5 DEF VerificationTypeOK, SaveDecision, Review
  <2>2. cases' \in [Cases -> CaseRow \cup {NoCase}] /\ cases'[id] \in CaseRow
    BY <1>5, <2>1 DEF VerificationTypeOK, SaveDecision, RecordDecision, CaseRow
  <2>3. \A c \in Cases : c # id => cases'[c] = cases[c]
    BY <1>5, <2>1 DEF VerificationTypeOK, SaveDecision, RecordDecision
  <2>4. cases'[id] # NoCase
    BY <2>2, VerificationAssumption DEF CaseRow, Decided
  <2>5. submissions' = submissions /\ reviews' = [reviews EXCEPT ![r] = [at |-> "idle"]]
    BY <1>5 DEF SaveDecision, MoveReview
  <2> QED BY <2>2, <2>3, <2>4, <2>5 DEF VerificationTypeOK, Review
<1> QED
  BY <1>1, <1>2, <1>3, <1>4, <1>5 DEF VerificationNext, SubmissionStep, ReviewStep

----------------------------------------------------------------------------
(* What a step does to the cases *)

\* A case changes by being filed, or by being decided while it is pending.
LEMMA CasesOnlyAdvance ==
  ASSUME VerificationTypeOK, VerificationNext, NEW c \in Cases
  PROVE  \/ cases'[c] = cases[c]
         \/ cases[c] = NoCase
         \/ /\ cases[c] # NoCase /\ cases[c].status = "pending"
            /\ cases'[c] \in [user : {cases[c].user}, status : Decided, decidedBy : Reviewers]
<1>1. ASSUME NEW u \in Applicants, SubmissionStep(u)
      PROVE  cases' = cases
  BY <1>1 DEF SubmissionStep, Submit, CheckPending, CheckApproved, StoreDocument, StopSubmission
<1>2. ASSUME NEW u \in Applicants, FileCase(u)
      PROVE  cases'[c] = cases[c] \/ cases[c] = NoCase
  BY <1>2 DEF FileCase, VerificationTypeOK
<1>3. ASSUME NEW r \in Reviewers, ReviewStep(r)
      PROVE  cases' = cases
  BY <1>3 DEF ReviewStep, OpenCase, StopReview
<1>4. ASSUME NEW r \in Reviewers, SaveDecision(r)
      PROVE  \/ cases'[c] = cases[c]
             \/ /\ cases[c] # NoCase /\ cases[c].status = "pending"
                /\ cases'[c] \in [user : {cases[c].user}, status : Decided, decidedBy : Reviewers]
  <2>1. reviews[r].id \in Cases /\ reviews[r].verdict \in Decided
        /\ cases[reviews[r].id] \in CaseRow /\ cases[reviews[r].id] # NoCase
    BY <1>4 DEF VerificationTypeOK, SaveDecision, Review
  <2> QED BY <1>4, <2>1 DEF VerificationTypeOK, SaveDecision, RecordDecision, CaseRow
<1> QED
  BY <1>1, <1>2, <1>3, <1>4 DEF VerificationNext, SubmissionStep, ReviewStep

\* A verdict is final, whichever of the operators recorded it.
LEMMA VerdictStep ==
  ASSUME VerificationTypeOK, [VerificationNext]_verificationVars
  PROVE  \A c \in Cases : cases[c] # NoCase /\ cases[c].status \in Decided => cases'[c] = cases[c]
BY CasesOnlyAdvance DEF verificationVars, Decided

\* A customer's checks stand, and one case is all they have, unless a case is filed.
LEMMA ChecksStep ==
  ASSUME VerificationInv, VerificationNext, SerialSubmissions,
         NEW v \in Applicants, \A u \in Applicants : ~FileCase(u)
  PROVE  /\ \A a, b \in submissions'[v] : a = b
         /\ ChecksStand(v)'
         /\ \A c, d \in CasesOf(v)' : "rejected" \in {cases'[c].status, cases'[d].status} \/ c = d
<1> USE DEF VerificationInv
<1>1. \A c \in Cases : \/ cases'[c] = cases[c]
                       \/ /\ cases[c] # NoCase /\ cases[c].status = "pending"
                          /\ cases'[c] \in [user : {cases[c].user}, status : Decided, decidedBy : Reviewers]
  <2>1. ASSUME NEW u \in Applicants, SubmissionStep(u) PROVE cases' = cases
    BY <2>1 DEF SubmissionStep, Submit, CheckPending, CheckApproved, StoreDocument, StopSubmission
  <2>2. ASSUME NEW r \in Reviewers, ReviewStep(r) PROVE cases' = cases
    BY <2>2 DEF ReviewStep, OpenCase, StopReview
  <2>3. ASSUME NEW r \in Reviewers, SaveDecision(r), NEW c \in Cases, cases[c] = NoCase
        PROVE  cases'[c] = cases[c]
    BY <2>3 DEF VerificationTypeOK, SaveDecision, RecordDecision, Review
  <2> QED BY <2>1, <2>2, <2>3, CasesOnlyAdvance DEF VerificationNext, SubmissionStep, ReviewStep
<1>2. CasesOf(v)' = CasesOf(v)
  <2>1. VerificationTypeOK /\ VerificationTypeOK'
    BY VerificationTypesStep
  <2>2. NoCase \notin CaseRow
    BY VerificationAssumption DEF CaseRow, Decided
  <2>3. \A c \in Cases : cases[c] # NoCase => cases'[c] # NoCase
    BY <1>1, <2>1, <2>2 DEF VerificationTypeOK, CaseRow
  <2>4. \A c \in Cases : /\ cases'[c] # NoCase <=> cases[c] # NoCase
                         /\ cases[c] # NoCase => cases'[c].user = cases[c].user
    BY <1>1, <2>3
  <2> QED BY <2>4 DEF CasesOf
<1>3. \A c, d \in CasesOf(v)' : "rejected" \in {cases'[c].status, cases'[d].status} \/ c = d
  <2> SUFFICES ASSUME NEW c \in CasesOf(v), NEW d \in CasesOf(v), c # d
               PROVE  "rejected" \in {cases'[c].status, cases'[d].status}
    BY <1>2
  <2>1. "rejected" \in {cases[c].status, cases[d].status}
    BY DEF OneCasePerCustomer
  <2> QED BY <2>1, <1>1 DEF CasesOf
<1>4. CASE UNCHANGED submissions
  <2>1. ASSUME NEW at \in submissions[v], at # "pending?"
        PROVE  \A c \in CasesOf(v) : cases'[c] = cases[c]
    BY <2>1, <1>1 DEF ChecksStand, CasesOf
  <2> QED BY <2>1, <1>2, <1>3, <1>4 DEF ChecksStand, OneAtATimeSubmitted
<1>5. ASSUME NEW u \in Applicants, SubmissionStep(u)
      PROVE  (\A a, b \in submissions'[v] : a = b) /\ ChecksStand(v)'
  <2>1. cases' = cases
    BY <1>5 DEF SubmissionStep, Submit, CheckPending, CheckApproved, StoreDocument, StopSubmission
  <2>2. u # v => submissions'[v] = submissions[v]
    BY <1>5 DEF SubmissionStep, Submit, CheckPending, CheckApproved, StoreDocument,
       StopSubmission, StepsOn, DropSubmission, VerificationTypeOK
  <2>3. CASE u # v
    BY <2>1, <2>2, <2>3, <1>2 DEF ChecksStand, OneAtATimeSubmitted
  <2>4. CASE u = v /\ Submit(u)
    BY <2>4, <2>1 DEF Submit, ChecksStand, VerificationTypeOK
  <2>5. CASE u = v /\ CheckPending(u)
    BY <2>5, <2>1, <1>2 DEF CheckPending, ChecksStand, OneAtATimeSubmitted, VerificationTypeOK,
       StepsOn, DropSubmission, CasesOf
  <2>6. CASE u = v /\ CheckApproved(u)
    BY <2>6, <2>1, <1>2 DEF CheckApproved, ApprovedAlready, ChecksStand, OneAtATimeSubmitted,
       VerificationTypeOK, StepsOn, DropSubmission, CasesOf
  <2>7. CASE u = v /\ (StoreDocument(u) \/ StopSubmission(u))
    BY <2>7, <2>1, <1>2 DEF StoreDocument, StopSubmission, ChecksStand, OneAtATimeSubmitted,
       VerificationTypeOK, StepsOn, DropSubmission, CasesOf
  <2> QED BY <1>5, <2>3, <2>4, <2>5, <2>6, <2>7 DEF SubmissionStep
<1>6. UNCHANGED submissions \/ \E u \in Applicants : SubmissionStep(u)
  BY DEF VerificationNext, SubmissionStep, OpenCase, SaveDecision, StopReview
<1> QED BY <1>3, <1>4, <1>5, <1>6

\* Filing one: what the submission checked says every case there is was rejected.
LEMMA FilingStep ==
  ASSUME VerificationInv, VerificationInv => VerificationTypeOK', SerialSubmissions,
         NEW u \in Applicants, FileCase(u), NEW v \in Applicants
  PROVE  /\ \A a, b \in submissions'[v] : a = b
         /\ ChecksStand(v)'
         /\ \A c, d \in CasesOf(v)' : "rejected" \in {cases'[c].status, cases'[d].status} \/ c = d
<1>1. PICK n \in Cases : /\ cases[n] = NoCase
                         /\ cases' = [cases EXCEPT ![n] =
                              [user |-> u, status |-> "pending", decidedBy |-> NoCase]]
  BY DEF FileCase
<1>2. submissions' = [submissions EXCEPT ![u] = @ \ {"save"}] /\ "save" \in submissions[u]
  BY DEF FileCase, DropSubmission
<1>3. \A c \in Cases : c # n => cases'[c] = cases[c]
  BY <1>1 DEF VerificationInv, VerificationTypeOK
<1>4. CASE u # v
  <2>1. submissions'[v] = submissions[v]
    BY <1>2, <1>4 DEF VerificationInv, VerificationTypeOK
  <2>2. n \notin CasesOf(v)' /\ CasesOf(v)' = CasesOf(v)
    BY <1>1, <1>3, <1>4 DEF CasesOf, VerificationInv, VerificationTypeOK
  <2> QED BY <1>3, <1>4, <2>1, <2>2
          DEF VerificationInv, ChecksStand, OneAtATimeSubmitted, OneCasePerCustomer, CasesOf
<1>5. CASE u = v
  <2>1. submissions'[v] = {}
    BY <1>2, <1>5 DEF VerificationInv, OneAtATimeSubmitted, VerificationTypeOK
  <2>2. \A c \in CasesOf(v) : cases[c].status = "rejected"
    <3>1. \A c \in CasesOf(v) : cases[c].status # "pending" /\ cases[c].status # "approved"
      BY <1>2, <1>5 DEF VerificationInv, ChecksStand
    <3> QED BY <3>1, VerificationAssumption DEF VerificationInv, VerificationTypeOK, CasesOf, CaseRow, Decided
  <2>3. \A c \in CasesOf(v)' : c = n \/ cases'[c].status = "rejected"
    BY <1>3, <2>2 DEF CasesOf
  <2> QED BY <2>1, <2>3 DEF ChecksStand
<1> QED BY <1>4, <1>5

\* No step of a submission or an operator breaks it.
LEMMA VerificationInvStep ==
  ASSUME VerificationInv, [VerificationNext]_verificationVars
  PROVE  VerificationInv'
<1>1. VerificationTypeOK'
  BY VerificationTypesStep DEF VerificationInv
<1>2. CASE UNCHANGED verificationVars
  BY <1>1, <1>2 DEF VerificationInv, verificationVars, OneAtATimeSubmitted, ChecksStand, CasesOf,
     OneCasePerCustomer
<1>3. ASSUME SerialSubmissions, VerificationNext, NEW v \in Applicants
      PROVE  /\ \A a, b \in submissions'[v] : a = b
             /\ ChecksStand(v)'
             /\ \A c, d \in CasesOf(v)' : "rejected" \in {cases'[c].status, cases'[d].status} \/ c = d
  BY <1>1, <1>3, ChecksStep, FilingStep
<1> QED BY <1>1, <1>2, <1>3 DEF VerificationInv, OneAtATimeSubmitted, OneCasePerCustomer

----------------------------------------------------------------------------
\* For any customers, operators and cases: a recorded verdict is never replaced.
THEOREM VerdictsAreFinal == VerificationSpec => DecisionIsFinal
<1>1. VerificationInit => VerificationTypeOK
  BY VerificationInvInit DEF VerificationInv
<1>2. VerificationTypeOK /\ [VerificationNext]_verificationVars => VerificationTypeOK'
  BY VerificationTypesStep
<1>3. VerificationTypeOK /\ [VerificationNext]_verificationVars =>
        [\A c \in Cases : cases[c] # NoCase /\ cases[c].status \in Decided => cases'[c] = cases[c]]_verificationVars
  BY VerdictStep
<1> QED BY <1>1, <1>2, <1>3, PTL DEF VerificationSpec, DecisionIsFinal

\* And a customer who submits one case at a time never has two that are not rejected.
THEOREM OneCaseAtATime == VerificationSpec => []OneCasePerCustomer
<1>1. VerificationInv => OneCasePerCustomer
  BY DEF VerificationInv
<1> QED BY <1>1, VerificationInvInit, VerificationInvStep, PTL DEF VerificationSpec

----------------------------------------------------------------------------
(* Push devices *)

\* A token the service delivers to, or a page registers, is one it has handed out, and no
\* later token is known to the server.
TokensInOrder ==
  /\ alive \/ Registering => token \in Tokens
  /\ \A t \in Tokens : t > token => device[t] = None

\* The page that renews a registration is its owner's.
RenewedByOwner == (Registering /\ call.sets = FALSE) => owner = call.who

PushInv == PushTypeOK /\ TokensInOrder /\ RenewedByOwner /\ RemovalIsRetried

----------------------------------------------------------------------------
\* Nothing is registered yet.
LEMMA PushInvInit == PushInit => PushInv
<1> SUFFICES ASSUME PushInit PROVE PushInv
  OBVIOUS
<1>1. PushTypeOK
  <2>1. device \in [Tokens -> Accounts \cup {None}]
    BY DEF PushInit
  <2>2. lost \in 0..MaxLost /\ failed \in 0..MaxForgetFails
    BY PushAssumption DEF PushInit
  <2> QED BY <2>1, <2>2 DEF PushInit, PushTypeOK
<1>2. TokensInOrder /\ RemovalIsRetried
  BY DEF PushInit, TokensInOrder, RemovalIsRetried, Registering
<1>3. RenewedByOwner
  BY DEF PushInit, RenewedByOwner, Registering
<1> QED BY <1>1, <1>2, <1>3 DEF PushInv

\* Forgetting devices keeps their type, leaves the other tokens alone and adds nobody.
LEMMA ForgetForgets ==
  ASSUME NEW ts, device \in [Tokens -> Accounts \cup {None}], Forget(ts)
  PROVE  /\ device' \in [Tokens -> Accounts \cup {None}]
         /\ \A t \in Tokens : device'[t] = IF t \in ts THEN None ELSE device[t]
BY DEF Forget

\* So does a deletion some of which fail, which uses up one failure.
LEMMA DeleteForgets ==
  ASSUME PushTypeOK, NEW ts, NEW done \in SUBSET ts, Delete(ts, done)
  PROVE  /\ device' \in [Tokens -> Accounts \cup {None}]
         /\ \A t \in Tokens : device'[t] = IF t \in done THEN None ELSE device[t]
         /\ failed' \in 0..MaxForgetFails
<1>1. Forget(done) /\ (failed' = failed \/ (failed < MaxForgetFails /\ failed' = failed + 1))
  BY DEF Delete
<1>2. failed' \in 0..MaxForgetFails
  BY <1>1, PushAssumption DEF PushTypeOK
<1> QED BY <1>1, <1>2, ForgetForgets DEF PushTypeOK

\* What is astray afterwards: what was or went astray and is still there.
LEMMA StrayKept ==
  ASSUME NEW ts, Stray(ts)
  PROVE  /\ astray' \subseteq Tokens
         /\ \A t \in Tokens : (t \in astray \cup ts /\ device'[t] # None) => t \in astray'
BY DEF Stray

\* A device is still remembered when no device, cookie or owner is forgotten but with it.
LEMMA StillRemembered ==
  ASSUME PushInv, UNCHANGED <<token, alive>>, NEW ts,
         \A t \in Tokens : device'[t] # None => device[t] # None,
         Stray(ts), owner # None => owner' # None \/ device'[token] = None,
         cookie' # cookie => cookie \in ts \cup {None} \/ device'[cookie] = None
  PROVE  RemovalIsRetried'
<1> SUFFICES ASSUME alive, device'[token] # None, token \notin astray'
             PROVE  owner' # None /\ cookie' = token
  BY DEF RemovalIsRetried
<1>1. token \in Tokens
  BY DEF PushInv, TokensInOrder
<1>2. token \notin astray /\ token \notin ts /\ device[token] # None
  BY <1>1, StrayKept
<1>3. owner # None /\ cookie = token
  BY <1>2 DEF PushInv, RemovalIsRetried
<1> QED BY <1>1, <1>2, <1>3, PushAssumption

\* The two kinds of request of a page, by what they do.
LEMMA RequestFields ==
  ASSUME PushTypeOK
  PROVE  /\ Registering => /\ call \in [does : {"enable", "renew", "replace"},
                                         who : Accounts, sets : BOOLEAN]
                           /\ call.who \in Accounts
         /\ (call # None /\ call.does = "release") =>
              /\ call \in [does : {"release"}, sent : Tokens \cup {None}]
              /\ call.sent \in Tokens \cup {None}
BY DEF PushTypeOK, Registering, PageRequest

\* Asking the browser for its token: nothing is registered under a fresh one.
LEMMA SubscribeKeeps ==
  ASSUME PushInv, Subscribe, UNCHANGED device
  PROVE  /\ token' \in Tokens \cup {0} /\ alive' \in BOOLEAN
         /\ token' \in Tokens /\ TokensInOrder'
         /\ (alive' /\ device'[token'] # None) => (alive /\ token' = token)
<1>1. CASE token = 0
  <2>1. token' = 1 /\ alive' = TRUE
    BY <1>1 DEF Subscribe
  <2>2. device[1] = None
    BY <1>1, PushAssumption DEF PushInv, TokensInOrder
  <2>3. \A t \in Tokens : t > 1 => device[t] = None
    BY <1>1, PushAssumption DEF PushInv, TokensInOrder
  <2> QED BY <2>1, <2>2, <2>3, PushAssumption DEF TokensInOrder
<1>2. CASE token # 0
  BY <1>2 DEF Subscribe, PushInv, PushTypeOK, TokensInOrder
<1> QED BY <1>1, <1>2

\* The browser's own steps.
LEMMA BrowserKeeps ==
  ASSUME PushInv,
         \/ \E a \in Accounts : PushSignIn(a) \/ SignOutEverywhere(a)
         \/ PushSignOut \/ PushSessionEnds \/ TokenDies
  PROVE  PushInv'
<1> USE PushAssumption
<1>1. ASSUME NEW a \in Accounts, PushSignIn(a) PROVE PushInv'
  BY <1>1 DEF PushSignIn, PushInv, PushTypeOK, TokensInOrder, RenewedByOwner,
     RemovalIsRetried, Registering
<1>2. ASSUME NEW a \in Accounts, SignOutEverywhere(a) PROVE PushInv'
  <2> DEFINE registered == {t \in Tokens : device[t] = a}
  <2>1. PICK done \in {{}, registered} : Delete(registered, done)
    BY <1>2 DEF SignOutEverywhere
  <2>2. done \in SUBSET registered
    BY <2>1
  <2> HIDE DEF registered
  <2>3. /\ device' \in [Tokens -> Accounts \cup {None}]
        /\ \A t \in Tokens : device'[t] = IF t \in done THEN None ELSE device[t]
        /\ failed' \in 0..MaxForgetFails
    BY <2>1, <2>2, DeleteForgets DEF PushInv
  <2>4. /\ UNCHANGED <<owner, permitted, token, alive, call, lost>>
        /\ session' \in {None, session} /\ cookie' \in {None, cookie} /\ Stray(CookieDropped)
    BY <1>2 DEF SignOutEverywhere
  <2>5. cookie' # cookie => cookie \in CookieDropped
    BY DEF CookieDropped
  <2>6. RemovalIsRetried'
    BY <2>3, <2>4, <2>5, StillRemembered
  <2>7. astray' \subseteq Tokens
    BY <2>4, StrayKept
  <2> QED BY <2>3, <2>4, <2>6, <2>7 DEF PushInv, PushTypeOK, TokensInOrder, RenewedByOwner,
             Registering
<1>3. CASE PushSignOut
  <2> DEFINE named == {cookie} \ {None}
  <2>1. PICK done \in SUBSET named : Delete(named, done)
    BY <1>3 DEF PushSignOut
  <2> HIDE DEF named
  <2>2. /\ device' \in [Tokens -> Accounts \cup {None}]
        /\ \A t \in Tokens : device'[t] = IF t \in done THEN None ELSE device[t]
        /\ failed' \in 0..MaxForgetFails
    BY <2>1, DeleteForgets DEF PushInv
  <2>3. /\ UNCHANGED <<owner, permitted, token, alive, call, lost>>
        /\ session' = None /\ cookie' = None /\ Stray(CookieDropped)
    BY <1>3 DEF PushSignOut
  <2>4. cookie' # cookie => cookie \in CookieDropped
    BY DEF CookieDropped
  <2>5. RemovalIsRetried'
    BY <2>2, <2>3, <2>4, StillRemembered
  <2>6. astray' \subseteq Tokens
    BY <2>3, StrayKept
  <2> QED BY <2>2, <2>3, <2>5, <2>6 DEF PushInv, PushTypeOK, TokensInOrder, RenewedByOwner,
             Registering
<1>4. CASE PushSessionEnds
  BY <1>4 DEF PushSessionEnds, PushInv, PushTypeOK, TokensInOrder, RenewedByOwner,
     RemovalIsRetried, Registering
<1>5. CASE TokenDies
  BY <1>5 DEF TokenDies, PushInv, PushTypeOK, TokensInOrder, RenewedByOwner,
     RemovalIsRetried, Registering
<1> QED BY <1>1, <1>2, <1>3, <1>4, <1>5

\* The page's steps, which start a request.
LEMMA PageKeeps ==
  ASSUME PushInv, Enable \/ Disable \/ Load
  PROVE  PushInv'
<1> USE PushAssumption
<1>1. CASE Enable
  <2>1. /\ token' \in Tokens \cup {0} /\ alive' \in BOOLEAN /\ token' \in Tokens /\ TokensInOrder'
        /\ (alive' /\ device'[token'] # None) => (alive /\ token' = token)
    BY <1>1, SubscribeKeeps DEF Enable
  <2>2. call' = [does |-> "enable", who |-> session, sets |-> TRUE] /\ session \in Accounts
    BY <1>1 DEF Enable, PushInv, PushTypeOK
  <2>3. call' \in PageRequest /\ call'.sets = TRUE
    BY <2>2 DEF PageRequest
  <2>4. RenewedByOwner'
    BY <2>3 DEF RenewedByOwner
  <2> QED BY <1>1, <2>1, <2>3, <2>4 DEF Enable, PushInv, PushTypeOK, RemovalIsRetried
<1>2. CASE Disable
  <2>1. PICK sent \in {None} \cup ({token} \ {0}) :
              call' = [does |-> "release", sent |-> sent]
    BY <1>2 DEF Disable
  <2>2. call' \in PageRequest /\ call'.does = "release"
    BY <2>1 DEF PushInv, PushTypeOK, PageRequest
  <2>3. RenewedByOwner'
    BY <2>2 DEF RenewedByOwner, Registering
  <2> QED BY <1>2, <2>2, <2>3 DEF Disable, PushInv, PushTypeOK, TokensInOrder, RemovalIsRetried, Registering
<1>3. CASE Load
  <2>1. CASE owner # session \/ ~permitted
    <3>1. call' = [does |-> "release", sent |-> None] /\ UNCHANGED <<token, alive>>
      BY <1>3, <2>1 DEF Load
    <3>2. call' \in PageRequest /\ call'.does = "release"
      BY <3>1 DEF PageRequest
    <3>3. RenewedByOwner'
      BY <3>2 DEF RenewedByOwner, Registering
    <3> QED BY <1>3, <3>1, <3>2, <3>3 DEF Load, PushInv, PushTypeOK, TokensInOrder,
               RemovalIsRetried, Registering
  <2>2. CASE ~(owner # session \/ ~permitted)
    <3>1. /\ call' = [does |-> "renew", who |-> session, sets |-> FALSE]
          /\ Subscribe /\ owner = session /\ session \in Accounts
      BY <1>3, <2>2 DEF Load, PushInv, PushTypeOK
    <3>2. /\ token' \in Tokens \cup {0} /\ alive' \in BOOLEAN /\ TokensInOrder'
          /\ (alive' /\ device'[token'] # None) => (alive /\ token' = token)
      BY <1>3, <3>1, SubscribeKeeps DEF Load
    <3>3. call' \in PageRequest /\ call'.who = session
      BY <3>1 DEF PageRequest
    <3>4. RenewedByOwner'
      BY <1>3, <3>1, <3>3 DEF RenewedByOwner, Load
    <3> QED BY <1>3, <3>2, <3>3, <3>4 DEF Load, PushInv, PushTypeOK, RemovalIsRetried
  <2> QED BY <2>1, <2>2
<1> QED BY <1>1, <1>2, <1>3

\* The answers of the endpoint, and the requests that never reach it.
LEMMA ServerKeeps ==
  ASSUME PushInv,
         \/ RegisterDevice \/ RegisterUnheard \/ RefuseStaleToken \/ RefuseStranger \/ ReleaseDevice
         \/ LoseRequest \/ (\E a \in Accounts : NotifyAccount(a))
  PROVE  PushInv'
<1> USE PushAssumption
<1>1. ASSUME StoreDevice
      PROVE  /\ call.who \in Accounts /\ session = call.who /\ token \in Tokens
             /\ call.sets \in BOOLEAN /\ (call.sets = FALSE => owner = call.who)
             /\ device' \in [Tokens -> Accounts \cup {None}]
             /\ TokensInOrder' /\ RenewedByOwner'
  <2>1. call \in [does : {"enable", "renew", "replace"}, who : Accounts, sets : BOOLEAN]
        /\ call.who \in Accounts /\ session = call.who
    BY <1>1, RequestFields DEF StoreDevice, PushInv
  <2>2. token \in Tokens
    BY <1>1 DEF StoreDevice, PushInv, TokensInOrder
  <2>3. device' \in [Tokens -> Accounts \cup {None}]
        /\ \A t \in Tokens : device'[t] = IF t = token THEN session ELSE device[t]
    BY <1>1, <2>1 DEF StoreDevice, PushInv, PushTypeOK
  <2>4. TokensInOrder'
    <3> HIDE PushAssumption
    <3>1. \A t \in Tokens : t > token => t # token
      BY <2>2, PushAssumption
    <3> QED BY <1>1, <2>2, <2>3, <3>1 DEF StoreDevice, PushInv, TokensInOrder
  <2>5. RenewedByOwner'
    BY <1>1 DEF StoreDevice, RenewedByOwner, Registering
  <2>6. call.sets = FALSE => owner = call.who
    BY <1>1 DEF StoreDevice, PushInv, RenewedByOwner
  <2> QED BY <2>1, <2>2, <2>3, <2>4, <2>5, <2>6
<1>2. CASE RegisterDevice
  <2>1. StoreDevice
    BY <1>2 DEF RegisterDevice
  <2>2. owner' \in Accounts
    BY <1>1, <1>2, <2>1 DEF RegisterDevice
  <2>3. astray' \subseteq Tokens
    BY <1>2 DEF RegisterDevice, PushInv, PushTypeOK
  <2>4. RemovalIsRetried'
    BY <1>2, <2>1, <2>2 DEF RegisterDevice, StoreDevice, RemovalIsRetried
  <2> QED BY <1>1, <1>2, <2>1, <2>2, <2>3, <2>4 DEF RegisterDevice, StoreDevice, PushInv, PushTypeOK
<1>3. CASE RegisterUnheard
  <2>1. StoreDevice
    BY <1>3 DEF RegisterUnheard
  <2>2. astray' \subseteq Tokens /\ lost' \in 0..MaxLost /\ owner' = owner /\ cookie' \in Tokens \cup {None}
    BY <1>1, <1>3, <2>1 DEF RegisterUnheard, Lose, PushInv, PushTypeOK
  <2>3. RemovalIsRetried'
    BY <1>3, <2>1 DEF RegisterUnheard, StoreDevice, RemovalIsRetried
  <2> QED BY <1>1, <2>1, <2>2, <2>3 DEF StoreDevice, PushInv, PushTypeOK
<1>4. CASE RefuseStaleToken
  <2> DEFINE again == call.does # "replace" /\ permitted /\ token + 1 \in Tokens
  <2>1. PICK done \in SUBSET {token} : Delete({token}, done)
    BY <1>4 DEF RefuseStaleToken
  <2>2. /\ device' \in [Tokens -> Accounts \cup {None}]
        /\ \A t \in Tokens : device'[t] = IF t \in done THEN None ELSE device[t]
        /\ failed' \in 0..MaxForgetFails
    BY <2>1, DeleteForgets DEF PushInv
  <2>3. Registering /\ ~alive /\ UNCHANGED <<cookie, owner, session, permitted>>
        /\ call \in [does : {"enable", "renew", "replace"}, who : Accounts, sets : BOOLEAN]
    BY <1>4, RequestFields DEF RefuseStaleToken, PushInv
  <2>4. astray' \subseteq Tokens
    BY <1>4, StrayKept DEF RefuseStaleToken
  <2>5. \A t \in Tokens : t > token => device'[t] = None
    BY <2>2 DEF PushInv, TokensInOrder
  <2>6. CASE /\ again /\ token' = token + 1 /\ alive' = TRUE
             /\ call' = [call EXCEPT !.does = "replace"] /\ UNCHANGED lost
    <3>1. call' \in PageRequest /\ call'.who = call.who /\ call'.sets = call.sets
      BY <2>3, <2>6 DEF PageRequest
    <3>2. token' > token /\ token' \in Tokens /\ \A t \in Tokens : t > token' => t > token
      BY <2>6 DEF PushInv, PushTypeOK
    <3>3. RenewedByOwner'
      BY <2>3, <2>6, <3>1 DEF PushInv, RenewedByOwner
    <3>4. TokensInOrder' /\ device'[token'] = None
      BY <2>5, <3>2 DEF TokensInOrder
    <3>5. RemovalIsRetried'
      BY <3>4 DEF RemovalIsRetried
    <3> QED BY <2>2, <2>3, <2>4, <2>6, <3>1, <3>2, <3>3, <3>4, <3>5 DEF PushInv, PushTypeOK
  <2>7. CASE call' = None /\ UNCHANGED <<token, alive>> /\ (Lose \/ UNCHANGED lost)
    <3>1. lost' \in 0..MaxLost
      BY <2>7 DEF Lose, PushInv, PushTypeOK
    <3>2. TokensInOrder' /\ RenewedByOwner' /\ RemovalIsRetried'
      BY <2>3, <2>5, <2>7 DEF TokensInOrder, RenewedByOwner, RemovalIsRetried, Registering
    <3> QED BY <2>2, <2>3, <2>4, <2>7, <3>1, <3>2 DEF PushInv, PushTypeOK
  <2> QED BY <1>4, <2>6, <2>7 DEF RefuseStaleToken
<1>5. CASE RefuseStranger
  BY <1>5 DEF RefuseStranger, PushInv, PushTypeOK, TokensInOrder, RenewedByOwner,
     RemovalIsRetried, Registering
<1>6. CASE ReleaseDevice
  <2> DEFINE named == Named(call.sent)
  <2>1. PICK done \in SUBSET named :
          /\ Delete(named, done)
          /\ \/ cookie' = None /\ FinishRelease(done = named) /\ UNCHANGED lost
             \/ cookie' \in {cookie, None} /\ FinishRelease(FALSE) /\ Lose
    BY <1>6 DEF ReleaseDevice
  <2>2. cookie # None => cookie \in named
    BY DEF Named
  <2> HIDE DEF named
  <2>3. /\ device' \in [Tokens -> Accounts \cup {None}]
        /\ \A t \in Tokens : device'[t] = IF t \in done THEN None ELSE device[t]
        /\ failed' \in 0..MaxForgetFails
    BY <2>1, DeleteForgets DEF PushInv
  <2>4. /\ UNCHANGED <<session, permitted, token, alive>> /\ Stray(CookieDropped)
        /\ call' = None /\ cookie' \in {cookie, None} /\ owner' \in {owner, None}
        /\ owner' # owner => done = named
        /\ lost' \in 0..MaxLost
    BY <1>6, <2>1 DEF ReleaseDevice, FinishRelease, Lose, PushInv, PushTypeOK
  <2>5. cookie' # cookie => cookie \in CookieDropped
    BY DEF CookieDropped
  <2>6. RemovalIsRetried'
    <3>1. owner # None => owner' # None \/ device'[token] = None \/ ~alive \/ token # cookie
      BY <2>2, <2>3, <2>4 DEF PushInv, TokensInOrder
    <3> QED BY <2>3, <2>4, <2>5, <3>1, StrayKept DEF PushInv, TokensInOrder, RemovalIsRetried
  <2>7. astray' \subseteq Tokens
    BY <2>4, StrayKept
  <2> QED BY <2>3, <2>4, <2>6, <2>7 DEF PushInv, PushTypeOK, TokensInOrder, RenewedByOwner,
             Registering
<1>7. CASE LoseRequest
  <2>1. lost' \in 0..MaxLost
    BY <1>7 DEF LoseRequest, Lose, PushInv, PushTypeOK
  <2> QED BY <1>7, <2>1 DEF LoseRequest, FinishRelease, PushInv, PushTypeOK, TokensInOrder,
             RenewedByOwner, RemovalIsRetried, Registering
<1>8. ASSUME NEW a \in Accounts, NotifyAccount(a) PROVE PushInv'
  <2> DEFINE gone == {t \in Tokens : device[t] = a /\ (t # token \/ ~alive)}
  <2>1. /\ device' \in [Tokens -> Accounts \cup {None}]
        /\ \A t \in Tokens : device'[t] = IF t \in gone THEN None ELSE device[t]
    <3>1. Forget(gone) BY <1>8 DEF NotifyAccount
    <3> HIDE DEF gone
    <3> QED BY <3>1, ForgetForgets DEF PushInv, PushTypeOK
  <2> HIDE DEF gone
  <2>2. /\ UNCHANGED <<cookie, owner, session, permitted, token, alive, call, lost, failed>>
        /\ Stray({})
    BY <1>8 DEF NotifyAccount
  <2>3. RemovalIsRetried'
    BY <2>1, <2>2, StillRemembered
  <2>4. astray' \subseteq Tokens
    BY <2>2, StrayKept
  <2> QED BY <2>1, <2>2, <2>3, <2>4 DEF PushInv, PushTypeOK, TokensInOrder, RenewedByOwner,
             Registering
<1> QED BY <1>2, <1>3, <1>4, <1>5, <1>6, <1>7, <1>8

\* No step of the page, the service or another browser breaks it.
LEMMA PushInvStep == PushInv /\ [PushNext]_pushVars => PushInv'
<1> SUFFICES ASSUME PushInv, [PushNext]_pushVars PROVE PushInv'
  OBVIOUS
<1>1. CASE UNCHANGED pushVars
  BY <1>1 DEF pushVars, PushInv, PushTypeOK, TokensInOrder, RenewedByOwner,
     RemovalIsRetried, Registering
<1>2. CASE PushNext
  BY <1>2, BrowserKeeps, PageKeeps, ServerKeeps DEF PushNext
<1> QED BY <1>1, <1>2

\* For any accounts, any number of tokens and any number of lost requests, the browser's
\* state, the devices collection and the request under way hold what they may hold.
THEOREM PushTypesHold == PushSpec => []PushTypeOK
<1>1. PushInv => PushTypeOK
  BY DEF PushInv
<1> QED BY PushInvInit, PushInvStep, <1>1, PTL DEF PushSpec

\* With any accounts and tokens, whatever is lost, fails or is pressed elsewhere: a browser
\* that can still be reached through a registration it did not lose its hold on (astray)
\* keeps an owner and the cookie, so the next load renews or releases it and a sign-out
\* forgets it (use-push.ts, devices/route.ts).
THEOREM RemovalRetriedAlways == PushSpec => []RemovalIsRetried
<1>1. PushInv => RemovalIsRetried
  BY DEF PushInv
<1> QED BY PushInvInit, PushInvStep, <1>1, PTL DEF PushSpec

----------------------------------------------------------------------------
(* Wallet links *)

\* The requests whose challenge has been consumed and which have not ended.
Accepted(l) == link[l].at \in {"find", "save"}

SignedFor(u, a) ==
  \E n \in Nonces : issued[n] = [user |-> u, address |-> a] /\ <<n, a>> \in signed

\* A nonce nobody was given is nowhere, and one that is given is for a claimed address.
IssuedFirst ==
  \A n \in Nonces :
    /\ issued[n] # NoRow => issued[n].address \in Claimed
    /\ issued[n] = NoRow => /\ challenge[n] = "none" /\ proved[n] = 0
                            /\ \A l \in Links : link[l].at # "idle" => link[l].try.nonce # n

\* A nonce is unspent, or in the hands of one request, or accepted for a row.
NonceInOneHand ==
  /\ \A n \in Nonces : Unspent(n) => proved[n] = 0
  /\ \A l \in Links : Accepted(l) => ~Unspent(link[l].try.nonce) /\ proved[link[l].try.nonce] = 0
  /\ \A l, m \in Links :
       Accepted(l) /\ Accepted(m) /\ link[l].try.nonce = link[m].try.nonce => l = m

\* What a request carries: its signature is the issued one, or recovers to nobody's wallet.
AttemptsSigned ==
  \A l \in Links :
    /\ link[l].at = "consume" /\ link[l].try.signer \in Claimed =>
         <<link[l].try.nonce, link[l].try.signer>> \in signed
    /\ Accepted(l) => SignedFor(link[l].try.user, link[l].try.signer)

\* No row, stored or about to be saved again, says verified without a signature.
RowsSigned ==
  /\ \A u \in Owners, s \in {"plain", "object"}, a \in Addresses :
       wallet[<<u, <<s, a>>>>] # NoRow /\ wallet[<<u, <<s, a>>>>].status = "verified" => SignedFor(u, a)
  /\ edit.at = "save" /\ edit.copy.status = "verified" => SignedFor(edit.key[1], edit.key[2][2])

WalletInv ==
  WalletTypeOK /\ IssuedFirst /\ NonceInOneHand /\ NonceProvesOnce /\ AttemptsSigned /\ RowsSigned

----------------------------------------------------------------------------
\* The null of a row is no row and no claim.
LEMMA NoRowIsNoRow == NoRow \notin Row /\ NoRow \notin Claim
BY WalletAssumption DEF Row, Claim

\* Nothing is issued, signed or saved yet.
LEMMA WalletInvInit == WalletInit => WalletInv
<1> SUFFICES ASSUME WalletInit PROVE WalletInv
  OBVIOUS
<1>1. WalletTypeOK
  BY DEF WalletInit, WalletTypeOK
<1>2. IssuedFirst /\ NonceInOneHand /\ NonceProvesOnce /\ AttemptsSigned
  BY DEF WalletInit, IssuedFirst, NonceInOneHand, NonceProvesOnce, AttemptsSigned, Unspent, Accepted
<1>3. RowsSigned
  BY DEF WalletInit, RowsSigned, RowKeys, Spellings
<1> QED BY <1>1, <1>2, <1>3 DEF WalletInv

\* The calls of linkWallet and everything else there is, as groups of steps.
LinkStep(l) ==
  \/ \E u \in Owners, n, over \in Nonces, key \in Addresses : SubmitSignature(l, u, n, over, key)
  \/ ConsumeChallenge(l) \/ FindWallet(l) \/ SaveVerified(l) \/ StopLink(l)
ManageStep ==
  \/ \E u \in Owners, a \in Claimed : WatchAddress(u, a)
  \/ \E k \in RowKeys, revoke \in BOOLEAN : OpenWallet(k, revoke)
  \/ SaveWallet \/ StopEdit
ChallengeStep ==
  \/ \E u \in Owners, a \in Claimed : IssueChallenge(u, a)
  \/ \E n \in Nonces : Expire(n)

\* The steps by what they touch: challenges, the book, or one request that links.
LEMMA StepsOfWallets ==
  WalletNext <=> ChallengeStep \/ ManageStep \/ \E l \in Links : LinkStep(l)
BY DEF WalletNext, ChallengeStep, ManageStep, LinkStep

\* Every step keeps the types.
LEMMA WalletTypesStep ==
  ASSUME WalletTypeOK, [WalletNext]_walletVars
  PROVE  WalletTypeOK'
<1> USE DEF WalletTypeOK
<1>1. CASE UNCHANGED walletVars
  BY <1>1 DEF walletVars
<1>2. CASE ChallengeStep
  <2>1. ASSUME NEW u \in Owners, NEW a \in Claimed, IssueChallenge(u, a)
        PROVE  WalletTypeOK'
    <3>1. [user |-> u, address |-> a] \in Claim
      BY WalletAssumption DEF Claim
    <3>2. issued' \in [Nonces -> Claim \cup {NoRow}]
      BY <2>1, <3>1 DEF IssueChallenge
    <3>3. challenge' \in [Nonces -> {"none", "live", "expired", "spent"}]
      BY <2>1 DEF IssueChallenge
    <3> QED BY <2>1, <3>2, <3>3 DEF IssueChallenge
  <2>2. ASSUME NEW n \in Nonces, Expire(n)
        PROVE  WalletTypeOK'
    BY <2>2 DEF Expire
  <2> QED BY <1>2, <2>1, <2>2 DEF ChallengeStep
<1>3. CASE ManageStep
  <2>1. ASSUME NEW u \in Owners, NEW a \in Claimed, WatchAddress(u, a)
        PROVE  WalletTypeOK'
    BY <2>1, WalletAssumption DEF WatchAddress, Row
  <2>2. ASSUME NEW k \in RowKeys, NEW revoke \in BOOLEAN, OpenWallet(k, revoke)
        PROVE  WalletTypeOK'
    <3>1. wallet[k] \in Row
      BY <2>2 DEF OpenWallet
    <3> QED BY <2>2, <3>1 DEF OpenWallet, Row
  <2>3. CASE SaveWallet
    <3>1. edit.key \in RowKeys /\ edit.copy \in Row
      BY <2>3 DEF SaveWallet
    <3> QED BY <2>3, <3>1 DEF SaveWallet
  <2>4. CASE StopEdit
    BY <2>4 DEF StopEdit
  <2> QED BY <1>3, <2>1, <2>2, <2>3, <2>4 DEF ManageStep
<1>4. ASSUME NEW l \in Links, LinkStep(l)
      PROVE  WalletTypeOK'
  <2>1. ASSUME NEW u \in Owners, NEW n \in Nonces, NEW over \in Nonces, NEW key \in Addresses,
               SubmitSignature(l, u, n, over, key)
        PROVE  WalletTypeOK'
    <3>1. PICK signer \in Addresses :
            link' = [link EXCEPT ![l] = [at |-> "consume",
                       try |-> [user |-> u, nonce |-> n, signer |-> signer]]]
      BY <2>1 DEF SubmitSignature, To
    <3>2. signed' \subseteq Nonces \X Claimed
      BY <2>1 DEF SubmitSignature
    <3> QED BY <2>1, <3>1, <3>2 DEF SubmitSignature, Attempt
  <2>2. CASE ConsumeChallenge(l)
    <3>1. link[l].try \in Attempt
      BY <2>2 DEF ConsumeChallenge
    <3>2. link[l].try.nonce \in Nonces
      BY <3>1 DEF Attempt
    <3>3. challenge' \in [Nonces -> {"none", "live", "expired", "spent"}]
      BY <2>2, <3>2 DEF ConsumeChallenge
    <3>4. \/ link' = [link EXCEPT ![l] = [at |-> "idle"]]
          \/ link' = [link EXCEPT ![l] = [at |-> "find", try |-> link[l].try]]
      BY <2>2 DEF ConsumeChallenge, To
    <3> QED BY <2>2, <3>1, <3>3, <3>4 DEF ConsumeChallenge
  <2>3. CASE FindWallet(l)
    <3>1. link[l].try \in Attempt
      BY <2>3 DEF FindWallet
    <3>2. \E id \in {"plain", "object"} :
            link' = [link EXCEPT ![l] = [at |-> "save", try |-> link[l].try, id |-> id]]
      BY <2>3 DEF FindWallet, To
    <3> QED BY <2>3, <3>1, <3>2 DEF FindWallet
  <2>4. CASE SaveVerified(l)
    <3>1. link[l].try \in Attempt
      BY <2>4 DEF SaveVerified
    <3>2. link[l].try.nonce \in Nonces /\ link[l].try.user \in Owners /\ link[l].try.signer \in Addresses
      BY <3>1 DEF Attempt
    <3>3. <<link[l].try.user, <<"object", link[l].try.signer>>>> \in RowKeys
      BY <3>2 DEF RowKeys, Spellings
    <3>4. wallet' \in [RowKeys -> Row \cup {NoRow}] /\ proved' \in [Nonces -> Nat]
      <4>1. CASE UNCHANGED <<wallet, proved>>
        BY <4>1
      <4>2. ASSUME wallet' = [wallet EXCEPT ![<<link[l].try.user, <<"object", link[l].try.signer>>>>] =
                                [status |-> "verified", revoked |-> FALSE]]
            PROVE  wallet' \in [RowKeys -> Row \cup {NoRow}]
        <5>1. [status |-> "verified", revoked |-> FALSE] \in Row
          BY DEF Row
        <5> QED BY <4>2, <5>1
      <4>3. ASSUME proved' = [proved EXCEPT ![link[l].try.nonce] = @ + 1]
            PROVE  proved' \in [Nonces -> Nat]
        BY <3>2, <4>3
      <4> QED BY <2>4, <4>1, <4>2, <4>3 DEF SaveVerified
    <3>5. link' = [link EXCEPT ![l] = [at |-> "idle"]]
      BY <2>4 DEF SaveVerified, To
    <3> QED BY <2>4, <3>4, <3>5 DEF SaveVerified
  <2>5. CASE StopLink(l)
    BY <2>5 DEF StopLink, To
  <2> QED BY <1>4, <2>1, <2>2, <2>3, <2>4, <2>5 DEF LinkStep
<1> QED BY <1>1, <1>2, <1>3, <1>4, StepsOfWallets

----------------------------------------------------------------------------
(* What the steps of linkWallet do, in the terms of the invariant *)

\* A request that is under way carries an attempt.
LEMMA AttemptFields ==
  ASSUME WalletTypeOK, NEW l \in Links, link[l].at # "idle"
  PROVE  /\ link[l].try \in Attempt
         /\ link[l].try.nonce \in Nonces /\ link[l].try.user \in Owners
         /\ link[l].try.signer \in Addresses
<1>1. link[l].try \in Attempt
  BY DEF WalletTypeOK
<1> QED BY <1>1 DEF Attempt

\* A request that links moves alone.
LEMMA OtherLinks ==
  ASSUME WalletTypeOK, NEW l \in Links, LinkStep(l)
  PROVE  /\ \A m \in Links \ {l} : link'[m] = link[m]
         /\ UNCHANGED <<edit, issued>> /\ signed \subseteq signed'
BY DEF WalletTypeOK, LinkStep, SubmitSignature, ConsumeChallenge, FindWallet, SaveVerified,
   StopLink, To

\* Consuming a challenge either ends the call or accepts its attempt, which was for the
\* account, and the signature its own.
LEMMA ConsumeEffect ==
  ASSUME WalletTypeOK, NEW l \in Links, ConsumeChallenge(l)
  PROVE  LET n == link[l].try.nonce IN
         /\ UNCHANGED <<wallet, edit, issued, signed, proved>>
         /\ \/ /\ link'[l].at = "idle"
               /\ UNCHANGED challenge \/ challenge' = [challenge EXCEPT ![n] = "spent"]
            \/ /\ Unspent(n) /\ challenge' = [challenge EXCEPT ![n] = "spent"]
               /\ link'[l] = [at |-> "find", try |-> link[l].try]
               /\ issued[n].user = link[l].try.user /\ issued[n].address = link[l].try.signer
BY DEF WalletTypeOK, ConsumeChallenge, To, Recovers

\* Accepting a row, or the primary key refusing it.
LEMMA SaveEffect ==
  ASSUME WalletTypeOK, NEW l \in Links, SaveVerified(l)
  PROVE  LET k == <<link[l].try.user, <<"object", link[l].try.signer>>>> IN
         /\ link'[l].at = "idle" /\ UNCHANGED <<challenge, edit, issued, signed>>
         /\ \/ UNCHANGED <<wallet, proved>>
            \/ /\ wallet' = [wallet EXCEPT ![k] = [status |-> "verified", revoked |-> FALSE]]
               /\ proved' = [proved EXCEPT ![link[l].try.nonce] = @ + 1]
BY DEF WalletTypeOK, SaveVerified, To

----------------------------------------------------------------------------
(* A nonce is in one hand *)

NonceInv == IssuedFirst /\ NonceInOneHand /\ NonceProvesOnce

\* Issuing, signing and expiring put no nonce in a hand.
LEMMA NonceIssueStep ==
  ASSUME WalletTypeOK, NonceInv, ChallengeStep
  PROVE  NonceInv'
<1> USE DEF NonceInv
<1>1. ASSUME NEW u \in Owners, NEW a \in Claimed, IssueChallenge(u, a)
      PROVE  NonceInv'
  <2>1. PICK n \in Nonces : /\ issued[n] = NoRow
                           /\ issued' = [issued EXCEPT ![n] = [user |-> u, address |-> a]]
    BY <1>1 DEF IssueChallenge
  <2>2. PICK stale \in {{}, {m \in Nonces : challenge[m] \in {"expired", "spent"}}} :
          challenge' = [m \in Nonces |-> CASE m = n -> "live" [] m \in stale -> "none"
                                          [] OTHER -> challenge[m]]
    <3>1. PICK m \in Nonces : /\ issued[m] = NoRow
             /\ issued' = [issued EXCEPT ![m] = [user |-> u, address |-> a]]
             /\ \E stale \in {{}, {i \in Nonces : challenge[i] \in {"expired", "spent"}}} :
                  challenge' = [i \in Nonces |-> CASE i = m -> "live" [] i \in stale -> "none"
                                                  [] OTHER -> challenge[i]]
      BY <1>1 DEF IssueChallenge
    <3>2. [user |-> u, address |-> a] # NoRow
      BY WalletAssumption
    <3>3. m = n
      BY <2>1, <3>1, <3>2 DEF WalletTypeOK
    <3> QED BY <3>1, <3>3
  <2>3. UNCHANGED <<link, proved>>
    BY <1>1 DEF IssueChallenge
  <2>4. \A m \in Nonces : m # n => issued'[m] = issued[m] /\ (Unspent(m)' => Unspent(m))
                                 /\ (challenge[m] = "none" => challenge'[m] = "none")
    BY <2>1, <2>2 DEF WalletTypeOK, Unspent
  <2>5. issued'[n].address \in Claimed /\ issued'[n] # NoRow
    BY <2>1, WalletAssumption DEF WalletTypeOK
  <2>6. IssuedFirst'
    BY <2>3, <2>4, <2>5 DEF IssuedFirst
  <2>7. NonceInOneHand'
    <3>1. proved[n] = 0 /\ \A l \in Links : link[l].at # "idle" => link[l].try.nonce # n
      BY <2>1 DEF IssuedFirst
    <3>2. \A l \in Links : Accepted(l) => link[l].try.nonce \in Nonces
      BY AttemptFields DEF Accepted
    <3>3. \A l \in Links : Accepted(l)' => Accepted(l) /\ ~Unspent(link[l].try.nonce)'
      BY <2>3, <2>4, <3>1, <3>2 DEF Accepted, NonceInOneHand, Unspent
    <3>4. \A m \in Nonces : Unspent(m)' => m = n \/ Unspent(m)
      BY <2>4
    <3> QED BY <2>3, <3>1, <3>3, <3>4 DEF NonceInOneHand
  <2> QED BY <2>3, <2>6, <2>7 DEF NonceProvesOnce
<1>2. ASSUME NEW n \in Nonces, Expire(n)
      PROVE  NonceInv'
  <2>1. UNCHANGED <<link, proved, issued>> /\ issued[n] # NoRow
        /\ \A m \in Nonces : (Unspent(m)' <=> Unspent(m))
                             /\ (challenge[m] = "none" => challenge'[m] = "none")
    BY <1>2 DEF Expire, Unspent, WalletTypeOK, IssuedFirst
  <2>2. \A l \in Links : Accepted(l) => link[l].try.nonce \in Nonces
    BY AttemptFields DEF Accepted
  <2> QED BY <2>1, <2>2 DEF IssuedFirst, NonceInOneHand, NonceProvesOnce, Accepted, Unspent
<1> QED BY <1>1, <1>2 DEF ChallengeStep

\* The update that consumes a challenge is the one way to a nonce.
LEMMA NonceLinkStep ==
  ASSUME WalletTypeOK, NonceInv, NEW l \in Links, LinkStep(l)
  PROVE  NonceInv'
<1> USE DEF NonceInv
<1>0. \A m \in Links : link[m].at # "idle" => link[m].try.nonce \in Nonces
  BY AttemptFields
<1>1. /\ \A m \in Links \ {l} : link'[m] = link[m]
      /\ UNCHANGED issued
  BY OtherLinks
<1>2. ASSUME UNCHANGED <<challenge, proved>>,
             link'[l].at # "idle" => issued[link'[l].try.nonce] # NoRow,
             Accepted(l)' => Accepted(l) /\ link'[l].try = link[l].try
      PROVE  NonceInv'
  <2>1. IssuedFirst'
    BY <1>1, <1>2 DEF IssuedFirst
  <2>2. \A m \in Links : Accepted(m)' => Accepted(m) /\ link'[m].try = link[m].try
    BY <1>1, <1>2 DEF Accepted
  <2>3. \A n : Unspent(n)' <=> Unspent(n)
    BY <1>2 DEF Unspent
  <2>4. NonceInOneHand'
    BY <1>2, <2>2, <2>3 DEF NonceInOneHand, Unspent
  <2> QED BY <1>2, <2>1, <2>4 DEF NonceProvesOnce
<1>3. ASSUME NEW u \in Owners, NEW n \in Nonces, NEW over \in Nonces, NEW key \in Addresses,
             SubmitSignature(l, u, n, over, key)
      PROVE  NonceInv'
  <2>1. UNCHANGED <<challenge, proved>> /\ link'[l].at = "consume" /\ link'[l].try.nonce = n
        /\ issued[n] # NoRow
    BY <1>3 DEF SubmitSignature, To, WalletTypeOK
  <2> QED BY <1>2, <2>1 DEF Accepted
<1>4. CASE ConsumeChallenge(l)
  <2> DEFINE n == link[l].try.nonce
  <2>1. n \in Nonces /\ issued[n] # NoRow /\ link[l].at = "consume"
    BY <1>0, <1>4 DEF ConsumeChallenge, IssuedFirst
  <2>2. UNCHANGED proved
    BY <1>4 DEF ConsumeChallenge
  <2>3. CASE link'[l].at = "idle" /\ UNCHANGED challenge
    BY <1>2, <2>2, <2>3 DEF Accepted
  <2>4. CASE link'[l].at = "idle" /\ challenge' = [challenge EXCEPT ![n] = "spent"]
    <3>1. \A m \in Nonces : m # n => challenge'[m] = challenge[m]
      BY <2>4 DEF WalletTypeOK
    <3>2. \A m \in Nonces : Unspent(m)' => Unspent(m)
      BY <2>1, <2>4, <3>1 DEF Unspent, WalletTypeOK
    <3>3. \A m \in Links : Accepted(m)' => Accepted(m) /\ link'[m] = link[m]
      BY <1>1, <2>4 DEF Accepted
    <3>4. IssuedFirst'
      BY <1>1, <2>1, <2>2, <2>4, <3>1 DEF IssuedFirst
    <3>5. NonceInOneHand'
      <4>1. \A m \in Links : Accepted(m) => link[m].try.nonce \in Nonces
        BY <1>0 DEF Accepted
      <4> QED BY <2>2, <3>2, <3>3, <4>1 DEF NonceInOneHand, Unspent
    <3> QED BY <2>2, <3>4, <3>5 DEF NonceProvesOnce
  <2>5. CASE Unspent(n) /\ challenge' = [challenge EXCEPT ![n] = "spent"]
             /\ link'[l] = [at |-> "find", try |-> link[l].try]
    <3>1. \A m \in Nonces : m # n => challenge'[m] = challenge[m]
      BY <2>5 DEF WalletTypeOK
    <3>2. challenge'[n] = "spent"
      BY <2>1, <2>5 DEF WalletTypeOK
    <3>3. IssuedFirst'
      BY <1>1, <2>1, <2>2, <2>5, <3>1 DEF IssuedFirst
    <3>4. proved[n] = 0 /\ \A m \in Links : Accepted(m) => link[m].try.nonce # n
      BY <2>1, <2>5 DEF NonceInOneHand
    <3>5. \A m \in Links : Accepted(m)' =>
            m = l \/ (Accepted(m) /\ link'[m] = link[m])
      BY <1>1 DEF Accepted
    <3>6. NonceInOneHand'
      <4>1. \A m \in Links : Accepted(m) => link[m].try.nonce \in Nonces
        BY <1>0 DEF Accepted
      <4>2. link'[l].try.nonce = n
        BY <2>5
      <4>3. \A m \in Nonces : Unspent(m)' => Unspent(m) /\ m # n
        BY <2>1, <3>1, <3>2 DEF Unspent
      <4>4. \A m \in Links : Accepted(m)' =>
              ~Unspent(link[m].try.nonce)' /\ proved'[link'[m].try.nonce] = 0
        BY <2>1, <2>2, <3>4, <3>5, <4>1, <4>2, <4>3 DEF NonceInOneHand
      <4>5. \A m, o \in Links :
              Accepted(m)' /\ Accepted(o)' /\ link'[m].try.nonce = link'[o].try.nonce => m = o
        BY <3>4, <3>5, <4>2 DEF NonceInOneHand
      <4>6. \A m \in Nonces : Unspent(m)' => proved'[m] = 0
        BY <2>2, <4>3 DEF NonceInOneHand
      <4> QED BY <4>4, <4>5, <4>6 DEF NonceInOneHand
    <3> QED BY <2>2, <3>3, <3>6 DEF NonceProvesOnce
  <2> QED BY <1>4, <2>3, <2>4, <2>5, ConsumeEffect
<1>5. CASE FindWallet(l)
  <2>1. UNCHANGED <<challenge, proved>> /\ link'[l].at = "save" /\ link'[l].try = link[l].try
        /\ link[l].at = "find"
    BY <1>5 DEF FindWallet, To, WalletTypeOK
  <2> QED BY <1>0, <1>2, <2>1 DEF Accepted, IssuedFirst
<1>6. CASE SaveVerified(l)
  <2> DEFINE n == link[l].try.nonce
  <2>1. n \in Nonces /\ issued[n] # NoRow /\ Accepted(l) /\ proved[n] = 0 /\ ~Unspent(n)
    BY <1>0, <1>6 DEF SaveVerified, IssuedFirst, NonceInOneHand, Accepted
  <2>2. link'[l].at = "idle" /\ UNCHANGED challenge
    BY <1>6 DEF SaveVerified, To, WalletTypeOK
  <2>3. CASE UNCHANGED proved
    BY <1>2, <2>2, <2>3 DEF Accepted
  <2>4. CASE proved' = [proved EXCEPT ![n] = @ + 1]
    <3>1. proved'[n] = 1 /\ \A m \in Nonces : m # n => proved'[m] = proved[m]
      BY <2>1, <2>4 DEF WalletTypeOK
    <3>2. \A m \in Links : Accepted(m)' => m # l /\ Accepted(m) /\ link'[m] = link[m]
      BY <1>1, <2>2 DEF Accepted
    <3>3. \A m : Unspent(m)' <=> Unspent(m)
      BY <2>2 DEF Unspent
    <3>4. IssuedFirst'
      BY <1>1, <2>1, <2>2, <3>1 DEF IssuedFirst
    <3>5. \A m \in Links : Accepted(m) => link[m].try.nonce \in Nonces
      BY <1>0 DEF Accepted
    <3>6. \A m \in Links : Accepted(m)' => link[m].try.nonce # n
      BY <2>1, <3>2 DEF NonceInOneHand
    <3>7. NonceInOneHand'
      BY <2>1, <2>2, <3>1, <3>2, <3>5, <3>6 DEF NonceInOneHand, Unspent
    <3> QED BY <3>1, <3>4, <3>7 DEF NonceProvesOnce
  <2> QED BY <1>6, <2>3, <2>4, SaveEffect
<1>7. CASE StopLink(l)
  <2>1. UNCHANGED <<challenge, proved>> /\ link'[l].at = "idle"
    BY <1>7 DEF StopLink, To, WalletTypeOK
  <2> QED BY <1>2, <2>1 DEF Accepted
<1> QED BY <1>3, <1>4, <1>5, <1>6, <1>7 DEF LinkStep

----------------------------------------------------------------------------
(* A verified row was signed for *)

SignatureInv == AttemptsSigned /\ RowsSigned

\* What was issued and signed stays so, while calls and rows are left alone.
LEMMA SignedForStays ==
  ASSUME WalletTypeOK, signed \subseteq signed',
         \A n \in Nonces : issued[n] # NoRow => issued'[n] = issued[n]
  PROVE  \A u \in Owners, a \in Addresses : SignedFor(u, a) => SignedFor(u, a)'
<1> SUFFICES ASSUME NEW u \in Owners, NEW a \in Addresses, SignedFor(u, a)
             PROVE  SignedFor(u, a)'
  OBVIOUS
<1>1. PICK n \in Nonces : issued[n] = [user |-> u, address |-> a] /\ <<n, a>> \in signed
  BY DEF SignedFor
<1>2. issued[n] # NoRow
  BY <1>1, WalletAssumption
<1> QED BY <1>1, <1>2 DEF SignedFor

\* Where the rows and the calls come from stays signed for, unless a step says otherwise.
LEMMA EditFields ==
  ASSUME WalletTypeOK, edit.at = "save"
  PROVE  edit.key[1] \in Owners /\ edit.key[2][2] \in Addresses /\ edit.key \in RowKeys
<1>1. edit.key \in RowKeys
  BY DEF WalletTypeOK
<1> QED BY <1>1 DEF RowKeys, Spellings

\* Challenges and edits of the book make no row verified.
LEMMA SignatureOtherStep ==
  ASSUME WalletTypeOK, SignatureInv, ChallengeStep \/ ManageStep
  PROVE  SignatureInv'
<1> USE DEF SignatureInv
<1>1. CASE ChallengeStep
  <2>1. UNCHANGED <<wallet, link, edit, signed>>
    BY <1>1 DEF ChallengeStep, IssueChallenge, Expire
  <2>2. \A n \in Nonces : issued[n] # NoRow => issued'[n] = issued[n]
    BY <1>1 DEF ChallengeStep, IssueChallenge, Expire, WalletTypeOK
  <2>3. \A u \in Owners, a \in Addresses : SignedFor(u, a) => SignedFor(u, a)'
    BY <2>1, <2>2, SignedForStays
  <2>4. AttemptsSigned'
    <3>1. \A l \in Links : Accepted(l)' <=> Accepted(l)
      BY <2>1 DEF Accepted
    <3>2. \A l \in Links : Accepted(l) =>
            link[l].try.user \in Owners /\ link[l].try.signer \in Addresses
      BY AttemptFields DEF Accepted
    <3>3. ASSUME NEW l \in Links, Accepted(l)'
          PROVE  SignedFor(link[l].try.user, link[l].try.signer)'
      <4>1. SignedFor(link[l].try.user, link[l].try.signer)
        BY <3>1, <3>3 DEF AttemptsSigned
      <4>2. link[l].try.user \in Owners /\ link[l].try.signer \in Addresses
        BY <3>1, <3>2, <3>3
      <4>3. PICK n \in Nonces :
              /\ issued[n] = [user |-> link[l].try.user, address |-> link[l].try.signer]
              /\ <<n, link[l].try.signer>> \in signed
        BY <4>1 DEF SignedFor
      <4>4. issued'[n] = issued[n]
        BY <2>2, <4>2, <4>3, WalletAssumption
      <4> QED BY <2>1, <4>3, <4>4 DEF SignedFor
    <3> QED BY <2>1, <3>3 DEF AttemptsSigned
  <2>5. RowsSigned'
    <3>1. ASSUME edit.at = "save", edit.copy.status = "verified"
          PROVE  SignedFor(edit.key[1], edit.key[2][2])'
      <4>1. PICK n \in Nonces :
              /\ issued[n] = [user |-> edit.key[1], address |-> edit.key[2][2]]
              /\ <<n, edit.key[2][2]>> \in signed
        BY <3>1 DEF RowsSigned, SignedFor
      <4>2. issued'[n] = issued[n]
        BY <2>2, <3>1, <4>1, EditFields, WalletAssumption
      <4> QED BY <2>1, <4>1, <4>2 DEF SignedFor
    <3> QED BY <2>1, <2>3, <3>1 DEF RowsSigned
  <2> QED BY <2>4, <2>5
<1>2. CASE ManageStep
  <2>1. UNCHANGED <<link, issued, signed>>
    BY <1>2 DEF ManageStep, WatchAddress, OpenWallet, SaveWallet, StopEdit
  <2>2. AttemptsSigned'
    BY <2>1 DEF AttemptsSigned, Accepted, SignedFor
  <2>3. ASSUME NEW u \in Owners, NEW a \in Claimed, WatchAddress(u, a)
        PROVE  RowsSigned'
    <3>1. \A k \in RowKeys : wallet'[k] = wallet[k] \/ wallet'[k].status = "watch-only"
      BY <2>3 DEF WatchAddress, WalletTypeOK
    <3>2. UNCHANGED edit
      BY <2>3 DEF WatchAddress
    <3>3. ASSUME NEW v \in Owners, NEW s \in {"plain", "object"}, NEW b \in Addresses,
                 wallet'[<<v, <<s, b>>>>] # NoRow, wallet'[<<v, <<s, b>>>>].status = "verified"
          PROVE  SignedFor(v, b)'
      <4>1. <<v, <<s, b>>>> \in RowKeys
        BY DEF RowKeys, Spellings
      <4>2. SignedFor(v, b)
        BY <3>1, <3>3, <4>1 DEF RowsSigned
      <4> QED BY <2>1, <4>2 DEF SignedFor
    <3>4. (edit.at = "save" /\ edit.copy.status = "verified" => SignedFor(edit.key[1], edit.key[2][2]))'
      BY <2>1, <3>2 DEF RowsSigned, SignedFor
    <3> QED BY <3>3, <3>4 DEF RowsSigned
  <2>4. ASSUME NEW k \in RowKeys, NEW revoke \in BOOLEAN, OpenWallet(k, revoke)
        PROVE  RowsSigned'
    <3>1. UNCHANGED wallet /\ edit' = [at |-> "save", key |-> k,
                                      copy |-> [wallet[k] EXCEPT !.revoked = revoke]]
      BY <2>4 DEF OpenWallet
    <3>2. wallet[k] \in Row /\ wallet[k] # NoRow
      BY <2>4 DEF OpenWallet, WalletTypeOK
    <3>3. edit'.copy.status = wallet[k].status
      BY <3>1, <3>2 DEF Row
    <3>4. PICK u \in Owners, s \in {"plain", "object"}, a \in Addresses : k = <<u, <<s, a>>>>
      BY DEF RowKeys, Spellings
    <3>5. edit'.key[1] = u /\ edit'.key[2][2] = a
      BY <3>1, <3>4
    <3>6. wallet[k].status = "verified" => SignedFor(u, a)
      BY <3>2, <3>4 DEF RowsSigned
    <3> QED BY <2>1, <3>1, <3>3, <3>5, <3>6 DEF RowsSigned, SignedFor
  <2>5. CASE SaveWallet
    <3>1. wallet' = [wallet EXCEPT ![edit.key] = edit.copy] /\ edit.at = "save" /\ edit'.at = "idle"
      BY <2>5 DEF SaveWallet
    <3>2. ASSUME NEW u \in Owners, NEW s \in {"plain", "object"}, NEW a \in Addresses,
                 wallet'[<<u, <<s, a>>>>] # NoRow, wallet'[<<u, <<s, a>>>>].status = "verified"
          PROVE  SignedFor(u, a)'
      <4>1. <<u, <<s, a>>>> \in RowKeys
        BY DEF RowKeys, Spellings
      <4>2. CASE edit.key = <<u, <<s, a>>>>
        <5>1. wallet'[edit.key] = edit.copy
          BY <3>1, <4>1, <4>2 DEF WalletTypeOK
        <5>2. SignedFor(u, a)
          BY <3>1, <3>2, <4>2, <5>1 DEF RowsSigned
        <5> QED BY <2>1, <5>2 DEF SignedFor
      <4>3. CASE edit.key # <<u, <<s, a>>>>
        <5>1. wallet'[<<u, <<s, a>>>>] = wallet[<<u, <<s, a>>>>]
          BY <3>1, <4>1, <4>3 DEF WalletTypeOK
        <5>2. SignedFor(u, a)
          BY <3>2, <5>1 DEF RowsSigned
        <5> QED BY <2>1, <5>2 DEF SignedFor
      <4> QED BY <4>2, <4>3
    <3>3. edit'.at # "save"
      BY <3>1
    <3> QED BY <2>2, <3>2, <3>3 DEF RowsSigned
  <2>6. CASE StopEdit
    <3>1. UNCHANGED wallet /\ edit'.at = "idle"
      BY <2>6 DEF StopEdit
    <3>2. \A v \in Owners, b \in Addresses : SignedFor(v, b) => SignedFor(v, b)'
      BY <2>1 DEF SignedFor
    <3>3. edit'.at # "save"
      BY <3>1
    <3> QED BY <2>2, <3>1, <3>2, <3>3 DEF RowsSigned
  <2> QED BY <1>2, <2>2, <2>3, <2>4, <2>5, <2>6 DEF ManageStep
<1> QED BY <1>1, <1>2

\* In the steps of linkWallet only the signature over the nonce itself can be accepted.
LEMMA SignatureLinkStep ==
  ASSUME WalletTypeOK, IssuedFirst, SignatureInv, NEW l \in Links, LinkStep(l)
  PROVE  SignatureInv'
<1> USE DEF SignatureInv
<1>1. /\ \A m \in Links \ {l} : link'[m] = link[m]
      /\ UNCHANGED <<edit, issued>> /\ signed \subseteq signed'
  BY OtherLinks
<1>2. \A u, a : SignedFor(u, a) => SignedFor(u, a)'
  BY <1>1 DEF SignedFor
<1>3. ASSUME link'[l].at = "consume" /\ link'[l].try.signer \in Claimed =>
               <<link'[l].try.nonce, link'[l].try.signer>> \in signed',
             Accepted(l)' => /\ link'[l].try = link[l].try
                             /\ SignedFor(link[l].try.user, link[l].try.signer)
      PROVE  AttemptsSigned'
  <2>1. ASSUME NEW m \in Links, Accepted(m)'
        PROVE  SignedFor(link[m].try.user, link[m].try.signer)'
    <3>1. link'[m].try = link[m].try /\ SignedFor(link[m].try.user, link[m].try.signer)
      BY <1>1, <1>3, <2>1 DEF AttemptsSigned, Accepted
    <3> QED BY <1>1, <3>1 DEF SignedFor
  <2>2. ASSUME NEW m \in Links, link'[m].at = "consume", link'[m].try.signer \in Claimed
        PROVE  <<link'[m].try.nonce, link'[m].try.signer>> \in signed'
    BY <1>1, <1>3, <2>2 DEF AttemptsSigned
  <2> QED BY <2>1, <2>2 DEF AttemptsSigned
<1>4. ASSUME UNCHANGED wallet PROVE RowsSigned'
  <2>1. \A u \in Owners, s \in {"plain", "object"}, a \in Addresses :
          wallet'[<<u, <<s, a>>>>] # NoRow /\ wallet'[<<u, <<s, a>>>>].status = "verified"
            => SignedFor(u, a)'
    BY <1>2, <1>4 DEF RowsSigned
  <2>2. (edit.at = "save" /\ edit.copy.status = "verified" => SignedFor(edit.key[1], edit.key[2][2]))'
    BY <1>1 DEF RowsSigned, SignedFor
  <2> QED BY <2>1, <2>2 DEF RowsSigned
<1>5. ASSUME NEW u \in Owners, NEW n \in Nonces, NEW over \in Nonces, NEW key \in Addresses,
             SubmitSignature(l, u, n, over, key)
      PROVE  SignatureInv'
  <2>1. PICK signer \in IF over = n THEN {key} ELSE Addresses \ Claimed :
          link' = [link EXCEPT ![l] = [at |-> "consume",
                     try |-> [user |-> u, nonce |-> n, signer |-> signer]]]
    BY <1>5 DEF SubmitSignature, To
  <2>2. link'[l].at = "consume" /\ link'[l].try.signer = signer /\ link'[l].try.nonce = n
    BY <2>1 DEF WalletTypeOK
  <2>3. signed' = signed \cup ({<<over, key>>} \cap (Nonces \X Claimed)) /\ UNCHANGED wallet
    BY <1>5 DEF SubmitSignature
  <2>4. signer \in Claimed => <<n, signer>> \in signed'
    BY <2>1, <2>3
  <2> QED BY <1>3, <1>4, <2>2, <2>3, <2>4 DEF Accepted
<1>6. CASE ConsumeChallenge(l)
  <2> DEFINE try == link[l].try
  <2>1. UNCHANGED <<wallet, issued, signed>> /\ link[l].at = "consume"
    BY <1>6 DEF ConsumeChallenge
  <2>2. CASE link'[l].at = "idle"
    BY <1>3, <1>4, <2>1, <2>2 DEF Accepted
  <2>3. CASE /\ Unspent(try.nonce) /\ link'[l] = [at |-> "find", try |-> try]
             /\ issued[try.nonce].user = try.user /\ issued[try.nonce].address = try.signer
    <3>1. try.nonce \in Nonces /\ try.signer \in Addresses
      BY <2>1, AttemptFields
    <3>2. issued[try.nonce] # NoRow
      BY <2>3, <3>1 DEF IssuedFirst, Unspent
    <3>3. issued[try.nonce] = [user |-> try.user, address |-> try.signer]
      BY <2>3, <3>1, <3>2 DEF WalletTypeOK, Claim
    <3>4. <<try.nonce, try.signer>> \in signed
      BY <2>1, <2>3, <3>1, <3>2 DEF IssuedFirst, AttemptsSigned
    <3>5. SignedFor(try.user, try.signer)
      BY <3>1, <3>3, <3>4 DEF SignedFor
    <3> QED BY <1>3, <1>4, <2>1, <2>3, <3>5
  <2> QED BY <1>6, <2>2, <2>3, ConsumeEffect
<1>7. CASE FindWallet(l)
  <2>1. UNCHANGED wallet /\ link'[l].at = "save" /\ link'[l].try = link[l].try /\ Accepted(l)
    BY <1>7 DEF FindWallet, To, WalletTypeOK, Accepted
  <2> QED BY <1>3, <1>4, <2>1 DEF AttemptsSigned
<1>8. CASE SaveVerified(l)
  <2> DEFINE try == link[l].try
  <2>1. Accepted(l) /\ link'[l].at = "idle" /\ UNCHANGED <<issued, signed, edit>>
    BY <1>8, SaveEffect DEF SaveVerified, Accepted
  <2>2. AttemptsSigned'
    BY <1>3, <2>1 DEF Accepted
  <2>3. CASE UNCHANGED wallet
    BY <1>4, <2>2, <2>3
  <2>4. CASE wallet' = [wallet EXCEPT ![<<try.user, <<"object", try.signer>>>>] =
                          [status |-> "verified", revoked |-> FALSE]]
    <3>1. SignedFor(try.user, try.signer)
      BY <2>1 DEF AttemptsSigned
    <3>2. ASSUME NEW u \in Owners, NEW s \in {"plain", "object"}, NEW a \in Addresses,
                 wallet'[<<u, <<s, a>>>>] # NoRow, wallet'[<<u, <<s, a>>>>].status = "verified"
          PROVE  SignedFor(u, a)'
      <4>1. CASE <<u, <<s, a>>>> = <<try.user, <<"object", try.signer>>>>
        <5>1. u = try.user /\ a = try.signer
          BY <4>1
        <5> QED BY <1>2, <3>1, <5>1
      <4>2. CASE <<u, <<s, a>>>> # <<try.user, <<"object", try.signer>>>>
        <5>1. <<u, <<s, a>>>> \in RowKeys
          BY DEF RowKeys, Spellings
        <5>2. wallet'[<<u, <<s, a>>>>] = wallet[<<u, <<s, a>>>>]
          BY <2>4, <4>2, <5>1 DEF WalletTypeOK
        <5> QED BY <1>2, <3>2, <5>2 DEF RowsSigned
      <4> QED BY <4>1, <4>2
    <3>3. (edit.at = "save" /\ edit.copy.status = "verified" => SignedFor(edit.key[1], edit.key[2][2]))'
      BY <2>1 DEF RowsSigned, SignedFor
    <3> QED BY <2>2, <3>2, <3>3 DEF RowsSigned
  <2> QED BY <1>8, <2>3, <2>4, SaveEffect
<1>9. CASE StopLink(l)
  <2>1. UNCHANGED wallet /\ link'[l].at = "idle"
    BY <1>9 DEF StopLink, To, WalletTypeOK
  <2> QED BY <1>3, <1>4, <2>1 DEF Accepted
<1> QED BY <1>5, <1>6, <1>7, <1>8, <1>9 DEF LinkStep

----------------------------------------------------------------------------
\* Both parts hold after every step.
LEMMA WalletInvStep ==
  ASSUME WalletInv, [WalletNext]_walletVars
  PROVE  WalletInv'
<1>1. WalletTypeOK'
  BY WalletTypesStep DEF WalletInv
<1>2. CASE UNCHANGED walletVars
  <2>1. NonceInv' /\ SignatureInv'
    BY <1>2 DEF WalletInv, walletVars, NonceInv, IssuedFirst, NonceInOneHand, NonceProvesOnce,
       SignatureInv, AttemptsSigned, RowsSigned, Unspent, Accepted, SignedFor
  <2> QED BY <1>1, <2>1 DEF WalletInv, NonceInv, SignatureInv
<1>3. CASE ChallengeStep \/ ManageStep
  <2>1. NonceInv'
    <3>1. CASE ChallengeStep
      BY <3>1, NonceIssueStep DEF WalletInv, NonceInv
    <3>2. CASE ManageStep
      BY <3>2 DEF ManageStep, WatchAddress, OpenWallet, SaveWallet, StopEdit, WalletInv, NonceInv,
         IssuedFirst, NonceInOneHand, NonceProvesOnce, Unspent, Accepted
    <3> QED BY <1>3, <3>1, <3>2
  <2>2. SignatureInv'
    BY <1>3, SignatureOtherStep DEF WalletInv, SignatureInv
  <2> QED BY <1>1, <2>1, <2>2 DEF WalletInv, NonceInv, SignatureInv
<1>4. ASSUME NEW l \in Links, LinkStep(l)
      PROVE  WalletInv'
  <2>1. NonceInv' /\ SignatureInv'
    BY <1>4, NonceLinkStep, SignatureLinkStep DEF WalletInv, NonceInv, SignatureInv
  <2> QED BY <1>1, <2>1 DEF WalletInv, NonceInv, SignatureInv
<1> QED BY <1>2, <1>3, <1>4, StepsOfWallets

\* For any accounts, addresses, challenges and overlapping requests, a nonce is accepted
\* for at most one row.
THEOREM NoncesProveOnce == WalletSpec => []NonceProvesOnce
<1>1. WalletInv => NonceProvesOnce
  BY DEF WalletInv
<1> QED BY <1>1, WalletInvInit, WalletInvStep, PTL DEF WalletSpec

\* And every row that says verified belongs to an account that was issued a challenge for
\* that address and had it signed by the address's own key.
THEOREM VerifiedRowsWereSigned == WalletSpec => []VerifiedWasSigned
<1>1. WalletInv => VerifiedWasSigned
  <2> SUFFICES ASSUME WalletInv, NEW u \in Owners, NEW a \in Addresses,
                      NEW text \in {"plain", "object"},
                      wallet[<<u, <<text, a>>>>] # NoRow,
                      wallet[<<u, <<text, a>>>>].status = "verified"
               PROVE  SignedFor(u, a)
    BY Zenon DEF VerifiedWasSigned, SignedFor
  <2> QED BY DEF WalletInv, RowsSigned
<1> QED BY <1>1, WalletInvInit, WalletInvStep, PTL DEF WalletSpec

----------------------------------------------------------------------------
(* Announcements *)

\* What was asked of a notice is what its row shows at time t.
Shows(row, choice, t) ==
  /\ row.status = "draft" =>
       \/ choice.action \in {"draft", "unpublish"}
       \/ choice.action = "schedule" /\ choice.typed = NoTime
  /\ row.status = "archived" => choice.action = "archive"
  /\ row.status = "published" =>
       choice.action = "publish" /\ row.publishAt # NoTime /\ row.publishAt <= t
  /\ row.status = "scheduled" =>
       /\ choice.action = "schedule" /\ choice.typed # NoTime
       /\ row.publishAt = ParseInstant(choice.typed)

\* The row of a notice and the copy of every move carry the mark of what made them, and a
\* notice that has a row was chosen.
AnnouncementInv ==
  /\ AnnouncementTypeOK
  /\ \A n \in Composed : chosen[n] \in Choice /\ Shows(notice[n], chosen[n], clock)
  /\ \A o \in Operators :
       move[o] # NoMove => /\ Shows(move[o].row, move[o].choice, clock)
                           /\ move[o].row.status = "draft" => move[o].row.publishAt = NoTime

\* A typed time is one the server may hold.
LEMMA TypedIsAMoment ==
  ASSUME NEW t \in Maybe(Typed)
  PROVE  ParseInstant(t) \in Maybe(Moments) /\ (ParseInstant(t) = NoTime <=> t = NoTime)
BY AnnouncementAssumption DEF Maybe, Typed, Moments, ParseInstant

\* A move makes a row of a row, and the row shows what was asked.
LEMMA MovedShows ==
  ASSUME AnnouncementTypeOK, NEW row \in AnnouncementRow, NEW action \in Moves,
         NEW typed \in Maybe(Typed),
         action = "schedule" => MaySchedule(row, ParseInstant(typed)),
         action # "schedule" => typed = NoTime
  PROVE  LET new == Moved(row, action, ParseInstant(typed))
             choice == [action |-> action, typed |-> typed]
         IN  /\ new \in AnnouncementRow /\ choice \in Choice
             /\ Shows(new, choice, clock)
             /\ new.status = "draft" => new.publishAt = NoTime
<1>1. clock \in Moments /\ clock \in Int
  BY AnnouncementAssumption DEF AnnouncementTypeOK, Moments
<1>2. ParseInstant(typed) \in Maybe(Moments) /\ (ParseInstant(typed) = NoTime <=> typed = NoTime)
  BY TypedIsAMoment
<1>3. CASE action = "publish"
  <2>1. clock # NoTime /\ clock <= clock
    BY <1>1, AnnouncementAssumption
  <2>2. Moved(row, action, ParseInstant(typed))
          = [row EXCEPT !.status = "published", !.publishAt = clock]
    BY <1>3 DEF Moved
  <2> QED
    BY <1>1, <1>3, <2>1, <2>2 DEF AnnouncementRow, Choice, Shows, Maybe
<1>4. CASE action = "unpublish"
  BY <1>4 DEF Moved, AnnouncementRow, Choice, Shows, Maybe
<1>5. CASE action = "archive"
  BY <1>5 DEF Moved, AnnouncementRow, Choice, Shows
<1>6. CASE action = "schedule"
  BY <1>2, <1>6 DEF Moved, AnnouncementRow, Choice, Shows, MaySchedule
<1> QED
  BY <1>3, <1>4, <1>5, <1>6 DEF Moves

\* A moment passes: what was shown still is.
LEMMA ShownStays ==
  ASSUME NEW row \in AnnouncementRow, NEW choice, NEW t \in Nat, Shows(row, choice, t)
  PROVE  Shows(row, choice, t + 1)
BY AnnouncementAssumption DEF Shows, AnnouncementRow, Maybe, Moments

\* A new notice is what its form says.
LEMMA ComposeKeeps ==
  ASSUME AnnouncementInv,
         NEW n \in Notices, NEW action \in {"draft", "publish", "schedule"},
         NEW from \in Maybe(Typed), NEW until \in Maybe(Typed), Compose(n, action, from, until)
  PROVE  AnnouncementInv'
<1> DEFINE at == ParseInstant(from)
           draft == [status |-> "draft", publishAt |-> NoTime, expiresAt |-> ParseInstant(until)]
           choice == [action |-> action, typed |-> from]
<1>1. draft \in AnnouncementRow /\ (at = NoTime <=> from = NoTime)
  BY TypedIsAMoment DEF AnnouncementRow, Maybe
<1>2. notice'[n] \in AnnouncementRow /\ chosen'[n] = choice /\ choice \in Choice
        /\ Shows(notice'[n], choice, clock)
        /\ (notice'[n].status = "draft" => notice'[n].publishAt = NoTime)
  <2>1. DOMAIN notice = Notices /\ DOMAIN chosen = Notices
    BY DEF AnnouncementInv, AnnouncementTypeOK
  <2>2. CASE action = "draft" \/ (action = "schedule" /\ at = NoTime)
    BY <1>1, <2>1, <2>2 DEF Compose, Shows, Choice, Moves
  <2>3. CASE ~ (action = "draft" \/ (action = "schedule" /\ at = NoTime))
    <3>1. notice'[n] = Moved(draft, action, at) /\ chosen'[n] = choice
      BY <2>1, <2>3 DEF Compose
    <3>2. action \in Moves
      BY <2>3 DEF Moves
    <3>3. action = "schedule" => MaySchedule(draft, at)
      BY <2>3 DEF Compose
    <3>4. action # "schedule" => from = NoTime
      BY DEF Compose
    <3> QED
      BY <1>1, <3>1, <3>2, <3>3, <3>4, MovedShows DEF AnnouncementInv
  <2> QED
    BY <2>2, <2>3
<1>3. /\ UNCHANGED <<clock, move>>
      /\ \A m \in Notices \ {n} : notice'[m] = notice[m] /\ chosen'[m] = chosen[m]
      /\ notice' \in [Notices -> AnnouncementRow \cup {NoNotice}]
      /\ chosen' \in [Notices -> Choice \cup {NoMove}]
  BY <1>2 DEF Compose, AnnouncementInv, AnnouncementTypeOK
<1> HIDE DEF draft, at, choice
<1>4. AnnouncementTypeOK'
  BY <1>2, <1>3 DEF AnnouncementInv, AnnouncementTypeOK, Composed
<1> QED
  BY <1>2, <1>3, <1>4 DEF AnnouncementInv, Composed, Shows

\* An operator who reads a notice remembers it as it is or was.
LEMMA ReadToMoveKeeps ==
  ASSUME AnnouncementInv,
         NEW o \in Operators, NEW n \in Notices, NEW action \in Moves,
         NEW from \in Maybe(Typed), ReadToMove(o, n, action, from)
  PROVE  AnnouncementInv'
<1> DEFINE row == Moved(notice[n], action, ParseInstant(from))
           choice == [action |-> action, typed |-> from]
<1>1. notice[n] \in AnnouncementRow
  BY DEF ReadToMove, AnnouncementInv, AnnouncementTypeOK
<1>2. /\ row \in AnnouncementRow /\ choice \in Choice /\ Shows(row, choice, clock)
      /\ row.status = "draft" => row.publishAt = NoTime
  BY <1>1, MovedShows DEF ReadToMove, AnnouncementInv
<1>3. move' = [move EXCEPT ![o] = [target |-> n, row |-> row, choice |-> choice]]
      /\ UNCHANGED <<clock, notice, chosen>>
  BY DEF ReadToMove
<1> HIDE DEF row, choice
<1>4. [target |-> n, row |-> row, choice |-> choice] \in Move
  BY <1>2 DEF Move
<1>5. AnnouncementTypeOK'
  BY <1>3, <1>4 DEF AnnouncementInv, AnnouncementTypeOK, Composed
<1>6. \A p \in Operators :
        move'[p] # NoMove =>
          /\ Shows(move'[p].row, move'[p].choice, clock)
          /\ move'[p].row.status = "draft" => move'[p].row.publishAt = NoTime
  BY <1>2, <1>3 DEF AnnouncementInv, AnnouncementTypeOK
<1> QED
  BY <1>3, <1>5, <1>6 DEF AnnouncementInv, Composed, Shows

\* A move that is saved, or fails, on the version that was read.
LEMMA EndOfMoveKeeps ==
  ASSUME AnnouncementInv, NEW o \in Operators, SaveMove(o) \/ MoveFails(o)
  PROVE  AnnouncementInv'
<1> USE DEF AnnouncementInv, AnnouncementTypeOK
<1>1. CASE SaveMove(o)
  <2>1. move[o] \in Move /\ move[o] # NoMove
    BY <1>1 DEF SaveMove
  <2>2. PICK n, row, choice : n = move[o].target /\ row = move[o].row /\ choice = move[o].choice
    OBVIOUS
  <2>3. n \in Notices /\ row \in AnnouncementRow /\ choice \in Choice
    BY <2>1, <2>2 DEF Move
  <2>4. Shows(row, choice, clock) /\ (row.status = "draft" => row.publishAt = NoTime)
    BY <2>1, <2>2
  <2>5. /\ notice' = [notice EXCEPT ![n] = row] /\ chosen' = [chosen EXCEPT ![n] = choice]
        /\ move' = [move EXCEPT ![o] = NoMove] /\ clock' = clock
    BY <1>1, <2>2 DEF SaveMove
  <2>6. AnnouncementTypeOK'
    BY <2>3, <2>4, <2>5 DEF Composed
  <2>7. \A m \in Composed' : chosen'[m] \in Choice /\ Shows(notice'[m], chosen'[m], clock)
    BY <2>3, <2>4, <2>5 DEF Composed
  <2>8. \A p \in Operators : move'[p] # NoMove => move'[p] = move[p]
    BY <2>5
  <2> QED
    BY <2>5, <2>6, <2>7, <2>8 DEF Shows
<1>2. CASE MoveFails(o)
  BY <1>2 DEF MoveFails, Composed, Shows
<1> QED
  BY <1>1, <1>2

\* The clock changes what is live and nothing that was chosen.
LEMMA PassTimeKeeps ==
  ASSUME AnnouncementInv, PassTime
  PROVE  AnnouncementInv'
<1>1. clock \in Nat /\ clock' = clock + 1 /\ UNCHANGED <<notice, move, chosen>>
  BY AnnouncementAssumption DEF PassTime, AnnouncementInv, AnnouncementTypeOK
<1>2. \A o \in Operators : move[o] # NoMove => move[o].row \in AnnouncementRow
  BY DEF AnnouncementInv, AnnouncementTypeOK, Move
<1>3. \A n \in Composed : notice[n] \in AnnouncementRow
  BY DEF AnnouncementInv, AnnouncementTypeOK, Composed
<1>4. AnnouncementTypeOK'
  BY <1>1, AnnouncementAssumption DEF PassTime, AnnouncementInv, AnnouncementTypeOK, Composed
<1>5. \A n \in Composed' : chosen'[n] \in Choice /\ Shows(notice'[n], chosen'[n], clock')
  BY <1>1, <1>3, ShownStays DEF AnnouncementInv, Composed
<1>6. \A o \in Operators : move[o] # NoMove => Shows(move[o].row, move[o].choice, clock')
  BY <1>1, <1>2, ShownStays DEF AnnouncementInv
<1> QED
  BY <1>1, <1>4, <1>5, <1>6 DEF AnnouncementInv

\* So the invariant holds throughout.
LEMMA AnnouncementInvHolds == AnnouncementSpec => []AnnouncementInv
<1>1. AnnouncementInit => AnnouncementInv
  BY AnnouncementAssumption
  DEF AnnouncementInit, AnnouncementInv, AnnouncementTypeOK, Composed
<1>2. AnnouncementInv /\ [AnnouncementNext]_announcementVars => AnnouncementInv'
  <2> SUFFICES ASSUME AnnouncementInv, [AnnouncementNext]_announcementVars
               PROVE  AnnouncementInv'
    OBVIOUS
  <2>1. CASE AnnouncementNext
    BY <2>1, ComposeKeeps, ReadToMoveKeeps, EndOfMoveKeeps, PassTimeKeeps DEF AnnouncementNext
  <2>2. CASE UNCHANGED announcementVars
    BY <2>2 DEF announcementVars, AnnouncementInv, AnnouncementTypeOK, Composed, Shows
  <2> QED
    BY <2>1, <2>2
<1> QED
  BY <1>1, <1>2, PTL DEF AnnouncementSpec

\* The rows of announcements and the copies under way are well typed, and a draft has no
\* time to appear at, whatever the operators do to one notice at once.
THEOREM AnnouncementTypesHold == AnnouncementSpec => []AnnouncementTypeOK
<1>1. AnnouncementInv => AnnouncementTypeOK
  BY DEF AnnouncementInv
<1> QED
  BY <1>1, AnnouncementInvHolds, PTL

\* The notices on the customer surface are at every moment those whose last answered move
\* put them there, for any number of operators moving one notice at once: a row and the
\* choice behind it are written together, and the clock alone decides the rest.
THEOREM NoticesShowTheChoice == AnnouncementSpec => []ShowsWhatWasChosen
<1>1. AnnouncementInv => ShowsWhatWasChosen
  <2> SUFFICES ASSUME AnnouncementInv, NEW n \in Composed
               PROVE  Live(n) <=> /\ \/ chosen[n].action = "publish"
                                     \/ /\ chosen[n].action = "schedule" /\ chosen[n].typed # NoTime
                                        /\ clock >= ParseInstant(chosen[n].typed)
                                  /\ ~Expired(notice[n], clock)
    BY DEF ShowsWhatWasChosen
  <2>1. /\ notice[n] \in AnnouncementRow /\ chosen[n] \in Choice
        /\ Shows(notice[n], chosen[n], clock) /\ clock \in Int
        /\ notice[n].status = "draft" => notice[n].publishAt = NoTime
    BY AnnouncementAssumption DEF AnnouncementInv, AnnouncementTypeOK, Composed
  <2>2. chosen[n].typed \in Maybe(Typed)
    BY <2>1 DEF Choice
  <2>3. ParseInstant(chosen[n].typed) \in Maybe(Moments)
        /\ (ParseInstant(chosen[n].typed) = NoTime <=> chosen[n].typed = NoTime)
    BY <2>2, TypedIsAMoment
  <2>4. notice[n].status \in {"draft", "scheduled", "published", "archived"}
    BY <2>1 DEF AnnouncementRow
  <2>5. CASE notice[n].status = "draft"
    BY <2>1, <2>5 DEF Live, IsLiveAt, Shows
  <2>6. CASE notice[n].status = "scheduled"
    <3>1. /\ chosen[n].action = "schedule" /\ chosen[n].typed # NoTime
          /\ notice[n].publishAt = ParseInstant(chosen[n].typed)
      BY <2>1, <2>6 DEF Shows
    <3>2. notice[n].publishAt \in Int /\ notice[n].publishAt # NoTime
      BY <2>3, <3>1, AnnouncementAssumption DEF Maybe, Moments
    <3> QED
      BY <2>1, <2>6, <3>1, <3>2 DEF Live, IsLiveAt
  <2>7. CASE notice[n].status = "published"
    BY <2>1, <2>7 DEF Live, IsLiveAt, Shows
  <2>8. CASE notice[n].status = "archived"
    BY <2>1, <2>8 DEF Live, IsLiveAt, Shows
  <2> QED
    BY <2>4, <2>5, <2>6, <2>7, <2>8
<1> QED
  BY <1>1, AnnouncementInvHolds, PTL

----------------------------------------------------------------------------
(* Support conversations *)

\* No summary, and no copy of one, counts more messages than were ever written.
UnreadWereWritten ==
  /\ \A t \in Threads : Opened(t) => summary[t].unread <= Cardinality(Written)
  /\ \A q \in Requests : ~IsIdle(q) => request[q].copy.unread <= Cardinality(Written)

SupportInv == SupportTypeOK /\ UnreadWereWritten

\* What a call under way carries.
LEMMA CallFields ==
  ASSUME NEW r \in SupportCall, r.at # "idle"
  PROVE  /\ r.draft \in Draft /\ r.copy \in Summary /\ r.read \in 0..MaxMessages
         /\ r.at \in {"open", "claim", "append", "note", "save"}
         /\ r.at = "note" => r.note \in {"claimed", "resolved"}
BY SupportAssumption DEF SupportCall

\* How a call goes on.
LEMMA CallGoesOn ==
  ASSUME NEW r \in SupportCall
  PROVE  /\ \A to \in {"claim", "append"} :
              r.at \in {"open", "claim"} => [r EXCEPT !.at = to] \in SupportCall
         /\ \A s \in Summary :
              r.at \in {"append", "note"} => [r EXCEPT !.at = "save", !.copy = s] \in SupportCall
BY DEF SupportCall

\* The messages ever written are finitely many.
LEMMA WrittenIsFinite ==
  ASSUME SupportTypeOK
  PROVE  IsFiniteSet(Written) /\ Cardinality(Written) \in Nat
<1>1. IsFiniteSet(Threads) /\ IsFiniteSet(1..MaxMessages)
  BY SupportAssumption, FS_Interval DEF Threads
<1>2. IsFiniteSet(Threads \X (1..MaxMessages))
  BY <1>1, FS_Product
<1>3. Written \in SUBSET (Threads \X (1..MaxMessages))
  BY DEF Written
<1> QED
  BY <1>2, <1>3, FS_Subset, FS_CardinalityType

\* While there is room, appending a message to a thread writes one more, and no thread
\* grows past the bound.
LEMMA AppendWrites ==
  ASSUME SupportTypeOK, Room, NEW t \in Threads, NEW m \in Message,
         transcript' = [transcript EXCEPT ![t] = Append(@, m)]
  PROVE  /\ transcript' \in [Threads -> Seq(Message)]
         /\ \A u \in Threads : Len(transcript'[u]) <= MaxMessages
         /\ Cardinality(Written) \in Nat /\ Cardinality(Written) < MaxMessages
         /\ Cardinality(Written') = Cardinality(Written) + 1
<1>1. IsFiniteSet(Written) /\ Cardinality(Written) \in Nat /\ Cardinality(Written) < MaxMessages
  BY WrittenIsFinite DEF Room
<1>2. transcript \in [Threads -> Seq(Message)] /\ \A u \in Threads : Len(transcript[u]) <= MaxMessages
  BY DEF SupportTypeOK
<1>3. PICK n \in Nat : n = Len(transcript[t])
  BY <1>2
<1>4. n < MaxMessages
  <2> SUFFICES ASSUME n = MaxMessages PROVE FALSE
    BY <1>2, <1>3, SupportAssumption
  <2> DEFINE f == [k \in 1..n |-> <<t, k>>]
  <2>1. f \in [1..n -> Written]
    BY <1>3 DEF Written
  <2>2. \A j, k \in 1..n : f[j] = f[k] => j = k
    OBVIOUS
  <2>3. f \in Injection(1..n, Written)
    BY <2>1, <2>2 DEF Injection, IsInjective
  <2>4. Cardinality(1..n) <= Cardinality(Written)
    <3> HIDE DEF f
    <3> QED
      BY <1>1, <2>3, FS_Injection
  <2>5. Cardinality(1..n) = n
    BY FS_Interval
  <2> QED
    BY <1>1, <2>4, <2>5
<1>5. /\ transcript' \in [Threads -> Seq(Message)]
      /\ Len(transcript'[t]) = n + 1
      /\ \A u \in Threads \ {t} : transcript'[u] = transcript[u]
  BY <1>2, <1>3
<1>6. Written' = Written \cup {<<t, n + 1>>}
  <2>1. ASSUME NEW w \in Threads \X (1..MaxMessages)
        PROVE  w \in Written' <=> w \in Written \/ w = <<t, n + 1>>
    <3>1. PICK u \in Threads, k \in 1..MaxMessages : w = <<u, k>>
      OBVIOUS
    <3>2. CASE u = t
      BY <1>3, <1>5, <3>1, <3>2 DEF Written
    <3>3. CASE u # t
      BY <1>5, <3>1, <3>3 DEF Written
    <3> QED
      BY <3>2, <3>3
  <2>2. <<t, n + 1>> \in Threads \X (1..MaxMessages)
    BY <1>4, SupportAssumption
  <2>3. Written \subseteq Threads \X (1..MaxMessages) /\ Written' \subseteq Threads \X (1..MaxMessages)
    BY DEF Written, Threads
  <2> QED
    BY <2>1, <2>2, <2>3
<1>7. <<t, n + 1>> \notin Written
  BY <1>3 DEF Written
<1>8. Cardinality(Written') = Cardinality(Written) + 1
  BY <1>1, <1>6, <1>7, FS_AddElement
<1>9. \A u \in Threads : Len(transcript'[u]) <= MaxMessages
  BY <1>2, <1>4, <1>5, SupportAssumption
<1> QED
  BY <1>1, <1>5, <1>8, <1>9

\* Steps that write no message keep the types when what they write is well typed.
LEMMA QuietStepTyped ==
  ASSUME SupportInv, UNCHANGED transcript,
         NEW q \in Requests, NEW r \in SupportCall,
         request' = [request EXCEPT ![q] = r],
         r.at # "idle" => r.copy.unread <= Cardinality(Written),
         summary' \in [Threads -> Summary \cup {Nothing}],
         \A t \in Threads : summary'[t] # Nothing => summary'[t].unread <= Cardinality(Written),
         image' \in [Images -> ImageRow \cup {Nothing}],
         readTo' \in [Threads -> 0..MaxMessages]
  PROVE  SupportInv'
<1>1. Written' = Written
  BY DEF Written, Threads
<1>2. SupportTypeOK'
  BY DEF SupportInv, SupportTypeOK
<1>3. UnreadWereWritten'
  BY <1>1 DEF SupportInv, SupportTypeOK, UnreadWereWritten, Opened, IsIdle
<1> QED
  BY <1>2, <1>3 DEF SupportInv

\* A step that writes a message of a call and keeps the copy of the summary with it.
LEMMA WritingStepTyped ==
  ASSUME SupportInv, Room, NEW q \in Requests, request[q].at \in {"append", "note"},
         NEW m \in Message, NEW author,
         transcript' = [transcript EXCEPT ![request[q].draft.thread] = Append(@, m)],
         Become(q, [request[q] EXCEPT !.at = "save", !.copy = RecordMessage(@, author)]),
         UNCHANGED <<summary, image, readTo>>
  PROVE  SupportInv'
<1>1. /\ request[q] \in SupportCall /\ request[q].draft.thread \in Threads
      /\ request[q].copy \in Summary /\ request[q].copy.unread <= Cardinality(Written)
  <2>1. request[q] \in SupportCall
    BY DEF SupportInv, SupportTypeOK
  <2>2. request[q].draft \in Draft /\ request[q].copy \in Summary
    BY <2>1, CallFields
  <2> QED
    BY <2>1, <2>2 DEF SupportInv, UnreadWereWritten, IsIdle, Draft
<1>2. /\ transcript' \in [Threads -> Seq(Message)]
      /\ \A u \in Threads : Len(transcript'[u]) <= MaxMessages
      /\ Cardinality(Written) \in Nat /\ Cardinality(Written) < MaxMessages
      /\ Cardinality(Written') = Cardinality(Written) + 1
  BY <1>1, AppendWrites DEF SupportInv
<1>3. PICK s : s = RecordMessage(request[q].copy, author)
  OBVIOUS
<1>4. s \in Summary /\ s.unread <= Cardinality(Written) + 1
  BY <1>1, <1>2, <1>3, SupportAssumption DEF RecordMessage, Summary
<1>5. request' = [request EXCEPT ![q] = [request[q] EXCEPT !.at = "save", !.copy = s]]
  BY <1>3 DEF Become
<1>6. PICK r : r = [request[q] EXCEPT !.at = "save", !.copy = s]
  OBVIOUS
<1>7. r \in SupportCall /\ r.copy = s
  <2>1. r \in SupportCall
    BY <1>1, <1>4, <1>6, CallGoesOn
  <2>2. "copy" \in DOMAIN request[q]
    BY <1>1 DEF SupportCall
  <2> QED
    BY <1>6, <2>1, <2>2
<1>8. SupportTypeOK'
  BY <1>2, <1>5, <1>6, <1>7 DEF SupportInv, SupportTypeOK
<1>9. UnreadWereWritten'
  <2>1. \A t \in Threads : summary[t] # Nothing => summary[t].unread <= Cardinality(Written) + 1
    <3>1. \A t \in Threads : summary[t] # Nothing => summary[t].unread \in Int
      BY SupportAssumption DEF SupportInv, SupportTypeOK, Summary
    <3> QED
      BY <1>2, <3>1 DEF SupportInv, UnreadWereWritten, Opened
  <2>2. \A p \in Requests \ {q} :
          request[p].at # "idle" => request[p].copy.unread <= Cardinality(Written) + 1
    <3>1. \A p \in Requests : request[p].at # "idle" => request[p].copy \in Summary
      BY CallFields DEF SupportInv, SupportTypeOK
    <3>2. \A x \in Summary : x.unread \in Int
      BY SupportAssumption DEF Summary
    <3> QED
      BY <1>2, <3>1, <3>2 DEF SupportInv, UnreadWereWritten, IsIdle
  <2>3. /\ request'[q] = r /\ \A p \in Requests \ {q} : request'[p] = request[p]
        /\ summary' = summary
    BY <1>5, <1>6 DEF SupportInv, SupportTypeOK
  <2> QED
    BY <1>2, <1>4, <1>7, <2>1, <2>2, <2>3 DEF UnreadWereWritten, Opened, IsIdle, Threads
<1> QED
  BY <1>8, <1>9 DEF SupportInv

\* The steps of the calls and the uploads keep the types, whatever is interleaved.
LEMMA SupportInvStep == SupportInv /\ [SupportNext]_supportVars => SupportInv'
<1> SUFFICES ASSUME SupportInv, [SupportNext]_supportVars PROVE SupportInv'
  OBVIOUS
<1> DEFINE Idle == [at |-> "idle"]
<1>1. /\ summary \in [Threads -> Summary \cup {Nothing}]
      /\ \A t \in Threads : summary[t] # Nothing => /\ summary[t] \in Summary
                                                    /\ summary[t].unread <= Cardinality(Written)
      /\ image \in [Images -> ImageRow \cup {Nothing}]
      /\ readTo \in [Threads -> 0..MaxMessages]
      /\ \A q \in Requests : request[q] \in SupportCall
      /\ \A q \in Requests : request[q].at # "idle" => /\ request[q].draft \in Draft
                                                       /\ request[q].copy \in Summary
                                                       /\ request[q].copy.unread <= Cardinality(Written)
                                                       /\ request[q].read \in 0..MaxMessages
  BY CallFields DEF SupportInv, SupportTypeOK, UnreadWereWritten, Opened, IsIdle
<1>2. Idle \in SupportCall /\ Idle.at = "idle"
  BY DEF SupportCall
<1>3. ASSUME NEW q \in Requests, NEW by \in People, NEW t \in Threads,
             NEW i \in Images \cup {Nothing}, PostTo(q, by, t, i)
      PROVE  SupportInv'
  <2> DEFINE draft == [by |-> by, thread |-> t, image |-> i]
             r == [at |-> AfterLocate(draft), draft |-> draft, copy |-> summary[t], read |-> 0]
  <2>1. draft \in Draft
    BY DEF Draft
  <2>2. summary[t] \in Summary
    BY <1>1, <1>3 DEF PostTo, Opened
  <2>3. AfterLocate(draft) \in {"claim", "append"}
    BY DEF AfterLocate
  <2>4. r \in SupportCall
    <3> HIDE DEF draft
    <3> QED
      BY <2>1, <2>2, <2>3 DEF SupportCall
  <2>5. r.copy.unread <= Cardinality(Written)
    BY <1>1, <1>3 DEF PostTo, Opened
  <2>6. request' = [request EXCEPT ![q] = r] /\ UNCHANGED <<summary, transcript, image, readTo>>
    BY <1>3 DEF PostTo, Become
  <2> HIDE DEF r
  <2> QED
    BY <1>1, <2>4, <2>5, <2>6, QuietStepTyped
<1>4. ASSUME NEW q \in Requests, NEW i \in Images \cup {Nothing}, PostUnnamed(q, i)
      PROVE  SupportInv'
  <2>1. CASE \E t \in Threads : Opened(t) /\ summary[t].status = "open"
    BY <1>3, <1>4, <2>1 DEF PostUnnamed, People
  <2>2. CASE ~ \E t \in Threads : Opened(t) /\ summary[t].status = "open"
    <3>1. PICK t \in Threads :
            /\ Become(q, [at |-> "open", draft |-> [by |-> "customer", thread |-> t, image |-> i],
                          copy |-> [status |-> "open", unread |-> 0], read |-> 0])
            /\ UNCHANGED <<summary, transcript, image, readTo>>
      BY <1>4, <2>2 DEF PostUnnamed
    <3> DEFINE r == [at |-> "open", draft |-> [by |-> "customer", thread |-> t, image |-> i],
                     copy |-> [status |-> "open", unread |-> 0], read |-> 0]
    <3>2. r \in SupportCall
      BY SupportAssumption DEF SupportCall, Draft, People, Summary
    <3>3. r.copy.unread <= Cardinality(Written)
      BY WrittenIsFinite DEF SupportInv
    <3>4. request' = [request EXCEPT ![q] = r]
      BY <3>1 DEF Become
    <3> HIDE DEF r
    <3> QED
      BY <1>1, <3>1, <3>2, <3>3, <3>4, QuietStepTyped
  <2> QED
    BY <2>1, <2>2
<1>5. ASSUME NEW q \in Requests, NEW t \in Threads, NEW action \in Actions, Decide(q, t, action)
      PROVE  SupportInv'
  <2> DEFINE s == Transition(summary[t], action)
             at == IF action \in DOMAIN Notes THEN "note" ELSE "save"
             note == IF action \in DOMAIN Notes THEN Notes[action] ELSE "none"
             read == IF action \in {"resolve", "mark-read"} THEN Len(transcript[t]) ELSE 0
             draft == [by |-> "operator", thread |-> t, image |-> Nothing]
             r == [at |-> at, draft |-> draft, copy |-> s, note |-> note, read |-> read]
  <2>1. summary[t] \in Summary /\ summary[t].unread <= Cardinality(Written)
    BY <1>1, <1>5 DEF Decide, Opened
  <2>2. s \in Summary /\ s.unread <= Cardinality(Written)
    <3>1. Cardinality(Written) \in Nat
      BY WrittenIsFinite DEF SupportInv
    <3>2. CASE action = "resolve"
      BY <3>1, <3>2, SupportAssumption DEF Transition, Resolve, Summary
    <3>3. CASE action = "mark-read"
      BY <2>1, <3>1, <3>3, SupportAssumption DEF Transition, Summary
    <3>4. CASE action \notin {"resolve", "mark-read"}
      BY <2>1, <3>4 DEF Transition
    <3> QED
      BY <3>2, <3>3, <3>4
  <2>3. (at = "save" /\ note = "none") \/ (at = "note" /\ note \in {"claimed", "resolved"})
    <3>1. \A a \in DOMAIN Notes : Notes[a] \in {"claimed", "resolved"}
      BY DEF Notes
    <3> QED
      BY <3>1
  <2>4. read \in 0..MaxMessages
    BY SupportAssumption DEF SupportInv, SupportTypeOK
  <2>5. draft \in Draft
    BY DEF Draft, People
  <2>6. request' = [request EXCEPT ![q] = r] /\ UNCHANGED <<summary, transcript, image, readTo>>
    BY <1>5 DEF Decide, Become
  <2> HIDE DEF s, at, note, read, draft
  <2>7. r \in SupportCall /\ r.copy = s
    BY <2>2, <2>3, <2>4, <2>5 DEF SupportCall
  <2> HIDE DEF r
  <2> QED
    BY <1>1, <2>2, <2>6, <2>7, QuietStepTyped
<1>6. ASSUME NEW q \in Requests, OpenThread(q)
      PROVE  SupportInv'
  <2>1. PICK r : r = [request[q] EXCEPT !.at = AfterLocate(request[q].draft)]
    OBVIOUS
  <2>2. request[q].at = "open" /\ request' = [request EXCEPT ![q] = r]
        /\ summary' = [summary EXCEPT ![request[q].draft.thread] = request[q].copy]
        /\ UNCHANGED <<transcript, image, readTo>>
    BY <1>6, <2>1 DEF OpenThread, Become
  <2>3. r \in SupportCall
    BY <1>1, <2>1, <2>2, CallGoesOn DEF AfterLocate
  <2>4. r.copy = request[q].copy
    <3>1. request[q] \in SupportCall /\ "copy" \in DOMAIN request[q]
      BY <1>1, <2>2 DEF SupportCall
    <3> QED
      BY <2>1, <3>1
  <2>5. request[q].draft.thread \in Threads
    BY <1>1, <2>2 DEF Draft
  <2> QED
    BY <1>1, <2>2, <2>3, <2>4, <2>5, QuietStepTyped
<1>7. ASSUME NEW q \in Requests, ClaimImage(q)
      PROVE  SupportInv'
  <2>1. request[q].at = "claim" /\ request[q].draft.thread \in Threads
    BY <1>1, <1>7 DEF ClaimImage, Draft
  <2>2. CASE Claimable(request[q].draft.image, request[q].draft.by)
    <3>1. PICK r : r = [request[q] EXCEPT !.at = "append"]
      OBVIOUS
    <3>2. request' = [request EXCEPT ![q] = r] /\ UNCHANGED <<summary, transcript, readTo>>
          /\ image' = [image EXCEPT ![request[q].draft.image].thread = request[q].draft.thread]
      BY <1>7, <2>2, <3>1 DEF ClaimImage, Become
    <3>3. r \in SupportCall
      BY <1>1, <2>1, <3>1, CallGoesOn
    <3>4. r.copy = request[q].copy
      <4>1. request[q] \in SupportCall /\ "copy" \in DOMAIN request[q]
        BY <1>1, <2>1 DEF SupportCall
      <4> QED
        BY <3>1, <4>1
    <3>5. image' \in [Images -> ImageRow \cup {Nothing}]
      <4>1. \A i \in Images : i = request[q].draft.image => image[i] \in ImageRow
        BY <1>1, <2>2 DEF Claimable
      <4> QED
        BY <1>1, <2>1, <3>2, <4>1 DEF ImageRow
    <3> QED
      BY <1>1, <2>1, <3>2, <3>3, <3>4, <3>5, QuietStepTyped
  <2>3. CASE ~ Claimable(request[q].draft.image, request[q].draft.by)
    <3>1. request' = [request EXCEPT ![q] = Idle] /\ UNCHANGED <<summary, transcript, image, readTo>>
      BY <1>7, <2>3 DEF ClaimImage, Finish, Become
    <3> QED
      BY <1>1, <1>2, <3>1, QuietStepTyped
  <2> QED
    BY <2>2, <2>3
<1>8. ASSUME NEW q \in Requests, AppendMessage(q)
      PROVE  SupportInv'
  <2>1. PICK d : d = request[q].draft
    OBVIOUS
  <2>2. d \in Draft
    BY <1>1, <1>8, <2>1 DEF AppendMessage
  <2>3. [author |-> d.by, image |-> d.image] \in Message
    BY <2>2 DEF Draft, Message
  <2> QED
    BY <1>8, <2>1, <2>3, WritingStepTyped DEF AppendMessage
<1>9. ASSUME NEW q \in Requests, AppendNote(q)
      PROVE  SupportInv'
  <2>1. [author |-> request[q].note, image |-> Nothing] \in Message
    <3>1. request[q].note \in {"claimed", "resolved"}
      BY <1>1, <1>9, CallFields DEF AppendNote
    <3> QED
      BY <3>1 DEF Message
  <2> QED
    BY <1>9, <2>1, WritingStepTyped DEF AppendNote
<1>10. ASSUME NEW q \in Requests, SaveSummary(q)
       PROVE  SupportInv'
  <2>1. request[q].at = "save" /\ request[q].draft.thread \in Threads
    BY <1>1, <1>10 DEF SaveSummary, Draft
  <2>2. /\ request' = [request EXCEPT ![q] = Idle] /\ UNCHANGED <<transcript, image>>
        /\ summary' = [summary EXCEPT ![request[q].draft.thread] = request[q].copy]
        /\ readTo' \in [Threads -> 0..MaxMessages]
    BY <1>1, <1>10, <2>1 DEF SaveSummary, Finish, Become
  <2> QED
    BY <1>1, <1>2, <2>1, <2>2, QuietStepTyped
<1>11. ASSUME NEW q \in Requests, StopRequest(q)
       PROVE  SupportInv'
  <2>1. request' = [request EXCEPT ![q] = Idle] /\ UNCHANGED <<summary, transcript, image, readTo>>
    BY <1>11 DEF StopRequest, Finish, Become
  <2> QED
    BY <1>1, <1>2, <2>1, QuietStepTyped
<1>12. ASSUME NEW by \in People, NEW i \in Images, Upload(by, i)
       PROVE  SupportInv'
  <2>1. image' \in [Images -> ImageRow \cup {Nothing}]
    BY <1>1, <1>12 DEF Upload, ImageRow
  <2> QED
    BY <1>12, <2>1 DEF Upload, SupportInv, SupportTypeOK, UnreadWereWritten, Opened, IsIdle,
                       Written, Threads
<1>13. CASE UNCHANGED supportVars
  BY <1>13 DEF supportVars, SupportInv, SupportTypeOK, UnreadWereWritten, Opened, IsIdle, Written,
               Threads
<1> QED
  BY <1>3, <1>4, <1>5, <1>6, <1>7, <1>8, <1>9, <1>10, <1>11, <1>12, <1>13 DEF SupportNext

\* No thread is open yet.
LEMMA SupportInvInit == SupportInit => SupportInv
BY SupportAssumption
DEF SupportInit, SupportInv, SupportTypeOK, UnreadWereWritten, Opened, IsIdle, SupportCall

\* So types and counts hold throughout.
LEMMA SupportInvHolds == SupportSpec => []SupportInv
BY SupportInvInit, SupportInvStep, PTL DEF SupportSpec

\* The documents of the conversations, the images and the calls under way are well typed,
\* and a badge never counts past the messages there are: the copies of a summary that calls
\* carry and save over one another are bounded by what had been written.
THEOREM SupportTypesHold == SupportSpec => []SupportTypeOK
<1>1. SupportInv => SupportTypeOK
  BY DEF SupportInv
<1> QED
  BY <1>1, SupportInvHolds, PTL

\* A message on the table holds an image that was claimed for its conversation, and no
\* other message holds it.
HeldOnce ==
  \A t \in Threads : \A k \in DOMAIN transcript[t] :
    LET i == transcript[t][k].image
    IN  i # Nothing =>
          /\ i \in Images /\ image[i] # Nothing /\ image[i].thread = t
          /\ \A l \in DOMAIN transcript[t] : transcript[t][l].image = i => l = k

\* An image that a call has claimed is the call's alone until the message is appended.
AboutToHold(q, i) == request[q].at = "append" /\ request[q].draft.image = i
ClaimedByOne ==
  \A q \in Requests, i \in Images :
    AboutToHold(q, i) /\ i # Nothing =>
      /\ image[i] # Nothing /\ image[i].thread = request[q].draft.thread
      /\ \A t \in Threads : \A k \in DOMAIN transcript[t] : transcript[t][k].image # i
      /\ \A p \in Requests : AboutToHold(p, i) => p = q

ImageInv == SupportInv /\ HeldOnce /\ ClaimedByOne

\* A step that leaves the messages and the images alone, and has no call claim an image.
LEMMA NothingClaimedStep ==
  ASSUME ImageInv, UNCHANGED <<transcript, image>>, NEW q \in Requests, NEW r,
         request' = [request EXCEPT ![q] = r],
         r.at = "append" => r.draft.image = Nothing
  PROVE  HeldOnce' /\ ClaimedByOne'
<1>1. HeldOnce'
  BY DEF ImageInv, HeldOnce
<1>2. \A p \in Requests, i \in Images :
        AboutToHold(p, i)' /\ i # Nothing => AboutToHold(p, i) /\ request'[p] = request[p]
  BY DEF ImageInv, SupportInv, SupportTypeOK, AboutToHold
<1>3. ClaimedByOne'
  BY <1>2 DEF ImageInv, ClaimedByOne
<1> QED
  BY <1>1, <1>3

\* The update that claims an image finds it unclaimed: no message holds it and no other
\* call is about to write one that does.
LEMMA ClaimStepKeepsImages ==
  ASSUME ImageInv, NEW q \in Requests, ClaimImage(q)
  PROVE  HeldOnce' /\ ClaimedByOne'
<1>1. /\ request \in [Requests -> SupportCall] /\ image \in [Images -> ImageRow \cup {Nothing}]
      /\ request[q].at = "claim"
  BY DEF ClaimImage, ImageInv, SupportInv, SupportTypeOK
<1>2. PICK d : d = request[q].draft
  OBVIOUS
<1>3. d \in Draft
  BY <1>1, <1>2, CallFields
<1>4. CASE Claimable(d.image, d.by)
  <2>1. PICK i : i = d.image
    OBVIOUS
  <2>2. PICK r : r = [request[q] EXCEPT !.at = "append"]
    OBVIOUS
  <2>3. /\ image' = [image EXCEPT ![i].thread = d.thread]
        /\ request' = [request EXCEPT ![q] = r] /\ transcript' = transcript
    BY <1>2, <1>4, <2>1, <2>2 DEF ClaimImage, Become
  <2>4. /\ r.draft = d /\ image[i] # Nothing /\ image[i].thread = 0 /\ d.thread \in Threads
        /\ d.thread # 0
    <3>1. r.draft = d
      <4>1. "draft" \in DOMAIN request[q]
        BY <1>1 DEF SupportCall
      <4>2. request[q] \in SupportCall
        BY <1>1
      <4> QED
        BY <1>2, <2>2, <4>1, <4>2 DEF SupportCall
    <3> QED
      BY <1>3, <1>4, <2>1, <3>1 DEF Claimable, Draft, Threads
  <2>5. /\ \A t \in Threads : \A k \in DOMAIN transcript[t] : i # Nothing => transcript[t][k].image # i
        /\ \A p \in Requests : ~ (AboutToHold(p, i) /\ i # Nothing /\ i \in Images)
    <3>1. \A t \in Threads : t # 0
      BY DEF Threads
    <3>2. \A p \in Requests : AboutToHold(p, i) => request[p].draft.thread \in Threads
      BY <1>1, CallFields DEF AboutToHold, Draft
    <3> QED
      BY <2>4, <3>1, <3>2 DEF ImageInv, HeldOnce, ClaimedByOne
  <2>6. /\ \A j \in Images : j # i => image'[j] = image[j]
        /\ i \in Images => image'[i] # Nothing /\ image'[i].thread = d.thread
    <3>1. i \in Images => image[i] \in ImageRow
      BY <1>1, <2>4
    <3>2. i \in Images => image'[i] \in ImageRow /\ image'[i].thread = d.thread
      BY <1>1, <2>3, <2>4, <3>1 DEF ImageRow
    <3> QED
      BY <1>1, <2>3, <3>2, NoRowOfSupport
  <2>7. HeldOnce'
    BY <2>3, <2>5, <2>6 DEF ImageInv, HeldOnce
  <2>8. \A p \in Requests \ {q} : request'[p] = request[p]
    BY <1>1, <2>3
  <2>9. request'[q].draft = d
    BY <1>1, <2>3, <2>4
  <2>10. ASSUME NEW p \in Requests, NEW j \in Images, AboutToHold(p, j)', j # Nothing
         PROVE  (p # q /\ j # i /\ AboutToHold(p, j)) \/ (p = q /\ j = i)
    <3>1. CASE p = q
      BY <2>1, <2>9, <2>10, <3>1 DEF AboutToHold
    <3>2. CASE p # q
      <4>1. AboutToHold(p, j)
        BY <2>8, <2>10, <3>2 DEF AboutToHold
      <4> QED
        BY <2>5, <2>10, <3>2, <4>1 DEF AboutToHold
    <3> QED
      BY <3>1, <3>2
  <2>11. ClaimedByOne'
    BY <2>3, <2>5, <2>6, <2>8, <2>9, <2>10 DEF ImageInv, ClaimedByOne
  <2> QED
    BY <2>7, <2>11
<1>5. CASE ~ Claimable(d.image, d.by)
  <2>1. UNCHANGED <<transcript, image>> /\ request' = [request EXCEPT ![q] = [at |-> "idle"]]
    BY <1>2, <1>5 DEF ClaimImage, Finish, Become
  <2> QED
    BY <2>1, NothingClaimedStep
<1> QED
  BY <1>4, <1>5

\* The message of a call takes the image the call has claimed, which the call then lets go.
LEMMA AppendStepKeepsImages ==
  ASSUME ImageInv, NEW q \in Requests, AppendMessage(q) \/ AppendNote(q)
  PROVE  HeldOnce' /\ ClaimedByOne'
<1>1. /\ request \in [Requests -> SupportCall] /\ transcript \in [Threads -> Seq(Message)]
      /\ request[q].at \in {"append", "note"}
  BY DEF AppendMessage, AppendNote, ImageInv, SupportInv, SupportTypeOK
<1>2. PICK d : d = request[q].draft
  OBVIOUS
<1>3. d \in Draft /\ d.thread \in Threads
  BY <1>1, <1>2, CallFields DEF Draft
<1>4. PICK m : transcript' = [transcript EXCEPT ![d.thread] = Append(@, m)]
               /\ (m.image = Nothing \/ (AboutToHold(q, m.image) /\ m.image \in Images))
  <2>1. CASE AppendMessage(q)
    <3> DEFINE m == [author |-> d.by, image |-> d.image]
    <3>1. transcript' = [transcript EXCEPT ![d.thread] = Append(@, m)] /\ request[q].at = "append"
      BY <1>2, <2>1 DEF AppendMessage
    <3>2. m.image = d.image /\ d.image \in Images \cup {Nothing}
      BY <1>3 DEF Draft
    <3> HIDE DEF m
    <3> QED
      BY <1>2, <3>1, <3>2 DEF AboutToHold
  <2>2. CASE AppendNote(q)
    <3> DEFINE m == [author |-> request[q].note, image |-> Nothing]
    <3>1. transcript' = [transcript EXCEPT ![d.thread] = Append(@, m)] /\ m.image = Nothing
      BY <1>2, <2>2 DEF AppendNote
    <3> HIDE DEF m
    <3> QED
      BY <3>1
  <2> QED
    BY <2>1, <2>2
<1>5. image' = image /\ request'[q].at = "save" /\ \A p \in Requests \ {q} : request'[p] = request[p]
  <2>1. PICK r : /\ r.at = "save" /\ request' = [request EXCEPT ![q] = r]
                 /\ image' = image
    <3>1. \A s : [request[q] EXCEPT !.at = "save", !.copy = s].at = "save"
      BY <1>1 DEF SupportCall
    <3> QED
      BY <3>1 DEF AppendMessage, AppendNote, Become
  <2> QED
    BY <1>1, <2>1
<1>6. PICK n \in Nat : n = Len(transcript[d.thread])
  BY <1>1, <1>3
<1>7. /\ \A t \in Threads \ {d.thread} : transcript'[t] = transcript[t]
      /\ DOMAIN transcript'[d.thread] = DOMAIN transcript[d.thread] \cup {n + 1}
      /\ n + 1 \notin DOMAIN transcript[d.thread]
      /\ transcript'[d.thread][n + 1] = m
      /\ \A k \in DOMAIN transcript[d.thread] : transcript'[d.thread][k] = transcript[d.thread][k]
  BY <1>1, <1>3, <1>4, <1>6
<1>8. m.image # Nothing =>
        /\ m.image \in Images /\ image[m.image] # Nothing /\ image[m.image].thread = d.thread
        /\ \A t \in Threads : \A k \in DOMAIN transcript[t] : transcript[t][k].image # m.image
        /\ \A p \in Requests : AboutToHold(p, m.image) => p = q
  BY <1>2, <1>4 DEF ImageInv, ClaimedByOne
<1>9. HeldOnce'
  <2> SUFFICES ASSUME NEW t \in Threads, NEW k \in DOMAIN transcript'[t],
                      transcript'[t][k].image # Nothing
               PROVE  /\ transcript'[t][k].image \in Images
                      /\ image[transcript'[t][k].image] # Nothing
                      /\ image[transcript'[t][k].image].thread = t
                      /\ \A l \in DOMAIN transcript'[t] :
                           transcript'[t][l].image = transcript'[t][k].image => l = k
    BY <1>5 DEF HeldOnce
  <2>1. CASE t # d.thread
    BY <1>7, <2>1 DEF ImageInv, HeldOnce
  <2>2. CASE t = d.thread /\ k = n + 1
    BY <1>3, <1>7, <1>8, <2>2
  <2>3. CASE t = d.thread /\ k # n + 1
    <3>1. k \in DOMAIN transcript[t] /\ transcript'[t][k] = transcript[t][k]
      BY <1>7, <2>3
    <3>2. transcript[t][k].image # m.image
      BY <1>8, <3>1
    <3> QED
      BY <1>7, <2>3, <3>1, <3>2 DEF ImageInv, HeldOnce
  <2> QED
    BY <2>1, <2>2, <2>3
<1>10. ClaimedByOne'
  <2>1. \A p \in Requests, i \in Images :
          AboutToHold(p, i)' => p # q /\ AboutToHold(p, i) /\ request'[p] = request[p]
    BY <1>5 DEF AboutToHold
  <2>2. ASSUME NEW p \in Requests, NEW i \in Images, AboutToHold(p, i)', i # Nothing
        PROVE  \A t \in Threads : \A k \in DOMAIN transcript'[t] : transcript'[t][k].image # i
    <3>1. p # q /\ AboutToHold(p, i)
      BY <2>1, <2>2
    <3>2. m.image # i
      BY <1>8, <2>2, <3>1
    <3>3. \A t \in Threads : \A k \in DOMAIN transcript[t] : transcript[t][k].image # i
      BY <2>2, <3>1 DEF ImageInv, ClaimedByOne
    <3> QED
      BY <1>3, <1>7, <3>2, <3>3
  <2> QED
    BY <1>5, <2>1, <2>2 DEF ImageInv, ClaimedByOne
<1> QED
  BY <1>9, <1>10

\* An upload adds an image that no message names.
LEMMA UploadStepKeepsImages ==
  ASSUME ImageInv, NEW by \in People, NEW i \in Images, Upload(by, i)
  PROVE  HeldOnce' /\ ClaimedByOne'
<1>1. /\ image[i] = Nothing /\ UNCHANGED <<transcript, request>>
      /\ \A j \in Images \ {i} : image'[j] = image[j]
  BY DEF Upload, ImageInv, SupportInv, SupportTypeOK
<1>2. HeldOnce'
  BY <1>1 DEF ImageInv, HeldOnce
<1>3. ClaimedByOne'
  BY <1>1 DEF ImageInv, ClaimedByOne, AboutToHold
<1> QED
  BY <1>2, <1>3

\* An image changes hands by one update, and never back.
LEMMA ImageInvStep == ImageInv /\ [SupportNext]_supportVars => ImageInv'
<1> SUFFICES ASSUME ImageInv, [SupportNext]_supportVars PROVE HeldOnce' /\ ClaimedByOne'
  BY SupportInvStep DEF ImageInv
<1>1. ASSUME NEW q \in Requests, NEW by \in People, NEW t \in Threads,
             NEW i \in Images \cup {Nothing}, PostTo(q, by, t, i)
      PROVE  HeldOnce' /\ ClaimedByOne'
  <2> DEFINE r == [at |-> AfterLocate([by |-> by, thread |-> t, image |-> i]),
                   draft |-> [by |-> by, thread |-> t, image |-> i],
                   copy |-> summary[t], read |-> 0]
  <2>1. r.at = "append" => r.draft.image = Nothing
    BY DEF AfterLocate
  <2>2. request' = [request EXCEPT ![q] = r] /\ UNCHANGED <<transcript, image>>
    BY <1>1 DEF PostTo, Become
  <2> HIDE DEF r
  <2> QED
    BY <2>1, <2>2, NothingClaimedStep
<1>2. ASSUME NEW q \in Requests, NEW i \in Images \cup {Nothing}, PostUnnamed(q, i)
      PROVE  HeldOnce' /\ ClaimedByOne'
  <2>1. CASE \E t \in Threads : Opened(t) /\ summary[t].status = "open"
    BY <1>1, <1>2, <2>1 DEF PostUnnamed, People
  <2>2. CASE ~ \E t \in Threads : Opened(t) /\ summary[t].status = "open"
    <3>1. PICK r : r.at = "open" /\ request' = [request EXCEPT ![q] = r]
                   /\ UNCHANGED <<transcript, image>>
      BY <1>2, <2>2 DEF PostUnnamed, Become
    <3> QED
      BY <3>1, NothingClaimedStep
  <2> QED
    BY <2>1, <2>2
<1>3. ASSUME NEW q \in Requests, NEW t \in Threads, NEW action \in Actions, Decide(q, t, action)
      PROVE  HeldOnce' /\ ClaimedByOne'
  <2> DEFINE at == IF action \in DOMAIN Notes THEN "note" ELSE "save"
             r == [at |-> at, draft |-> [by |-> "operator", thread |-> t, image |-> Nothing],
                   copy |-> Transition(summary[t], action),
                   note |-> IF action \in DOMAIN Notes THEN Notes[action] ELSE "none",
                   read |-> IF action \in {"resolve", "mark-read"} THEN Len(transcript[t]) ELSE 0]
  <2>1. r.at # "append"
    OBVIOUS
  <2>2. request' = [request EXCEPT ![q] = r] /\ UNCHANGED <<transcript, image>>
    BY <1>3 DEF Decide, Become
  <2> HIDE DEF r
  <2> QED
    BY <2>1, <2>2, NothingClaimedStep
<1>4. ASSUME NEW q \in Requests, OpenThread(q)
      PROVE  HeldOnce' /\ ClaimedByOne'
  <2>1. PICK r : r = [request[q] EXCEPT !.at = AfterLocate(request[q].draft)]
    OBVIOUS
  <2>2. request' = [request EXCEPT ![q] = r] /\ UNCHANGED <<transcript, image>>
    BY <1>4, <2>1 DEF OpenThread, Become
  <2>3. r.at = AfterLocate(request[q].draft) /\ r.draft = request[q].draft
    <3>1. request[q] \in SupportCall /\ request[q].at = "open"
      BY <1>4 DEF OpenThread, ImageInv, SupportInv, SupportTypeOK
    <3> QED
      BY <2>1, <3>1 DEF SupportCall
  <2> QED
    BY <2>2, <2>3, NothingClaimedStep DEF AfterLocate
<1>5. ASSUME NEW q \in Requests, SaveSummary(q) \/ StopRequest(q)
      PROVE  HeldOnce' /\ ClaimedByOne'
  <2>1. request' = [request EXCEPT ![q] = [at |-> "idle"]] /\ UNCHANGED <<transcript, image>>
    BY <1>5 DEF SaveSummary, StopRequest, Finish, Become
  <2> QED
    BY <2>1, NothingClaimedStep
<1>6. CASE UNCHANGED supportVars
  BY <1>6 DEF supportVars, ImageInv, HeldOnce, ClaimedByOne, AboutToHold
<1> QED
  BY <1>1, <1>2, <1>3, <1>4, <1>5, <1>6, ClaimStepKeepsImages, AppendStepKeepsImages,
     UploadStepKeepsImages DEF SupportNext

\* An image claimed by several messages at once, in several threads, over retries and by
\* calls that stop anywhere, ends in at most one of them and in the conversation its row
\* says: the claim is one update of a row no message has, and nothing else leads to the
\* append.
THEOREM ImagesAreOnOneMessage == SupportSpec => []ImageOnOneMessage
<1>1. SupportInit => ImageInv
  BY SupportInvInit DEF SupportInit, ImageInv, HeldOnce, ClaimedByOne, AboutToHold
<1>2. ImageInv => ImageOnOneMessage
  BY DEF ImageInv, HeldOnce, ImageOnOneMessage
<1> QED
  BY <1>1, <1>2, ImageInvStep, PTL DEF SupportSpec

----------------------------------------------------------------------------
(* The summary of a conversation *)

\* Whether a customer had the last word since the last resolution, and the messages of the
\* customer after the first n.
LastResolved(tr) ==
  \E k \in DOMAIN tr :
    tr[k].author = "resolved" /\ \A l \in (k + 1)..Len(tr) : tr[l].author # "customer"
Unheard(tr, n) == {k \in (n + 1)..Len(tr) : tr[k].author = "customer"}

\* Summary s is that of transcript tr, when its first n messages have been read.
Tells(s, tr, n) ==
  (s.status = "resolved" <=> LastResolved(tr)) /\ s.unread = Cardinality(Unheard(tr, n))

\* An empty transcript is open and unread by nobody.
LEMMA EmptyTells == Tells([status |-> "open", unread |-> 0], <<>>, 0)
<1>1. ~ LastResolved(<<>>)
  BY DEF LastResolved
<1>2. Unheard(<<>>, 0) = {}
  BY DEF Unheard
<1> QED
  BY <1>1, <1>2, FS_EmptySet DEF Tells

\* Reading everything clears the badge and leaves the status.
LEMMA ReadingTells ==
  ASSUME NEW tr \in Seq(Message), NEW n \in Nat, NEW s \in Summary, Tells(s, tr, n)
  PROVE  Tells([s EXCEPT !.unread = 0], tr, Len(tr))
<1>1. Unheard(tr, Len(tr)) = {}
  BY DEF Unheard
<1>2. [s EXCEPT !.unread = 0].status = s.status /\ [s EXCEPT !.unread = 0].unread = 0
  BY DEF Summary
<1> QED
  BY <1>1, <1>2, FS_EmptySet DEF Tells

\* What one more message does to the two figures of a transcript.
LEMMA AppendedFigures ==
  ASSUME NEW tr \in Seq(Message), NEW m \in Message, NEW n \in Nat, n <= Len(tr)
  PROVE  LET new == Append(tr, m)
         IN  /\ m.author = "customer" =>
                  /\ ~ LastResolved(new)
                  /\ Cardinality(Unheard(new, n)) = Cardinality(Unheard(tr, n)) + 1
             /\ m.author # "customer" => Unheard(new, n) = Unheard(tr, n)
             /\ m.author \notin {"customer", "resolved"} => (LastResolved(new) <=> LastResolved(tr))
             /\ m.author = "resolved" => LastResolved(new) /\ Unheard(new, Len(tr)) = {}
<1> DEFINE new == Append(tr, m)
<1>1. PICK len \in Nat : len = Len(tr)
  OBVIOUS
<1>2. /\ new \in Seq(Message) /\ Len(new) = len + 1 /\ new[len + 1] = m
      /\ \A k \in 1..len : new[k] = tr[k]
      /\ DOMAIN new = 1..(len + 1) /\ DOMAIN tr = 1..len
  BY <1>1
<1> HIDE DEF new
<1>3. Unheard(new, n) = Unheard(tr, n) \cup (IF m.author = "customer" THEN {len + 1} ELSE {})
  BY <1>1, <1>2 DEF Unheard
<1>4. len + 1 \notin Unheard(tr, n) /\ IsFiniteSet(Unheard(tr, n))
  <2>1. IsFiniteSet((n + 1)..len)
    BY FS_Interval
  <2>2. Unheard(tr, n) \in SUBSET ((n + 1)..len)
    BY <1>1 DEF Unheard
  <2>3. len + 1 \notin Unheard(tr, n)
    BY <2>2
  <2> QED
    BY <2>1, <2>2, <2>3, FS_Subset
<1>5. CASE m.author = "customer"
  <2>1. Cardinality(Unheard(new, n)) = Cardinality(Unheard(tr, n)) + 1
    BY <1>3, <1>4, <1>5, FS_AddElement
  <2>2. ~ LastResolved(new)
    <3> SUFFICES ASSUME NEW k \in 1..(len + 1), new[k].author = "resolved",
                        \A l \in (k + 1)..(len + 1) : new[l].author # "customer"
                 PROVE  FALSE
      BY <1>2 DEF LastResolved
    <3>1. k # len + 1
      BY <1>2, <1>5
    <3>2. len + 1 \in (k + 1)..(len + 1)
      BY <3>1
    <3> QED
      BY <1>2, <1>5, <3>2
  <2> QED
    BY <1>5, <2>1, <2>2 DEF new
<1>6. CASE m.author = "resolved"
  <2>1. LastResolved(new)
    <3>1. len + 1 \in DOMAIN new /\ new[len + 1].author = "resolved"
      BY <1>2, <1>6
    <3>2. \A l \in (len + 1 + 1)..(len + 1) : FALSE
      OBVIOUS
    <3> QED
      BY <1>2, <3>1, <3>2 DEF LastResolved
  <2>2. Unheard(new, len) = {}
    BY <1>2, <1>6 DEF Unheard
  <2>3. Unheard(new, n) = Unheard(tr, n)
    BY <1>3, <1>6
  <2> QED
    BY <1>1, <1>6, <2>1, <2>2, <2>3 DEF new
<1>7. CASE m.author \notin {"customer", "resolved"}
  <2>1. ASSUME NEW k \in 1..len, tr[k].author = "resolved",
               \A l \in (k + 1)..len : tr[l].author # "customer"
        PROVE  LastResolved(new)
    <3>1. \A l \in (k + 1)..(len + 1) : new[l].author # "customer"
      <4>1. ASSUME NEW l \in (k + 1)..(len + 1) PROVE new[l].author # "customer"
        <5>1. CASE l = len + 1
          BY <1>2, <1>7, <5>1
        <5>2. CASE l # len + 1
          <6>1. l \in (k + 1)..len /\ l \in 1..len
            BY <5>2
          <6> QED
            BY <1>2, <2>1, <6>1
        <5> QED
          BY <5>1, <5>2
      <4> QED
        BY <4>1
    <3>2. k \in DOMAIN new /\ new[k].author = "resolved"
      BY <1>2, <2>1
    <3> QED
      BY <1>2, <3>1, <3>2 DEF LastResolved
  <2>2. ASSUME NEW k \in 1..(len + 1), new[k].author = "resolved",
               \A l \in (k + 1)..(len + 1) : new[l].author # "customer"
        PROVE  LastResolved(tr)
    <3>1. k \in 1..len
      BY <1>2, <1>7, <2>2
    <3>2. \A l \in (k + 1)..len : tr[l].author # "customer"
      <4>1. ASSUME NEW l \in (k + 1)..len PROVE tr[l].author # "customer"
        <5>1. l \in (k + 1)..(len + 1) /\ l \in 1..len
          BY <3>1
        <5> QED
          BY <1>2, <2>2, <5>1
      <4> QED
        BY <4>1
    <3>3. tr[k].author = "resolved"
      BY <1>2, <2>2, <3>1
    <3> QED
      BY <1>1, <1>2, <3>1, <3>2, <3>3 DEF LastResolved
  <2>3. LastResolved(new) <=> LastResolved(tr)
    BY <1>1, <1>2, <2>1, <2>2 DEF LastResolved
  <2>4. Unheard(new, n) = Unheard(tr, n)
    BY <1>3, <1>7
  <2> QED
    BY <1>7, <2>3, <2>4 DEF new
<1> QED
  BY <1>5, <1>6, <1>7

\* recordMessage keeps the summary in step with the transcript, and a resolution noted on
\* top of it makes a resolved one with nothing unread.
LEMMA RecordedTells ==
  ASSUME NEW tr \in Seq(Message), NEW m \in Message, NEW n \in Nat, n <= Len(tr),
         NEW s \in Summary
  PROVE  /\ Tells(s, tr, n) /\ m.author # "resolved" =>
              Tells(RecordMessage(s, m.author), Append(tr, m), n)
         /\ m.author = "resolved" =>
              Tells(RecordMessage(Resolve(s), m.author), Append(tr, m), Len(tr))
<1>1. CASE m.author = "customer"
  BY <1>1, AppendedFigures DEF Tells, RecordMessage
<1>2. CASE m.author = "resolved"
  BY <1>2, AppendedFigures, FS_EmptySet DEF Tells, RecordMessage, Resolve
<1>3. CASE m.author \notin {"customer", "resolved"}
  BY <1>3, AppendedFigures DEF Tells, RecordMessage
<1> QED
  BY <1>1, <1>2, <1>3

\* One call at a time has a thread in hand.
Alone ==
  \A p, q \in Requests :
    ~IsIdle(p) /\ ~IsIdle(q) /\ request[p].draft.thread = request[q].draft.thread => p = q

\* A settled thread is told by its summary, and one not yet opened has no messages.
ThreadTold(t) ==
  /\ readTo[t] <= Len(transcript[t])
  /\ ~Opened(t) => transcript[t] = <<>> /\ readTo[t] = 0
  /\ Settled(t) => Tells(summary[t], transcript[t], readTo[t])

\* What a call holds is the summary as it is until the call writes a message, and from then
\* on the summary its save will make true.
CallTold(q) ==
  LET t == request[q].draft.thread
      copy == request[q].copy
      read == request[q].read
  IN  /\ request[q].at = "open" => ~Opened(t) /\ copy = [status |-> "open", unread |-> 0]
      /\ request[q].at \in {"claim", "append", "note", "save"} => Opened(t)
      /\ request[q].at \in {"claim", "append"} => copy = summary[t]
      /\ request[q].at = "note" =>
           \/ request[q].note = "claimed" /\ copy = summary[t] /\ read = 0
           \/ request[q].note = "resolved" /\ copy = Resolve(summary[t]) /\ read = Len(transcript[t])
      /\ request[q].at = "save" =>
           /\ read <= Len(transcript[t])
           /\ Tells(copy, transcript[t], IF read = 0 THEN readTo[t] ELSE read)

\* The inductive invariant.
ToldInv ==
  /\ SupportInv /\ Alone
  /\ \A t \in Threads : ThreadTold(t)
  /\ \A q \in Requests : CallTold(q)

\* Call q has thread t in hand, or takes it, and no other call does.
Holds(q, t) ==
  /\ IsIdle(q) \/ request[q].draft.thread = t
  /\ \A p \in Requests \ {q} : ~IsIdle(p) => request[p].draft.thread # t

\* A step of such a call keeps the invariant when it keeps it for the call and the thread.
LEMMA OneThreadStep ==
  ASSUME ToldInv, SupportInv', NEW q \in Requests, NEW t \in Threads, Holds(q, t), NEW r,
         request' = [request EXCEPT ![q] = r],
         r.at = "idle" \/ r.draft.thread = t,
         \A u \in Threads \ {t} : /\ summary'[u] = summary[u] /\ transcript'[u] = transcript[u]
                                  /\ readTo'[u] = readTo[u],
         readTo'[t] <= Len(transcript'[t]),
         summary'[t] = Nothing => transcript'[t] = <<>> /\ readTo'[t] = 0,
         summary'[t] # Nothing /\ r.at # "save" => Tells(summary'[t], transcript'[t], readTo'[t]),
         CallTold(q)'
  PROVE  ToldInv'
<1>1. /\ request'[q] = r /\ \A p \in Requests \ {q} : request'[p] = request[p]
      /\ \A p \in Requests : request[p].at # "idle" => request[p].draft.thread \in Threads
  <2>1. request \in [Requests -> SupportCall]
    BY DEF ToldInv, SupportInv, SupportTypeOK
  <2>2. \A p \in Requests : request[p].at # "idle" => request[p].draft \in Draft
    BY <2>1, CallFields
  <2> QED
    BY <2>1, <2>2 DEF Draft
<1>2. Alone'
  BY <1>1 DEF ToldInv, Alone, IsIdle, Holds
<1>3. ASSUME NEW u \in Threads \ {t} PROVE ThreadTold(u)'
  <2>1. Settled(u)' => Settled(u)
    BY <1>1 DEF Settled, Opened, Holds, IsIdle
  <2> QED
    BY <2>1 DEF ToldInv, ThreadTold, Opened
<1>4. ThreadTold(t)'
  BY <1>1 DEF ThreadTold, Settled, Opened
<1>5. ASSUME NEW p \in Requests \ {q} PROVE CallTold(p)'
  <2>1. CASE IsIdle(p)
    BY <1>1, <2>1 DEF CallTold, IsIdle
  <2>2. CASE ~ IsIdle(p)
    <3>1. request[p].draft.thread \in Threads \ {t}
      BY <1>1, <2>2 DEF Holds, IsIdle
    <3>2. CallTold(p)
      BY DEF ToldInv
    <3> QED
      BY <1>1, <3>1, <3>2 DEF CallTold, Opened
  <2> QED
    BY <2>1, <2>2
<1> QED
  BY <1>2, <1>3, <1>4, <1>5 DEF ToldInv

\* A call under way holds its thread, and no call holds a thread that is free.
LEMMA HoldsItsThread ==
  ASSUME ToldInv, NEW q \in Requests, ~IsIdle(q)
  PROVE  /\ request[q].draft.thread \in Threads /\ request[q] \in SupportCall
         /\ request[q].draft \in Draft /\ request[q].copy \in Summary
         /\ Holds(q, request[q].draft.thread)
         /\ summary[request[q].draft.thread] # Nothing => summary[request[q].draft.thread] \in Summary
<1>1. request[q] \in SupportCall
  BY DEF ToldInv, SupportInv, SupportTypeOK
<1>2. request[q].draft \in Draft /\ request[q].copy \in Summary
  BY <1>1, CallFields DEF IsIdle
<1> QED
  BY <1>1, <1>2 DEF ToldInv, SupportInv, SupportTypeOK, Alone, Holds, Draft

\* A request that is about to begin holds a thread nobody is busy with.
LEMMA HoldsAFreeThread ==
  ASSUME NEW q \in Requests, IsIdle(q), NEW t \in Threads, t \notin Busy
  PROVE  Holds(q, t)
BY DEF Busy, Holds, IsIdle

\* A thread whose holder is not about to save it is told by its summary.
LEMMA ToldNow ==
  ASSUME ToldInv, NEW q \in Requests, NEW t \in Threads, Holds(q, t), Opened(t),
         request[q].at # "save"
  PROVE  Tells(summary[t], transcript[t], readTo[t])
<1>1. Settled(t)
  BY DEF Holds, Settled, IsIdle
<1> QED
  BY <1>1 DEF ToldInv, ThreadTold

\* The figures a told thread is read with.
LEMMA ThreadFigures ==
  ASSUME ToldInv, NEW t \in Threads
  PROVE  /\ readTo[t] \in Nat /\ transcript[t] \in Seq(Message) /\ Len(transcript[t]) \in Nat
         /\ readTo[t] <= Len(transcript[t])
         /\ summary[t] = Nothing => transcript[t] = <<>> /\ readTo[t] = 0
         /\ summary[t] # Nothing => summary[t] \in Summary
BY SupportAssumption DEF ToldInv, SupportInv, SupportTypeOK, ThreadTold, Opened

\* Taking a thread named by its id: the call's copy is what the thread says.
LEMMA PostToTold ==
  ASSUME OneAtATime, ToldInv, SupportInv', NEW q \in Requests, NEW by \in People,
         NEW t \in Threads, NEW i \in Images \cup {Nothing}, PostTo(q, by, t, i)
  PROVE  ToldInv'
<1> DEFINE r == [at |-> AfterLocate([by |-> by, thread |-> t, image |-> i]),
                 draft |-> [by |-> by, thread |-> t, image |-> i],
                 copy |-> summary[t], read |-> 0]
<1>1. /\ IsIdle(q) /\ Opened(t) /\ t \notin Busy /\ request' = [request EXCEPT ![q] = r]
      /\ UNCHANGED <<summary, transcript, image, readTo>>
  BY DEF PostTo, Become, Free
<1>2. r.at \in {"claim", "append"} /\ r.draft.thread = t /\ r.copy = summary[t]
  BY DEF AfterLocate
<1> HIDE DEF r
<1>3. Holds(q, t)
  BY <1>1, HoldsAFreeThread
<1>4. Tells(summary[t], transcript[t], readTo[t])
  BY <1>1, <1>3, ToldNow DEF IsIdle
<1>5. request'[q] = r
  BY <1>1 DEF ToldInv, SupportInv, SupportTypeOK
<1>6. CallTold(q)'
  BY <1>1, <1>2, <1>5 DEF CallTold, Opened
<1> QED
  BY <1>1, <1>2, <1>3, <1>4, <1>6, ThreadFigures, OneThreadStep

\* A message without a thread of its own opens one, or goes to the open one.
LEMMA PostUnnamedTold ==
  ASSUME OneAtATime, ToldInv, SupportInv', NEW q \in Requests, NEW i \in Images \cup {Nothing},
         PostUnnamed(q, i)
  PROVE  ToldInv'
<1>1. CASE \E t \in Threads : Opened(t) /\ summary[t].status = "open"
  BY <1>1, PostToTold DEF PostUnnamed, People
<1>2. CASE ~ \E t \in Threads : Opened(t) /\ summary[t].status = "open"
  <2> DEFINE r(t) == [at |-> "open",
                      draft |-> [by |-> "customer", thread |-> t, image |-> i],
                      copy |-> [status |-> "open", unread |-> 0], read |-> 0]
  <2>1. PICK t \in Threads : /\ ~Taken(t) /\ request' = [request EXCEPT ![q] = r(t)]
                             /\ UNCHANGED <<summary, transcript, image, readTo>>
    BY <1>2 DEF PostUnnamed, Become
  <2>2. /\ r(t).at = "open" /\ r(t).draft.thread = t
        /\ r(t).copy = [status |-> "open", unread |-> 0]
    OBVIOUS
  <2> HIDE DEF r
  <2>3. IsIdle(q) /\ Holds(q, t) /\ ~Opened(t)
    BY <2>1, HoldsAFreeThread DEF PostUnnamed, Taken
  <2>4. request'[q] = r(t)
    BY <2>1 DEF ToldInv, SupportInv, SupportTypeOK
  <2>5. CallTold(q)'
    BY <2>1, <2>2, <2>3, <2>4 DEF CallTold, Opened
  <2> QED
    BY <2>1, <2>2, <2>3, <2>5, ThreadFigures, OneThreadStep DEF Opened
<1> QED
  BY <1>1, <1>2

\* A decision holds the summary it will make true: at once, or once its note is written.
LEMMA DecideTold ==
  ASSUME OneAtATime, ToldInv, SupportInv', NEW q \in Requests, NEW t \in Threads,
         NEW action \in Actions, Decide(q, t, action)
  PROVE  ToldInv'
<1> DEFINE at == IF action \in DOMAIN Notes THEN "note" ELSE "save"
           note == IF action \in DOMAIN Notes THEN Notes[action] ELSE "none"
           read == IF action \in {"resolve", "mark-read"} THEN Len(transcript[t]) ELSE 0
           copy == Transition(summary[t], action)
           r == [at |-> at, draft |-> [by |-> "operator", thread |-> t, image |-> Nothing],
                 copy |-> copy, note |-> note, read |-> read]
<1>1. /\ IsIdle(q) /\ Opened(t) /\ t \notin Busy /\ request' = [request EXCEPT ![q] = r]
      /\ UNCHANGED <<summary, transcript, image, readTo>>
  BY DEF Decide, Become, Free
<1>2. \/ at = "note" /\ note = "claimed" /\ copy = summary[t] /\ read = 0
      \/ at = "note" /\ note = "resolved" /\ copy = Resolve(summary[t]) /\ read = Len(transcript[t])
      \/ at = "save" /\ copy = summary[t] /\ read = 0
      \/ at = "save" /\ copy = [summary[t] EXCEPT !.unread = 0] /\ read = Len(transcript[t])
  BY DEF Actions, Notes, Transition
<1>3. /\ r.at = at /\ r.draft.thread = t /\ r.copy = copy /\ r.note = note /\ r.read = read
  OBVIOUS
<1> HIDE DEF r, at, note, read, copy
<1>4. Holds(q, t)
  BY <1>1, HoldsAFreeThread
<1>5. Tells(summary[t], transcript[t], readTo[t])
  BY <1>1, <1>4, ToldNow DEF IsIdle
<1>6. request'[q] = r
  BY <1>1 DEF ToldInv, SupportInv, SupportTypeOK
<1>7. at = "save" => /\ read <= Len(transcript[t])
                     /\ Tells(copy, transcript[t], IF read = 0 THEN readTo[t] ELSE read)
  <2>1. /\ readTo[t] \in Nat /\ transcript[t] \in Seq(Message) /\ Len(transcript[t]) \in Nat
        /\ readTo[t] <= Len(transcript[t]) /\ summary[t] \in Summary
    BY <1>1, ThreadFigures DEF Opened
  <2>2. Tells([summary[t] EXCEPT !.unread = 0], transcript[t], Len(transcript[t]))
    BY <1>5, <2>1, ReadingTells
  <2>3. Len(transcript[t]) = 0 => readTo[t] = Len(transcript[t])
    BY <2>1
  <2> QED
    BY <1>2, <1>5, <2>1, <2>2, <2>3
<1>8. CallTold(q)'
  BY <1>1, <1>2, <1>3, <1>6, <1>7 DEF CallTold, Opened
<1> QED
  BY <1>1, <1>3, <1>4, <1>5, <1>8, ThreadFigures, OneThreadStep

\* A new conversation is opened as it was meant, and its claim of an image changes nothing
\* the summary is about.
LEMMA OpenOrClaimTold ==
  ASSUME ToldInv, SupportInv', NEW q \in Requests, OpenThread(q) \/ ClaimImage(q)
  PROVE  ToldInv'
<1>1. PICK t : t = request[q].draft.thread
  OBVIOUS
<1>2. /\ ~IsIdle(q) /\ request[q] \in SupportCall /\ t \in Threads /\ Holds(q, t)
      /\ request[q].at \in {"open", "claim"} /\ CallTold(q)
  BY <1>1, HoldsItsThread DEF OpenThread, ClaimImage, IsIdle, ToldInv
<1>3. ASSUME NEW r, request' = [request EXCEPT ![q] = r] PROVE request'[q] = r
  BY <1>3 DEF ToldInv, SupportInv, SupportTypeOK
<1>4. CASE OpenThread(q)
  <2>1. PICK r : r = [request[q] EXCEPT !.at = AfterLocate(request[q].draft)]
    OBVIOUS
  <2>2. /\ request' = [request EXCEPT ![q] = r] /\ request[q].at = "open"
        /\ summary' = [summary EXCEPT ![t] = request[q].copy]
        /\ UNCHANGED <<transcript, image, readTo>>
    BY <1>1, <1>4, <2>1 DEF OpenThread, Become
  <2>3. /\ r.at \in {"claim", "append"} /\ r.draft.thread = t /\ r.copy = request[q].copy
    BY <1>1, <1>2, <2>1, <2>2 DEF SupportCall, AfterLocate
  <2>4. /\ request[q].copy = [status |-> "open", unread |-> 0] /\ ~Opened(t)
    BY <1>1, <1>2, <2>2 DEF CallTold
  <2>5. /\ transcript[t] = <<>> /\ readTo[t] = 0
    BY <1>2, <2>4, ThreadFigures DEF Opened
  <2>6. /\ summary'[t] = request[q].copy
        /\ \A u \in Threads \ {t} : summary'[u] = summary[u]
    BY <1>2, <2>2 DEF ToldInv, SupportInv, SupportTypeOK
  <2>7. summary'[t] # Nothing
    <3>1. request[q].copy \in Summary
      BY <1>2, CallFields DEF IsIdle
    <3> QED
      BY <2>6, <3>1, NoRowOfSupport
  <2>8. CallTold(q)'
    BY <1>3, <2>2, <2>3, <2>6, <2>7 DEF CallTold, Opened
  <2>9. Tells(summary'[t], transcript'[t], readTo'[t])
    BY <2>2, <2>4, <2>5, <2>6, EmptyTells
  <2> QED
    BY <1>2, <2>2, <2>3, <2>5, <2>6, <2>7, <2>8, <2>9, ThreadFigures, OneThreadStep
<1>5. CASE ClaimImage(q)
  <2>1. PICK r : /\ request' = [request EXCEPT ![q] = r]
                 /\ r = [request[q] EXCEPT !.at = "append"] \/ r.at = "idle"
    BY <1>5 DEF ClaimImage, Finish, Become
  <2>2. /\ request[q].at = "claim" /\ UNCHANGED <<summary, transcript, readTo>>
    BY <1>5 DEF ClaimImage
  <2>3. r.at = "idle" \/ (r.at = "append" /\ r.draft.thread = t /\ r.copy = request[q].copy)
    BY <1>1, <1>2, <2>1, <2>2 DEF SupportCall
  <2>4. request[q].copy = summary[t] /\ Opened(t)
    BY <1>1, <1>2, <2>2 DEF CallTold
  <2>5. Tells(summary[t], transcript[t], readTo[t])
    BY <1>2, <2>2, <2>4, ToldNow
  <2>6. CallTold(q)'
    BY <1>3, <2>1, <2>2, <2>3, <2>4 DEF CallTold, Opened
  <2> QED
    BY <1>2, <2>1, <2>2, <2>3, <2>5, <2>6, ThreadFigures, OneThreadStep
<1> QED
  BY <1>4, <1>5

\* A message is written, or a note, and the copy of the summary follows it.
LEMMA WriteTold ==
  ASSUME ToldInv, SupportInv', NEW q \in Requests, AppendMessage(q) \/ AppendNote(q)
  PROVE  ToldInv'
<1>1. PICK t : t = request[q].draft.thread
  OBVIOUS
<1>2. /\ ~IsIdle(q) /\ request[q] \in SupportCall /\ request[q].draft \in Draft
      /\ t \in Threads /\ Holds(q, t)
      /\ request[q].at \in {"append", "note"} /\ CallTold(q)
  BY <1>1, HoldsItsThread DEF AppendMessage, AppendNote, IsIdle, ToldInv
<1>3. PICK m \in Message :
        /\ transcript' = [transcript EXCEPT ![t] = Append(@, m)]
        /\ Become(q, [request[q] EXCEPT !.at = "save", !.copy = RecordMessage(@, m.author)])
        /\ UNCHANGED <<summary, image, readTo>>
        /\ request[q].at = "append" => m.author \in People
        /\ request[q].at = "note" => m.author = request[q].note
  <2>1. CASE AppendMessage(q)
    <3> DEFINE m == [author |-> request[q].draft.by, image |-> request[q].draft.image]
    <3>1. m \in Message /\ m.author = request[q].draft.by /\ m.author \in People
      BY <1>2 DEF Message, Draft
    <3>2. /\ transcript' = [transcript EXCEPT ![t] = Append(@, m)] /\ request[q].at = "append"
          /\ Become(q, [request[q] EXCEPT !.at = "save", !.copy = RecordMessage(@, request[q].draft.by)])
          /\ UNCHANGED <<summary, image, readTo>>
      BY <1>1, <2>1 DEF AppendMessage
    <3> HIDE DEF m
    <3> QED
      BY <3>1, <3>2
  <2>2. CASE AppendNote(q)
    <3> DEFINE m == [author |-> request[q].note, image |-> Nothing]
    <3>1. request[q].at = "note"
      BY <2>2 DEF AppendNote
    <3>2. request[q].note \in {"claimed", "resolved"}
      BY <1>2, <3>1, CallFields
    <3>3. m \in Message /\ m.author = request[q].note
      BY <3>2 DEF Message
    <3>4. /\ transcript' = [transcript EXCEPT ![t] = Append(@, m)]
          /\ Become(q, [request[q] EXCEPT !.at = "save", !.copy = RecordMessage(@, request[q].note)])
          /\ UNCHANGED <<summary, image, readTo>>
      BY <1>1, <2>2 DEF AppendNote
    <3> HIDE DEF m
    <3> QED
      BY <3>1, <3>3, <3>4
  <2> QED
    BY <2>1, <2>2
<1>4. PICK s : s = RecordMessage(request[q].copy, m.author)
  OBVIOUS
<1>5. PICK r : r = [request[q] EXCEPT !.at = "save", !.copy = s]
  OBVIOUS
<1>6. request' = [request EXCEPT ![q] = r] /\ request'[q] = r
  BY <1>3, <1>4, <1>5 DEF Become, ToldInv, SupportInv, SupportTypeOK
<1>7. r.at = "save" /\ r.draft.thread = t /\ r.copy = s /\ r.read = request[q].read
  BY <1>1, <1>2, <1>5 DEF SupportCall
<1>8. /\ readTo[t] \in Nat /\ transcript[t] \in Seq(Message) /\ Len(transcript[t]) \in Nat
      /\ readTo[t] <= Len(transcript[t]) /\ summary[t] \in Summary /\ Opened(t)
  BY <1>1, <1>2, ThreadFigures DEF CallTold, Opened
<1>9. /\ transcript'[t] = Append(transcript[t], m)
      /\ Len(transcript'[t]) = Len(transcript[t]) + 1
      /\ \A u \in Threads \ {t} : transcript'[u] = transcript[u]
  BY <1>2, <1>3, <1>8 DEF ToldInv, SupportInv, SupportTypeOK
<1>10. Tells(summary[t], transcript[t], readTo[t])
  BY <1>2, <1>8, ToldNow
<1>11. /\ request[q].read <= Len(transcript'[t])
       /\ Tells(s, transcript'[t], IF request[q].read = 0 THEN readTo[t] ELSE request[q].read)
  <2>1. CASE request[q].read = 0 /\ request[q].copy = summary[t] /\ m.author # "resolved"
    BY <1>4, <1>8, <1>9, <1>10, <2>1, RecordedTells
  <2>2. CASE /\ request[q].read = Len(transcript[t]) /\ request[q].copy = Resolve(summary[t])
             /\ m.author = "resolved"
    <3>1. Tells(s, transcript'[t], Len(transcript[t]))
      BY <1>4, <1>8, <1>9, <2>2, RecordedTells
    <3>2. Len(transcript[t]) = 0 => readTo[t] = 0
      BY <1>8
    <3> QED
      BY <1>8, <1>9, <2>2, <3>1, <3>2
  <2>3. CASE request[q].at = "append"
    BY <1>1, <1>2, <1>3, <2>1, <2>3 DEF CallTold, SupportCall, People
  <2>4. CASE request[q].at = "note"
    BY <1>1, <1>2, <1>3, <2>1, <2>2, <2>4 DEF CallTold
  <2> QED
    BY <1>2, <2>3, <2>4
<1>12. CallTold(q)'
  BY <1>3, <1>6, <1>7, <1>8, <1>11 DEF CallTold, Opened
<1>13. readTo'[t] <= Len(transcript'[t]) /\ summary'[t] # Nothing
  BY <1>3, <1>8, <1>9 DEF Opened
<1> QED
  BY <1>2, <1>3, <1>6, <1>7, <1>9, <1>12, <1>13, OneThreadStep

\* The save makes the summary true, and a call that stops before it had not touched it.
LEMMA EndTold ==
  ASSUME ~ StopsAnywhere, ToldInv, SupportInv', NEW q \in Requests,
         SaveSummary(q) \/ StopRequest(q)
  PROVE  ToldInv'
<1>1. PICK t : t = request[q].draft.thread
  OBVIOUS
<1>2. /\ ~IsIdle(q) /\ request[q] \in SupportCall /\ t \in Threads /\ Holds(q, t) /\ CallTold(q)
      /\ request[q].copy \in Summary /\ request[q].read \in Nat
  <2>1. ~IsIdle(q) /\ CallTold(q)
    BY DEF SaveSummary, StopRequest, IsIdle, ToldInv
  <2>2. request[q] \in SupportCall
    BY <2>1, HoldsItsThread
  <2>3. request[q].read \in Nat
    BY <2>1, <2>2, CallFields, SupportAssumption DEF IsIdle
  <2> QED
    BY <1>1, <2>1, <2>3, HoldsItsThread
<1>3. PICK r : r.at = "idle" /\ request' = [request EXCEPT ![q] = r]
  BY DEF SaveSummary, StopRequest, Finish, Become
<1>4. request'[q] = r
  BY <1>3 DEF ToldInv, SupportInv, SupportTypeOK
<1>5. CallTold(q)'
  BY <1>3, <1>4 DEF CallTold
<1>6. CASE SaveSummary(q)
  <2>1. /\ request[q].at = "save" /\ transcript' = transcript
        /\ summary' = [summary EXCEPT ![t] = request[q].copy]
        /\ readTo' = IF request[q].read = 0 THEN readTo
                     ELSE [readTo EXCEPT ![t] = request[q].read]
    BY <1>1, <1>6 DEF SaveSummary
  <2>2. /\ summary'[t] = request[q].copy
        /\ readTo'[t] = IF request[q].read = 0 THEN readTo[t] ELSE request[q].read
        /\ \A u \in Threads \ {t} : summary'[u] = summary[u] /\ readTo'[u] = readTo[u]
    BY <1>2, <2>1 DEF ToldInv, SupportInv, SupportTypeOK
  <2>3. /\ request[q].read <= Len(transcript[t])
        /\ Tells(summary'[t], transcript'[t], readTo'[t])
    BY <1>1, <1>2, <2>1, <2>2 DEF CallTold
  <2>4. readTo'[t] <= Len(transcript'[t])
    BY <1>2, <2>1, <2>2, <2>3, ThreadFigures
  <2>5. summary'[t] # Nothing
    BY <1>2, <2>2, NoRowOfSupport
  <2> QED
    BY <1>2, <1>3, <1>5, <2>1, <2>2, <2>3, <2>4, <2>5, OneThreadStep
<1>7. CASE StopRequest(q)
  <2>1. request[q].at # "save" /\ UNCHANGED <<summary, transcript, image, readTo>>
    BY <1>7 DEF StopRequest
  <2>2. summary[t] # Nothing => Tells(summary[t], transcript[t], readTo[t])
    BY <1>2, <2>1, ToldNow DEF Opened
  <2> QED
    BY <1>2, <1>3, <1>5, <2>1, <2>2, ThreadFigures, OneThreadStep
<1> QED
  BY <1>6, <1>7

\* No step of a request breaks what the summaries tell.
LEMMA ToldInvStep ==
  ASSUME OneAtATime, ~ StopsAnywhere
  PROVE  ToldInv /\ [SupportNext]_supportVars => ToldInv'
<1> SUFFICES ASSUME ToldInv, [SupportNext]_supportVars PROVE ToldInv'
  OBVIOUS
<1>1. SupportInv'
  BY SupportInvStep DEF ToldInv
<1>2. CASE UNCHANGED <<summary, transcript, request, readTo>>
  BY <1>1, <1>2 DEF ToldInv, Alone, ThreadTold, CallTold, Settled, Opened, IsIdle
<1> QED
  BY <1>1, <1>2, PostToTold, PostUnnamedTold, DecideTold, OpenOrClaimTold, WriteTold, EndTold
  DEF SupportNext, Upload, supportVars

\* As long as one call at a time has a thread in hand and none stops between its message and
\* its save, a conversation reads as resolved exactly when nothing the customer wrote came
\* after the last resolution, and its badge counts exactly the customer's messages nobody
\* has read; calls that stop before the message, claims and priorities leave both alone.
THEOREM SummariesTellTranscripts ==
  ASSUME OneAtATime, ~ StopsAnywhere
  PROVE  SupportSpec => []SummaryTellsTranscript
<1>1. SupportInit => ToldInv
  BY SupportInvInit, NoRowOfSupport
  DEF SupportInit, ToldInv, Alone, ThreadTold, CallTold, Settled, Opened, IsIdle
<1>2. ToldInv => SummaryTellsTranscript
  <2> SUFFICES ASSUME ToldInv, NEW t \in Threads, Settled(t)
               PROVE  /\ summary[t].status = "resolved" <=>
                           \E k \in DOMAIN transcript[t] :
                             /\ Wrote(t, k, "resolved")
                             /\ \A l \in (k + 1)..Len(transcript[t]) : ~Wrote(t, l, "customer")
                      /\ summary[t].unread =
                           Cardinality({k \in (readTo[t] + 1)..Len(transcript[t]) : Wrote(t, k, "customer")})
    BY DEF SummaryTellsTranscript
  <2> QED
    BY DEF ToldInv, ThreadTold, Tells, LastResolved, Unheard, Wrote
<1> QED
  BY <1>1, <1>2, ToldInvStep, PTL DEF SupportSpec

----------------------------------------------------------------------------
(* The least of a set of numbers *)

\* Every non-empty set of natural numbers has a least element: the ground of the
\* inductions below, each of them on a least counterexample.
LEMMA NatLeast ==
  ASSUME NEW T \in SUBSET Nat, T # {}
  PROVE \E m \in T : \A k \in T : m <= k
<1> DEFINE R == OpToRel(<, Nat)
<1>1. IsWellFoundedOn(R, Nat)
  BY NatLessThanWellFounded
<1>2. \E x \in T : \A y \in T : ~ (<<y, x>> \in R)
  <2> HIDE DEF R
  <2> QED BY <1>1, WFMin
<1>3. PICK m \in T : \A y \in T : ~ (<<y, m>> \in R)
  BY <1>2
<1>4. \A y \in T : <<y, m>> \in R <=> y < m
  BY DEF OpToRel
<1> HIDE DEF R
<1>5. m \in Nat /\ \A y \in T : y \in Nat /\ ~ (y < m)
  BY <1>3, <1>4
<1> QED
  BY <1>5

----------------------------------------------------------------------------
(* The support widget *)

\* Bubbles are numbered as they were sent; what waits or is under way is in the same order
\* and has its bubble, which has not adopted a message yet.
BubblesInOrder ==
  /\ \A k, l \in DOMAIN pending : k < l => pending[k].number < pending[l].number
  /\ \A k \in DOMAIN pending : pending[k].number <= sends
QueueInOrder ==
  /\ \A k, l \in DOMAIN queue : k < l => queue[k] < queue[l]
  /\ \A k \in DOMAIN queue :
       /\ queue[k] <= sends
       /\ \E l \in DOMAIN pending : pending[l].number = queue[k]

\* A text the server has stored since the page was opened.
IsStored(text) == \E k \in 2..LastStored : stored[k] = text

\* What has been answered was asked for, and what was created is the last message.
AnswersTheHead ==
  posted # "waiting" => /\ queue # <<>>
                        /\ posted = "created" => LastStored >= 2 /\ stored[LastStored] = TextOf(Head(queue))

\* A bubble adopts a message of its own text.
AdoptedIsStored ==
  \A k \in DOMAIN pending : pending[k].adopted # 0 => IsStored(pending[k].text)

\* A text that is owed is in the box, with the server, or in a bubble with no message.
OwedIsSomewhere ==
  \A text \in owed :
    \/ box = text \/ IsStored(text)
    \/ \E k \in DOMAIN pending : pending[k].text = text /\ pending[k].adopted = 0

WidgetInv ==
  /\ WidgetTypeOK /\ stored # <<>> /\ BubblesInOrder /\ QueueInOrder /\ AnswersTheHead
  /\ AdoptedIsStored /\ OwedIsSomewhere

LEMMA WidgetInvInit == WidgetInit => WidgetInv
<1> SUFFICES ASSUME WidgetInit PROVE WidgetInv
  OBVIOUS
<1>1. (CHOOSE text \in Texts : TRUE) \in Texts
  BY WidgetAssumption
<1>2. WidgetTypeOK
  BY <1>1, WidgetAssumption DEF WidgetInit, WidgetTypeOK, Outcomes, LastStored
<1> QED
  BY <1>2 DEF WidgetInit, WidgetInv, BubblesInOrder, QueueInOrder, AnswersTheHead, AdoptedIsStored,
       OwedIsSomewhere

\* A bubble has a number, a text and the message it adopted.
LEMMA BubbleFields ==
  ASSUME WidgetTypeOK
  PROVE  /\ DOMAIN pending = 1..Len(pending) /\ Len(pending) \in Nat
         /\ \A k \in DOMAIN pending :
              /\ pending[k] \in Bubble /\ pending[k].number \in 1..MaxSends /\ pending[k].number \in Nat
              /\ pending[k].text \in Texts /\ pending[k].adopted \in Nat
<1>1. pending \in Seq(Bubble)
  BY DEF WidgetTypeOK
<1>2. \A k \in DOMAIN pending : pending[k] \in Bubble
  BY <1>1, LenProperties, ElementOfSeq
<1>3. \A b \in Bubble : /\ b.number \in 1..MaxSends /\ b.text \in Texts /\ b.adopted \in Nat
  BY DEF Bubble
<1>4. \A k \in 1..MaxSends : k \in Nat
  BY WidgetAssumption
<1> QED
  BY <1>1, <1>2, <1>3, <1>4, LenProperties

\* Every send that waits has one bubble.
LEMMA PlaceOfBubble ==
  ASSUME WidgetInv, NEW k \in DOMAIN pending
  PROVE  PlaceOf(pending[k].number) = k
<1>1. DOMAIN pending = 1..Len(pending) /\ Len(pending) \in Nat
  BY LenProperties DEF WidgetInv, WidgetTypeOK
<1>2. \A l \in DOMAIN pending : pending[l] \in Bubble /\ pending[l].number \in Nat
  BY BubbleFields DEF WidgetInv
<1>3. \A l \in DOMAIN pending : pending[l].number = pending[k].number => l = k
  BY <1>1, <1>2 DEF WidgetInv, BubblesInOrder
<1> QED
  BY <1>3 DEF PlaceOf

LEMMA HeadHasItsBubble ==
  ASSUME WidgetInv, queue # <<>>
  PROVE  /\ Head(queue) = queue[1] /\ 1 \in DOMAIN queue
         /\ PlaceOf(Head(queue)) \in DOMAIN pending
         /\ pending[PlaceOf(Head(queue))].number = Head(queue)
         /\ TextOf(Head(queue)) \in Texts
<1>1. Head(queue) = queue[1] /\ 1 \in DOMAIN queue
  BY EmptySeq, LenProperties DEF WidgetInv, WidgetTypeOK
<1>2. PICK l \in DOMAIN pending : pending[l].number = Head(queue)
  BY <1>1 DEF WidgetInv, QueueInOrder
<1>3. PlaceOf(Head(queue)) = l
  BY <1>2, PlaceOfBubble
<1>4. pending[l] \in Bubble
  BY ElementOfSeq, LenProperties DEF WidgetInv, WidgetTypeOK
<1> QED
  BY <1>1, <1>2, <1>3, <1>4 DEF TextOf, Bubble

\* What is left when the bubble of the head goes: every other one, in order.
LEMMA WithoutTheHead ==
  ASSUME WidgetInv, queue # <<>>
  PROVE  LET p == PlaceOf(Head(queue))
             rest == Without(Head(queue))
         IN  /\ rest \in Seq(Bubble) /\ Len(rest) = Len(pending) - 1
             /\ DOMAIN rest = 1..(Len(pending) - 1)
             /\ \A k \in DOMAIN rest : rest[k] = IF k < p THEN pending[k] ELSE pending[k + 1]
<1> DEFINE p == PlaceOf(Head(queue))
           n == Len(pending)
           front == SubSeq(pending, 1, p - 1)
           back == SubSeq(pending, p + 1, n)
<1>1. n \in Nat /\ DOMAIN pending = 1..n /\ p \in 1..n
  BY HeadHasItsBubble, LenProperties DEF WidgetInv, WidgetTypeOK
<1>2. \A i \in 1..n : pending[i] \in Bubble
  BY ElementOfSeq DEF WidgetInv, WidgetTypeOK
<1> HIDE DEF p, n
<1>3. /\ front \in Seq(Bubble) /\ Len(front) = p - 1
      /\ \A i \in 1..(p - 1) : front[i] = pending[i]
  <2>1. \A i \in 1..(p - 1) : pending[i] \in Bubble
    BY <1>1, <1>2
  <2>2. 1 \in Int /\ p - 1 \in Int
    BY <1>1
  <2>3. /\ front \in Seq(Bubble)
        /\ Len(front) = IF 1 <= p - 1 THEN (p - 1) - 1 + 1 ELSE 0
        /\ \A i \in 1..((p - 1) - 1 + 1) : front[i] = pending[1 + i - 1]
    BY <2>1, <2>2, SubSeqProperties
  <2> QED
    BY <2>3, <1>1
<1>4. /\ back \in Seq(Bubble) /\ Len(back) = n - p
      /\ \A i \in 1..(n - p) : back[i] = pending[p + i]
  <2>1. \A i \in (p + 1)..n : pending[i] \in Bubble
    BY <1>1, <1>2
  <2>2. p + 1 \in Int /\ n \in Int
    BY <1>1
  <2>3. /\ back \in Seq(Bubble)
        /\ Len(back) = IF p + 1 <= n THEN n - (p + 1) + 1 ELSE 0
        /\ \A i \in 1..(n - (p + 1) + 1) : back[i] = pending[(p + 1) + i - 1]
    BY <2>1, <2>2, SubSeqProperties
  <2> QED
    BY <2>3, <1>1
<1> HIDE DEF front, back
<1>5. /\ front \o back \in Seq(Bubble) /\ Len(front \o back) = n - 1
      /\ \A i \in 1..(n - 1) : (front \o back)[i] = IF i <= p - 1 THEN front[i] ELSE back[i - (p - 1)]
  <2>1. /\ front \o back \in Seq(Bubble) /\ Len(front \o back) = Len(front) + Len(back)
        /\ \A i \in 1..(Len(front) + Len(back)) :
             (front \o back)[i] = IF i <= Len(front) THEN front[i] ELSE back[i - Len(front)]
    BY <1>3, <1>4, ConcatProperties
  <2>2. (p - 1) + (n - p) = n - 1
    BY <1>1
  <2> QED
    BY <2>1, <2>2, <1>3, <1>4
<1>6. \A i \in 1..(n - 1) : (front \o back)[i] = IF i < p THEN pending[i] ELSE pending[i + 1]
  <2> TAKE i \in 1..(n - 1)
  <2>1. CASE i < p
    BY <2>1, <1>1, <1>3, <1>5
  <2>2. CASE ~ (i < p)
    <3>1. i - (p - 1) \in 1..(n - p) /\ p + (i - (p - 1)) = i + 1 /\ ~ (i <= p - 1)
      BY <2>2, <1>1
    <3> QED
      BY <3>1, <2>2, <1>4, <1>5
  <2> QED
    BY <2>1, <2>2
<1>7. Without(Head(queue)) = front \o back
  BY DEF Without, RemoveAt, front, back, p, n
<1>8. DOMAIN (front \o back) = 1..(n - 1)
  BY <1>5, LenProperties
<1> QED
  BY <1>5, <1>6, <1>7, <1>8 DEF p, n

\* The bubbles that are left are the others, in the order they had.
LEMMA WithoutKeepsOrder ==
  ASSUME WidgetInv, queue # <<>>
  PROVE  LET p == PlaceOf(Head(queue))
             rest == Without(Head(queue))
         IN  /\ \A k \in DOMAIN rest : \E l \in DOMAIN pending : rest[k] = pending[l]
             /\ \A l \in DOMAIN pending \ {p} : \E k \in DOMAIN rest : rest[k] = pending[l]
             /\ \A k, l \in DOMAIN rest : k < l => rest[k].number < rest[l].number
<1> DEFINE p == PlaceOf(Head(queue))
           n == Len(pending)
           rest == Without(Head(queue))
<1>1. n \in Nat /\ DOMAIN pending = 1..n /\ p \in 1..n
  BY HeadHasItsBubble, LenProperties DEF WidgetInv, WidgetTypeOK
<1>2. /\ DOMAIN rest = 1..(n - 1)
      /\ \A k \in DOMAIN rest : rest[k] = IF k < p THEN pending[k] ELSE pending[k + 1]
  BY WithoutTheHead
<1>3. \A k, l \in DOMAIN pending : k < l => pending[k].number < pending[l].number
  BY DEF WidgetInv, BubblesInOrder
<1> HIDE DEF p, n, rest
<1>4. \A k \in DOMAIN rest : \E l \in DOMAIN pending : rest[k] = pending[l]
  BY <1>1, <1>2
<1>5. ASSUME NEW l \in DOMAIN pending \ {p}
      PROVE  \E k \in DOMAIN rest : rest[k] = pending[l]
  <2>1. CASE l < p
    <3>1. l \in DOMAIN rest /\ rest[l] = pending[l]
      BY <2>1, <1>1, <1>2
    <3> QED
      BY <3>1
  <2>2. CASE l > p
    <3>1. l - 1 \in DOMAIN rest /\ rest[l - 1] = pending[l]
      BY <2>2, <1>1, <1>2
    <3> QED
      BY <3>1
  <2> QED
    BY <2>1, <2>2, <1>1
<1>6. \A k, l \in DOMAIN rest : k < l => rest[k].number < rest[l].number
  BY <1>1, <1>2, <1>3
<1> QED
  BY <1>4, <1>5, <1>6 DEF p, rest

\* The queue goes on to the next send, which still has its bubble.
LEMMA QueueGoesOn ==
  ASSUME WidgetInv, queue # <<>>, queue' = Tail(queue), sends' = sends,
         \A l \in DOMAIN pending : pending[l].number # Head(queue) =>
           \E k \in DOMAIN pending' : pending'[k].number = pending[l].number
  PROVE  QueueInOrder' /\ queue' \in Seq(1..MaxSends)
<1>1. /\ queue' \in Seq(1..MaxSends) /\ Len(queue') = Len(queue) - 1
      /\ \A i \in 1..Len(queue') : queue'[i] = queue[i + 1]
      /\ Len(queue) \in Nat /\ DOMAIN queue = 1..Len(queue) /\ DOMAIN queue' = 1..Len(queue')
      /\ \A i \in DOMAIN queue : queue[i] \in Nat
      /\ Head(queue) = queue[1] /\ 1 \in DOMAIN queue
  <2>1. queue \in Seq(1..MaxSends)
    BY DEF WidgetInv, WidgetTypeOK
  <2>2. /\ queue' \in Seq(1..MaxSends) /\ Len(queue') = Len(queue) - 1
        /\ \A i \in 1..Len(queue') : queue'[i] = queue[i + 1]
    BY <2>1, HeadTailProperties
  <2>3. \A i \in DOMAIN queue : queue[i] \in 1..MaxSends
    BY <2>1, ElementOfSeq, LenProperties
  <2> QED
    BY <2>1, <2>2, <2>3, LenProperties, HeadHasItsBubble
<1>2. ASSUME NEW i \in DOMAIN queue'
      PROVE  /\ i + 1 \in DOMAIN queue /\ queue'[i] = queue[i + 1] /\ queue[i + 1] # Head(queue)
             /\ queue[i + 1] <= sends
  BY <1>1 DEF WidgetInv, QueueInOrder
<1>3. ASSUME NEW i \in DOMAIN queue'
      PROVE  \E k \in DOMAIN pending' : pending'[k].number = queue'[i]
  <2>1. PICK l \in DOMAIN pending : pending[l].number = queue[i + 1]
    BY <1>2 DEF WidgetInv, QueueInOrder
  <2> QED
    BY <2>1, <1>2
<1>4. \A i, j \in DOMAIN queue' : i < j => queue'[i] < queue'[j]
  BY <1>1, <1>2 DEF WidgetInv, QueueInOrder
<1> QED
  BY <1>1, <1>2, <1>3, <1>4 DEF QueueInOrder

\* The customer types: what was in the box may be forgotten.
LEMMA TypeKeeps ==
  ASSUME WidgetInv, NEW text \in Texts \cup {Empty}, Type(text)
  PROVE  WidgetInv'
<1>1. WidgetTypeOK'
  BY DEF WidgetInv, WidgetTypeOK, Type, LastStored
<1>2. OwedIsSomewhere'
  BY DEF WidgetInv, OwedIsSomewhere, Type, IsStored, LastStored
<1> QED
  BY <1>1, <1>2 DEF WidgetInv, Type, BubblesInOrder, QueueInOrder, AnswersTheHead, AdoptedIsStored,
    IsStored, LastStored, TextOf, PlaceOf

\* Enter: the text leaves the box for a new bubble at the end.
LEMMA SendKeeps == WidgetInv /\ Send => WidgetInv'
<1> SUFFICES ASSUME WidgetInv, Send PROVE WidgetInv'
  OBVIOUS
<1> DEFINE b == [number |-> sends + 1, text |-> box, adopted |-> 0]
           n == Len(pending)
           m == Len(queue)
<1>1. /\ sends \in Nat /\ sends + 1 \in 1..MaxSends /\ b \in Bubble /\ sends' = sends + 1
      /\ MaxSends \in Nat
  BY WidgetAssumption DEF Send, WidgetInv, WidgetTypeOK, Bubble
<1>2. /\ pending' \in Seq(Bubble) /\ Len(pending') = n + 1 /\ n \in Nat
      /\ DOMAIN pending = 1..n /\ DOMAIN pending' = 1..(n + 1)
      /\ \A k \in 1..n : pending'[k] = pending[k]
      /\ pending'[n + 1] = b
  <2>1. pending \in Seq(Bubble) /\ pending' = Append(pending, b)
    BY <1>1 DEF Send, WidgetInv, WidgetTypeOK
  <2> HIDE DEF b
  <2> QED
    BY <2>1, <1>1, AppendProperties, LenProperties
<1>3. /\ queue' \in Seq(1..MaxSends) /\ Len(queue') = m + 1 /\ m \in Nat
      /\ DOMAIN queue = 1..m /\ DOMAIN queue' = 1..(m + 1)
      /\ \A k \in 1..m : queue'[k] = queue[k] /\ queue[k] \in Nat
      /\ queue'[m + 1] = sends + 1
  <2>1. queue \in Seq(1..MaxSends) /\ queue' = Append(queue, sends + 1)
    BY <1>1 DEF Send, WidgetInv, WidgetTypeOK
  <2>2. \A k \in 1..m : queue[k] \in 1..MaxSends
    BY <2>1, ElementOfSeq
  <2> QED
    BY <2>1, <2>2, <1>1, AppendProperties, LenProperties
<1>4. /\ posted' = posted /\ stored' = stored /\ seen' = seen
      /\ box' = Empty /\ owed' = owed \cup {box} /\ box \in Texts
  BY DEF Send, WidgetInv, WidgetTypeOK
<1>5. b.number = sends + 1 /\ b.text = box /\ b.adopted = 0
  OBVIOUS
<1> HIDE DEF b, n, m
<1>6. WidgetTypeOK'
  BY <1>1, <1>2, <1>3, <1>4 DEF WidgetInv, WidgetTypeOK, LastStored
<1>7. BubblesInOrder'
  <2>1. \A k \in 1..n : pending[k].number <= sends /\ pending[k].number \in Nat
    BY <1>2, BubbleFields DEF WidgetInv, BubblesInOrder
  <2>2. \A k \in 1..(n + 1) :
          \/ k = n + 1 /\ pending'[k].number = sends + 1
          \/ k \in 1..n /\ pending'[k].number = pending[k].number
    BY <1>2, <1>5
  <2>3. \A k \in 1..(n + 1) : pending'[k].number <= sends'
    <3> TAKE k \in 1..(n + 1)
    <3>1. CASE k = n + 1 /\ pending'[k].number = sends + 1
      BY <3>1, <1>1
    <3>2. CASE k \in 1..n /\ pending'[k].number = pending[k].number
      <4>1. pending[k].number <= sends /\ pending[k].number \in Nat
        BY <3>2, <2>1
      <4> QED
        BY <4>1, <3>2, <1>1
    <3> QED
      BY <3>1, <3>2, <2>2
  <2>4. \A k, l \in 1..(n + 1) : k < l => pending'[k].number < pending'[l].number
    <3> SUFFICES ASSUME NEW k \in 1..(n + 1), NEW l \in 1..(n + 1), k < l
                 PROVE  pending'[k].number < pending'[l].number
      OBVIOUS
    <3>1. k \in 1..n
      BY <1>2
    <3>2. pending'[k].number = pending[k].number /\ pending[k].number <= sends /\ pending[k].number \in Nat
      BY <3>1, <2>1, <2>2, <1>2
    <3>3. CASE l = n + 1
      BY <3>2, <3>3, <2>2, <1>1, <1>2
    <3>4. CASE l \in 1..n
      <4>1. pending[k].number < pending[l].number
        BY <3>1, <3>4, <1>2 DEF WidgetInv, BubblesInOrder
      <4> QED
        BY <4>1, <3>2, <3>4, <1>2
    <3> QED
      BY <3>3, <3>4, <1>2
  <2> QED
    BY <2>3, <2>4, <1>2 DEF BubblesInOrder
<1>8. QueueInOrder'
  <2>1. \A k \in 1..m : queue[k] <= sends /\ \E l \in 1..n : pending[l].number = queue[k]
    BY <1>2, <1>3 DEF WidgetInv, QueueInOrder
  <2>2. \A k \in 1..(m + 1) : queue'[k] <= sends + 1
    <3> TAKE k \in 1..(m + 1)
    <3>1. CASE k = m + 1
      BY <3>1, <1>1, <1>3
    <3>2. CASE k \in 1..m
      <4>1. queue'[k] = queue[k] /\ queue[k] \in Nat /\ queue[k] <= sends
        BY <3>2, <2>1, <1>3
      <4> QED
        BY <4>1, <1>1
    <3> QED
      BY <3>1, <3>2, <1>3
  <2>3. \A k \in 1..(m + 1) : \E l \in 1..(n + 1) : pending'[l].number = queue'[k]
    <3> TAKE k \in 1..(m + 1)
    <3>1. CASE k = m + 1
      <4>1. n + 1 \in 1..(n + 1)
        BY <1>2
      <4> QED
        BY <4>1, <3>1, <1>2, <1>3, <1>5
    <3>2. CASE k # m + 1
      <4>1. k \in 1..m
        BY <3>2, <1>3
      <4>2. PICK l \in 1..n : pending[l].number = queue[k]
        BY <4>1, <2>1
      <4>3. l \in 1..(n + 1) /\ pending'[l].number = queue'[k]
        BY <4>1, <4>2, <1>2, <1>3
      <4> QED
        BY <4>3
    <3> QED
      BY <3>1, <3>2
  <2>4. \A k, l \in 1..(m + 1) : k < l => queue'[k] < queue'[l]
    <3> TAKE k, l \in 1..(m + 1)
    <3>1. CASE l = m + 1 /\ k < l
      <4>1. k \in 1..m
        BY <3>1, <1>3
      <4>2. queue'[k] = queue[k] /\ queue[k] \in Nat /\ queue[k] <= sends
        BY <4>1, <2>1, <1>3
      <4>3. queue'[l] = sends + 1
        BY <3>1, <1>3
      <4> QED
        BY <4>2, <4>3, <1>1
    <3>2. CASE l # m + 1 /\ k < l
      <4>1. k \in 1..m /\ l \in 1..m
        BY <3>2, <1>3
      <4> QED
        BY <4>1, <1>3 DEF WidgetInv, QueueInOrder
    <3> QED
      BY <3>1, <3>2
  <2> QED
    BY <2>2, <2>3, <2>4, <1>1, <1>2, <1>3 DEF QueueInOrder
<1>9. AnswersTheHead'
  <2> SUFFICES ASSUME posted # "waiting"
               PROVE  AnswersTheHead'
    BY <1>4 DEF AnswersTheHead
  <2>1. queue # <<>>
    BY DEF WidgetInv, AnswersTheHead
  <2>2. Head(queue) = queue[1] /\ 1 \in 1..m
    BY <2>1, <1>3, HeadHasItsBubble
  <2>3. queue' # <<>> /\ Head(queue') = queue'[1] /\ queue'[1] = queue[1]
    BY <2>2, <1>3, EmptySeq
  <2> DEFINE p == PlaceOf(Head(queue))
  <2>4. p \in 1..n /\ pending[p].number = Head(queue)
    BY <2>1, <1>2, HeadHasItsBubble
  <2>5. \A l \in 1..(n + 1) : pending'[l].number = queue[1] => l = p
    <3>1. \A l \in 1..n : pending[l].number = queue[1] => l = p
      BY <2>2, <1>2, PlaceOfBubble
    <3>2. pending'[n + 1].number # queue[1]
      BY <2>2, <1>1, <1>2, <1>3, <1>5 DEF WidgetInv, QueueInOrder
    <3> QED
      BY <3>1, <3>2, <1>2
  <2>6. PlaceOf(Head(queue))' = p
    <3>1. p \in DOMAIN pending' /\ pending'[p].number = Head(queue')
      BY <2>2, <2>3, <2>4, <1>2
    <3> HIDE DEF p
    <3> QED
      BY <3>1, <2>3, <2>5, <1>2 DEF PlaceOf
  <2>7. TextOf(Head(queue))' = TextOf(Head(queue))
    BY <2>4, <2>6, <1>2 DEF TextOf
  <2> QED
    BY <2>3, <2>7, <1>4 DEF WidgetInv, AnswersTheHead, LastStored
<1>10. AdoptedIsStored'
  BY <1>2, <1>4, <1>5 DEF WidgetInv, AdoptedIsStored, IsStored, LastStored
<1>11. OwedIsSomewhere'
  <2> SUFFICES ASSUME NEW text \in owed'
               PROVE  \/ IsStored(text)'
                      \/ \E k \in DOMAIN pending' : pending'[k].text = text /\ pending'[k].adopted = 0
    BY DEF OwedIsSomewhere
  <2>1. CASE text = box
    <3>1. n + 1 \in DOMAIN pending' /\ pending'[n + 1].text = text /\ pending'[n + 1].adopted = 0
      BY <2>1, <1>2, <1>5
    <3> QED
      BY <3>1
  <2>2. CASE text # box
    <3>1. IsStored(text) \/ \E k \in 1..n : pending[k].text = text /\ pending[k].adopted = 0
      BY <2>2, <1>2, <1>4 DEF WidgetInv, OwedIsSomewhere
    <3>2. IsStored(text)' <=> IsStored(text)
      BY <1>4 DEF IsStored, LastStored
    <3>3. \A k \in 1..n : k \in DOMAIN pending' /\ pending'[k] = pending[k]
      BY <1>2
    <3> QED
      BY <3>1, <3>2, <3>3
  <2> QED
    BY <2>1, <2>2
<1>12. stored' # <<>>
  BY <1>4 DEF WidgetInv
<1> QED
  BY <1>6, <1>7, <1>8, <1>9, <1>10, <1>11, <1>12 DEF WidgetInv

\* The server stores or refuses the head of the queue.
LEMMA StoreKeeps == WidgetInv /\ StoreMessage => WidgetInv'
<1> SUFFICES ASSUME WidgetInv, StoreMessage PROVE WidgetInv'
  OBVIOUS
<1> DEFINE text == TextOf(Head(queue))
           n == Len(stored)
<1>1. text \in Texts
  BY HeadHasItsBubble DEF StoreMessage
<1>2. stored \in Seq(Texts) /\ stored' = Append(stored, text) /\ n \in Nat /\ n >= 1
  <2>1. stored \in Seq(Texts) /\ stored # <<>>
    BY DEF WidgetInv, WidgetTypeOK
  <2> QED
    BY <2>1, EmptySeq DEF StoreMessage
<1> HIDE DEF text, n
<1>3. /\ stored' \in Seq(Texts) /\ stored' # <<>> /\ Len(stored') = n + 1
      /\ \A k \in 1..n : stored'[k] = stored[k]
      /\ stored'[n + 1] = text
  BY <1>1, <1>2, AppendProperties DEF n
<1>4. UNCHANGED <<box, pending, queue, seen, sends, owed>> /\ posted' = "created" /\ queue # <<>>
  BY DEF StoreMessage
<1>5. TextOf(Head(queue))' = text
  BY <1>4 DEF TextOf, PlaceOf, text
<1>6. \A t : IsStored(t) => IsStored(t)'
  <2> SUFFICES ASSUME NEW t, NEW k \in 2..n, stored[k] = t
               PROVE  \E l \in 2..Len(stored') : stored'[l] = t
    BY DEF IsStored, LastStored, n
  <2>1. k \in 2..Len(stored') /\ stored'[k] = t
    BY <1>2, <1>3
  <2> QED
    BY <2>1
<1>7. WidgetTypeOK'
  <2>1. seen \in 0..(n + 1)
    BY <1>2 DEF WidgetInv, WidgetTypeOK, LastStored, n
  <2> QED
    BY <2>1, <1>3, <1>4 DEF WidgetInv, WidgetTypeOK, LastStored, Outcomes
<1>8. AnswersTheHead'
  BY <1>2, <1>3, <1>4, <1>5 DEF AnswersTheHead, LastStored
<1>9. AdoptedIsStored' /\ OwedIsSomewhere'
  <2>1. AdoptedIsStored /\ OwedIsSomewhere
    BY DEF WidgetInv
  <2> QED
    BY <2>1, <1>4, <1>6 DEF AdoptedIsStored, OwedIsSomewhere
<1> QED
  BY <1>3, <1>4, <1>7, <1>8, <1>9 DEF WidgetInv, BubblesInOrder, QueueInOrder

LEMMA RefusalAndScreenKeep == WidgetInv /\ (RefuseMessage \/ ShowTranscript) => WidgetInv'
<1> SUFFICES ASSUME WidgetInv, RefuseMessage \/ ShowTranscript PROVE WidgetInv'
  OBVIOUS
<1>1. Len(stored) \in Nat
  BY LenProperties DEF WidgetInv, WidgetTypeOK
<1>2. WidgetTypeOK'
  BY <1>1 DEF WidgetInv, WidgetTypeOK, RefuseMessage, ShowTranscript, Outcomes, LastStored
<1>3. AnswersTheHead'
  BY DEF WidgetInv, AnswersTheHead, RefuseMessage, ShowTranscript, LastStored, TextOf, PlaceOf
<1> QED
  BY <1>2, <1>3 DEF WidgetInv, RefuseMessage, ShowTranscript, BubblesInOrder, QueueInOrder,
    AdoptedIsStored, OwedIsSomewhere, IsStored, LastStored

\* The head is answered and its bubble goes: a text that was in that bubble is stored, or
\* in the box.
LEMMA BubbleGoes ==
  ASSUME WidgetInv, queue # <<>>, Answered, pending' = Without(Head(queue)),
         UNCHANGED <<stored, seen, sends, owed>>, box' \in Texts \cup {Empty},
         IsStored(TextOf(Head(queue))) \/ box' = TextOf(Head(queue)),
         box' = box \/ box = Empty
  PROVE  WidgetInv'
<1> DEFINE p == PlaceOf(Head(queue))
<1>1. /\ pending' \in Seq(Bubble)
      /\ \A k \in DOMAIN pending' : \E l \in DOMAIN pending : pending'[k] = pending[l]
      /\ \A l \in DOMAIN pending \ {p} : \E k \in DOMAIN pending' : pending'[k] = pending[l]
      /\ \A k, l \in DOMAIN pending' : k < l => pending'[k].number < pending'[l].number
  BY WithoutTheHead, WithoutKeepsOrder
<1>2. p \in DOMAIN pending /\ pending[p].number = Head(queue) /\ pending[p].text = TextOf(Head(queue))
  BY HeadHasItsBubble DEF TextOf
<1> HIDE DEF p
<1>3. BubblesInOrder'
  BY <1>1 DEF WidgetInv, BubblesInOrder
<1>4. QueueInOrder' /\ queue' \in Seq(1..MaxSends)
  <2>1. \A l \in DOMAIN pending : pending[l].number # Head(queue) =>
          \E k \in DOMAIN pending' : pending'[k].number = pending[l].number
    <3> SUFFICES ASSUME NEW l \in DOMAIN pending, pending[l].number # Head(queue)
                 PROVE  \E k \in DOMAIN pending' : pending'[k].number = pending[l].number
      OBVIOUS
    <3>1. PICK k \in DOMAIN pending' : pending'[k] = pending[l]
      BY <1>1, <1>2
    <3> QED
      BY <3>1
  <2> QED
    BY <2>1, QueueGoesOn DEF Answered
<1>5. WidgetTypeOK'
  BY <1>1, <1>4 DEF WidgetInv, WidgetTypeOK, LastStored, Answered, Outcomes
<1>6. \A t : IsStored(t)' <=> IsStored(t)
  BY DEF IsStored, LastStored
<1>7. AdoptedIsStored'
  BY <1>1, <1>6 DEF WidgetInv, AdoptedIsStored
<1>8. OwedIsSomewhere'
  <2> SUFFICES ASSUME NEW text \in owed, box' # text, ~ IsStored(text)
               PROVE  \E k \in DOMAIN pending' : pending'[k].text = text /\ pending'[k].adopted = 0
    BY <1>6 DEF OwedIsSomewhere
  <2>1. box # text
    BY WidgetAssumption DEF WidgetInv, WidgetTypeOK
  <2>2. PICK l \in DOMAIN pending : pending[l].text = text /\ pending[l].adopted = 0
    BY <2>1 DEF WidgetInv, OwedIsSomewhere
  <2>3. l # p
    BY <2>2, <1>2
  <2>4. PICK k \in DOMAIN pending' : pending'[k] = pending[l]
    BY <2>3, <1>1
  <2> QED
    BY <2>2, <2>4
<1> QED
  BY <1>3, <1>4, <1>5, <1>7, <1>8 DEF WidgetInv, AnswersTheHead, Answered

\* The head is answered and its bubble stays, as it is or with the message it adopts.
LEMMA BubbleStays ==
  ASSUME WidgetInv, queue # <<>>, Answered, UNCHANGED <<box, stored, seen, sends, owed>>,
         pending' \in Seq(Bubble), DOMAIN pending' = DOMAIN pending,
         \A k \in DOMAIN pending :
           /\ pending'[k].number = pending[k].number /\ pending'[k].text = pending[k].text
           /\ pending'[k].adopted # pending[k].adopted => IsStored(pending[k].text)
  PROVE  WidgetInv'
<1>1. BubblesInOrder'
  BY DEF WidgetInv, BubblesInOrder
<1>2. QueueInOrder' /\ queue' \in Seq(1..MaxSends)
  BY QueueGoesOn DEF Answered
<1>3. WidgetTypeOK'
  BY <1>2 DEF WidgetInv, WidgetTypeOK, LastStored, Answered, Outcomes
<1>4. \A t : IsStored(t)' <=> IsStored(t)
  BY DEF IsStored, LastStored
<1>5. AdoptedIsStored' /\ OwedIsSomewhere'
  <2>1. AdoptedIsStored /\ OwedIsSomewhere
    BY DEF WidgetInv
  <2>2. AdoptedIsStored'
    BY <2>1, <1>4 DEF AdoptedIsStored
  <2>3. OwedIsSomewhere'
    BY <2>1, <1>4 DEF OwedIsSomewhere
  <2> QED
    BY <2>2, <2>3
<1> QED
  BY <1>1, <1>2, <1>3, <1>5 DEF WidgetInv, AnswersTheHead, Answered

LEMMA ConfirmKeeps == WidgetInv /\ Confirm => WidgetInv'
<1> SUFFICES ASSUME WidgetInv, Confirm PROVE WidgetInv'
  OBVIOUS
<1> DEFINE p == PlaceOf(Head(queue))
<1>1. /\ queue # <<>> /\ Answered /\ UNCHANGED <<box, stored, seen, sends, owed>>
      /\ LastStored >= 2 /\ stored[LastStored] = TextOf(Head(queue))
      /\ box' \in Texts \cup {Empty}
  BY DEF Confirm, WidgetInv, AnswersTheHead, WidgetTypeOK
<1>2. LastStored \in Nat
  BY LenProperties DEF WidgetInv, WidgetTypeOK, LastStored
<1>3. IsStored(TextOf(Head(queue)))
  BY <1>1, <1>2 DEF IsStored
<1>4. CASE pending' = Without(Head(queue))
  BY <1>1, <1>3, <1>4, BubbleGoes
<1>5. CASE pending' = [k \in DOMAIN pending |->
              IF pending[k].number = Head(queue) THEN [pending[k] EXCEPT !.adopted = LastStored]
              ELSE pending[k]]
  <2>1. \A k \in DOMAIN pending : pending[k].number = Head(queue) => pending[k].text = TextOf(Head(queue))
    BY PlaceOfBubble DEF TextOf
  <2>2. \A k \in DOMAIN pending :
          /\ pending'[k] \in Bubble
          /\ pending'[k].number = pending[k].number /\ pending'[k].text = pending[k].text
          /\ pending'[k].adopted # pending[k].adopted => pending[k].number = Head(queue)
    <3> SUFFICES ASSUME NEW k \in DOMAIN pending
                 PROVE  /\ pending'[k] \in Bubble
                        /\ pending'[k].number = pending[k].number /\ pending'[k].text = pending[k].text
                        /\ pending'[k].adopted # pending[k].adopted => pending[k].number = Head(queue)
      OBVIOUS
    <3>1. pending[k] \in Bubble
      BY BubbleFields DEF WidgetInv
    <3> QED
      BY <3>1, <1>2, <1>5 DEF Bubble
  <2>3. DOMAIN pending' = DOMAIN pending /\ DOMAIN pending = 1..Len(pending) /\ Len(pending) \in Nat
    BY <1>5, BubbleFields DEF WidgetInv
  <2>4. pending' \in Seq(Bubble)
    <3>1. pending' \in [1..Len(pending) -> Bubble]
      BY <2>2, <2>3, <1>5
    <3> QED
      BY <3>1, <2>3
  <2> QED
    BY <1>1, <1>3, <2>1, <2>2, <2>3, <2>4, BubbleStays
<1> QED
  BY <1>4, <1>5 DEF Confirm

LEMMA RefuseKeeps == WidgetInv /\ Refuse => WidgetInv'
<1> SUFFICES ASSUME WidgetInv, Refuse PROVE WidgetInv'
  OBVIOUS
<1>1. queue # <<>> /\ Answered /\ UNCHANGED <<stored, seen, sends, owed>>
  BY DEF Refuse, WidgetInv, AnswersTheHead
<1>2. CASE box = Empty
  <2>1. box' = TextOf(Head(queue)) /\ pending' = Without(Head(queue)) /\ TextOf(Head(queue)) \in Texts
    BY <1>1, <1>2, HeadHasItsBubble DEF Refuse, GiveBack
  <2> QED
    BY <1>1, <1>2, <2>1, BubbleGoes
<1>3. CASE box # Empty
  <2>1. UNCHANGED <<box, pending>>
    BY <1>3 DEF Refuse, GiveBack
  <2>2. pending' \in Seq(Bubble)
    BY <2>1 DEF WidgetInv, WidgetTypeOK
  <2> QED
    BY <1>1, <2>1, <2>2, BubbleStays
<1> QED
  BY <1>2, <1>3

LEMMA WidgetInvHolds == WidgetSpec => []WidgetInv
<1>1. WidgetInv /\ UNCHANGED widgetVars => WidgetInv'
  BY DEF widgetVars, WidgetInv, WidgetTypeOK, BubblesInOrder, QueueInOrder, AnswersTheHead,
         AdoptedIsStored, OwedIsSomewhere, IsStored, LastStored, TextOf, PlaceOf
<1>2. WidgetInv /\ [WidgetNext]_widgetVars => WidgetInv'
  BY <1>1, TypeKeeps, SendKeeps, StoreKeeps, RefusalAndScreenKeep, ConfirmKeeps, RefuseKeeps
  DEF WidgetNext
<1> QED
  BY <1>2, WidgetInvInit, PTL DEF WidgetSpec

----------------------------------------------------------------------------
(* What the widget draws *)

\* The drawing after the first N bubbles, as a function of how many have been gone through.
DrawsUpTo(f, N) ==
  f = [n \in 0..N |-> IF n = 0 THEN NothingDrawn ELSE DrawNext(f[n - 1], pending[n])]

\* There is such a function: each bubble adds one step to it.
LEMMA DrawingExists ==
  ASSUME NEW N \in Nat
  PROVE  \E f : DrawsUpTo(f, N)
<1> DEFINE Bad == {k \in Nat : ~ \E f : DrawsUpTo(f, k)}
<1> SUFFICES ASSUME N \in Bad PROVE FALSE
  OBVIOUS
<1>1. PICK k \in Bad : \A j \in Bad : k <= j
  BY NatLeast
<1>2. CASE k = 0
  <2> DEFINE f0 == [n \in 0..0 |-> NothingDrawn]
  <2>1. DrawsUpTo(f0, 0)
    BY DEF DrawsUpTo
  <2> QED
    BY <2>1, <1>2
<1>3. CASE k # 0
  <2>1. k - 1 \in Nat /\ k - 1 \notin Bad
    BY <1>1, <1>3
  <2>2. PICK f : DrawsUpTo(f, k - 1)
    BY <2>1
  <2> DEFINE g == [n \in 0..k |-> IF n = 0 THEN NothingDrawn ELSE DrawNext(f[n - 1], pending[n])]
  <2>3. \A n \in 0..(k - 1) : f[n] = g[n]
    <3>1. \A n \in 0..(k - 1) : n \in 0..k
      BY <2>1
    <3>2. \A n \in 0..(k - 1) :
            f[n] = IF n = 0 THEN NothingDrawn ELSE DrawNext(f[n - 1], pending[n])
      BY <2>2 DEF DrawsUpTo
    <3> QED
      BY <3>1, <3>2
  <2>4. g = [n \in 0..k |-> IF n = 0 THEN NothingDrawn ELSE DrawNext(g[n - 1], pending[n])]
    <3>1. \A n \in 0..k : n # 0 => n - 1 \in 0..(k - 1)
      BY <2>1
    <3>2. \A n \in 0..k : n # 0 => DrawNext(f[n - 1], pending[n]) = DrawNext(g[n - 1], pending[n])
      BY <3>1, <2>3
    <3> HIDE DEF g
    <3>3. g = [n \in 0..k |-> IF n = 0 THEN NothingDrawn ELSE DrawNext(f[n - 1], pending[n])]
      BY DEF g
    <3> QED
      BY <3>2, <3>3
  <2>5. DrawsUpTo(g, k)
    BY <2>4 DEF DrawsUpTo
  <2> QED
    BY <2>5, <1>1
<1> QED
  BY <1>2, <1>3

\* So the drawing goes through the bubbles one by one.
LEMMA DrawingUnfolds ==
  ASSUME Len(pending) \in Nat
  PROVE  /\ Drawing[0] = NothingDrawn
         /\ \A n \in 1..Len(pending) : Drawing[n] = DrawNext(Drawing[n - 1], pending[n])
<1>1. \E f : DrawsUpTo(f, Len(pending))
  BY DrawingExists
<1>2. DrawsUpTo(Drawing, Len(pending))
  BY <1>1 DEF Drawing, DrawsUpTo
<1>3. 0 \in 0..Len(pending) /\ \A n \in 1..Len(pending) : n \in 0..Len(pending) /\ n # 0
  OBVIOUS
<1> QED
  BY <1>2, <1>3 DEF DrawsUpTo

\* What is drawn is a list of texts, and a step takes none away; a bubble that no message
\* on screen is or echoes is drawn.
DrawnIsTyped(acc) == acc \in [drawn : Seq(Texts), taken : SUBSET Nat]

LEMMA DrawNextDraws ==
  ASSUME NEW acc, DrawnIsTyped(acc), NEW b \in Bubble, seen \in Nat
  PROVE  /\ DrawnIsTyped(DrawNext(acc, b))
         /\ Range(acc.drawn) \subseteq Range(DrawNext(acc, b).drawn)
         /\ b.adopted \notin 1..seen /\ (\A k \in 2..seen : stored[k] # b.text) =>
              b.text \in Range(DrawNext(acc, b).drawn)
<1> DEFINE echoes == Echo(b.text, acc.taken)
<1>1. /\ acc.drawn \in Seq(Texts) /\ acc.taken \in SUBSET Nat /\ b.text \in Texts
      /\ echoes \in SUBSET Nat
  BY DEF DrawnIsTyped, Bubble, Echo
<1>2. CASE b.adopted \in 1..seen
  BY <1>2 DEF DrawNext
<1>3. CASE b.adopted \notin 1..seen /\ echoes = {}
  <2> DEFINE more == Append(acc.drawn, b.text)
  <2>1. DrawNext(acc, b) = [acc EXCEPT !.drawn = more]
    BY <1>3 DEF DrawNext
  <2>2. more \in Seq(Texts) /\ Range(more) = Range(acc.drawn) \cup {b.text}
    <3>1. more = acc.drawn \o <<b.text>> /\ <<b.text>> \in Seq(Texts) /\ more \in Seq(Texts)
      BY <1>1, AppendIsConcat
    <3>2. Range(<<b.text>>) = {b.text}
      BY DEF Range
    <3>3. Range(acc.drawn \o <<b.text>>) = Range(acc.drawn) \cup Range(<<b.text>>)
      BY <3>1, <1>1, RangeConcatenation
    <3> HIDE DEF more
    <3> QED
      BY <3>1, <3>2, <3>3
  <2> HIDE DEF more
  <2>3. DrawNext(acc, b).drawn = more /\ DrawNext(acc, b).taken = acc.taken
        /\ DrawNext(acc, b) \in [drawn : Seq(Texts), taken : SUBSET Nat]
    BY <2>1, <2>2, <1>1 DEF DrawnIsTyped
  <2> QED
    BY <2>2, <2>3 DEF DrawnIsTyped
<1>4. CASE b.adopted \notin 1..seen /\ echoes # {}
  <2> DEFINE first == CHOOSE k \in echoes : \A l \in echoes : k <= l
  <2>1. first \in Nat
    BY <1>1, <1>4, NatLeast
  <2>2. DrawNext(acc, b) = [acc EXCEPT !.taken = @ \cup {first}]
    BY <1>4 DEF DrawNext
  <2>3. \E k \in 2..seen : stored[k] = b.text
    BY <1>4 DEF Echo
  <2> HIDE DEF first
  <2> QED
    BY <2>1, <2>2, <2>3, <1>1 DEF DrawnIsTyped
<1> QED
  BY <1>2, <1>3, <1>4

\* A bubble that no message on screen is or echoes is among those drawn in the end.
LEMMA BubbleIsDrawn ==
  ASSUME WidgetTypeOK, NEW k \in DOMAIN pending, pending[k].adopted \notin 1..seen,
         \A l \in 2..seen : stored[l] # pending[k].text
  PROVE  pending[k].text \in Range(Unconfirmed)
<1> DEFINE N == Len(pending)
           Good(n) == /\ DrawnIsTyped(Drawing[n])
                      /\ n >= k => pending[k].text \in Range(Drawing[n].drawn)
           Bad == {n \in Nat : n <= N /\ ~ Good(n)}
<1>1. N \in Nat /\ DOMAIN pending = 1..N /\ \A n \in 1..N : pending[n] \in Bubble
  BY BubbleFields
<1>2. seen \in Nat
  BY LenProperties DEF WidgetTypeOK, LastStored
<1>3. /\ Drawing[0] = NothingDrawn
      /\ \A n \in 1..N : Drawing[n] = DrawNext(Drawing[n - 1], pending[n])
  BY <1>1, DrawingUnfolds
<1> HIDE DEF N
<1>4. Good(0)
  <2>1. DrawnIsTyped(NothingDrawn)
    BY DEF DrawnIsTyped, NothingDrawn
  <2>2. ~ (0 >= k)
    BY <1>1
  <2> QED
    BY <2>1, <2>2, <1>3
<1>5. ASSUME Bad # {} PROVE FALSE
  <2>1. PICK n \in Bad : \A m \in Bad : n <= m
    BY <1>5, NatLeast
  <2>2. n \in 1..N /\ n - 1 \in Nat /\ n - 1 <= N
    <3>1. n \in Nat /\ n <= N /\ ~ Good(n)
      BY <2>1
    <3> HIDE DEF Good
    <3>2. n # 0
      BY <3>1, <1>4
    <3> QED
      BY <3>1, <3>2, <1>1
  <2>3. Good(n - 1)
    <3>1. n - 1 \notin Bad
      BY <2>1, <2>2
    <3> QED
      BY <3>1, <2>2
  <2> DEFINE acc == Drawing[n - 1]
  <2>4. /\ DrawnIsTyped(DrawNext(acc, pending[n]))
        /\ Range(acc.drawn) \subseteq Range(DrawNext(acc, pending[n]).drawn)
        /\ pending[n].adopted \notin 1..seen /\ (\A l \in 2..seen : stored[l] # pending[n].text) =>
              pending[n].text \in Range(DrawNext(acc, pending[n]).drawn)
    BY <2>2, <2>3, <1>1, <1>2, DrawNextDraws
  <2>5. Drawing[n] = DrawNext(acc, pending[n])
    BY <2>2, <1>3
  <2>6. n >= k => n = k \/ n - 1 >= k
    BY <2>2, <1>1
  <2>7. Good(n)
    BY <2>3, <2>4, <2>5, <2>6
  <2> QED
    BY <2>1, <2>7
<1>6. Good(N)
  BY <1>1, <1>5
<1> QED
  BY <1>1, <1>6 DEF Unconfirmed, N

\* Whatever is queued, refused, lost on the way back or wiped by a failed read, for any
\* number of sends: a text the customer sent is with the server, on screen after the
\* transcript, or back in the box.
THEOREM TypedTextsStay == WidgetSpec => []NothingTypedIsLost
<1>1. WidgetInv => NothingTypedIsLost
  <2> SUFFICES ASSUME WidgetInv, NEW text \in owed, box # text, ~ IsStored(text)
               PROVE  text \in Range(Unconfirmed)
    BY DEF NothingTypedIsLost, IsStored
  <2>1. PICK k \in DOMAIN pending : pending[k].text = text /\ pending[k].adopted = 0
    BY DEF WidgetInv, OwedIsSomewhere
  <2>2. \A l \in 2..seen : stored[l] # text
    <3>1. seen \in 0..LastStored /\ LastStored \in Nat
      BY LenProperties DEF WidgetInv, WidgetTypeOK, LastStored
    <3> QED
      BY <3>1 DEF IsStored
  <2>3. pending[k].adopted \notin 1..seen
    BY <2>1
  <2> QED
    BY <2>1, <2>2, <2>3, BubbleIsDrawn DEF WidgetInv
<1> QED
  BY <1>1, WidgetInvHolds, PTL

----------------------------------------------------------------------------
(* The transaction feed *)

\* The rows of rs that are newer than r.
Above(rs, r) == {s \in rs : Below(r, s)}

FiledTyped == filed \in [Records -> [kind : Kinds, at : Instants] \cup {Unfiled}]

\* A record that was filed has a kind and a timestamp.
LEMMA FiledFields ==
  ASSUME FiledTyped, NEW r \in Filed
  PROVE  /\ r \in Records /\ r \in Nat /\ r # 0
         /\ filed[r] \in [kind : Kinds, at : Instants] /\ filed[r].at \in Nat
BY FeedAssumption DEF FiledTyped, Filed, Kinds

\* Among records that were filed, the order of the feed is a strict total order.
LEMMA FeedOrder ==
  ASSUME FiledTyped
  PROVE  /\ \A r \in Filed : ~ Below(r, r)
         /\ \A r, s, t \in Filed : Below(r, s) /\ Below(s, t) => Below(r, t)
         /\ \A r, s \in Filed : r = s \/ Below(r, s) \/ Below(s, r)
<1>1. \A r \in Filed : r \in Nat /\ filed[r].at \in Nat
  BY FiledFields
<1> QED
  BY <1>1 DEF Below

\* A finite set of filed records that is not empty has an oldest one.
LEMMA OldestRow ==
  ASSUME FiledTyped, NEW rs \in SUBSET Filed, IsFiniteSet(rs), rs # {}
  PROVE  \E m \in rs : \A r \in rs \ {m} : Below(m, r)
<1> DEFINE n == Cardinality(rs)
           Lacks == {k \in Nat : \E r \in rs : k = n - Cardinality(Above(rs, r))}
<1>1. n \in Nat
  BY FS_CardinalityType
<1>2. ASSUME NEW r \in rs
      PROVE  /\ IsFiniteSet(Above(rs, r))
             /\ Cardinality(Above(rs, r)) \in Nat /\ Cardinality(Above(rs, r)) <= n
  <2>1. Above(rs, r) \in SUBSET rs
    BY DEF Above
  <2>2. IsFiniteSet(Above(rs, r)) /\ Cardinality(Above(rs, r)) <= Cardinality(rs)
    BY <2>1, FS_Subset
  <2> QED
    BY <2>2, FS_CardinalityType
<1>3. Lacks \in SUBSET Nat /\ Lacks # {}
  <2>1. PICK r \in rs : TRUE
    OBVIOUS
  <2>2. n - Cardinality(Above(rs, r)) \in Nat
    BY <1>1, <1>2
  <2> QED
    BY <2>2
<1>4. PICK k \in Lacks : \A j \in Lacks : k <= j
  BY <1>3, NatLeast
<1>5. PICK m \in rs : k = n - Cardinality(Above(rs, m))
  BY <1>4
<1>6. ASSUME NEW r \in rs \ {m}
      PROVE  Below(m, r)
  <2>1. CASE Below(r, m)
    <3>1. Above(rs, m) \cup {m} \in SUBSET Above(rs, r) /\ m \notin Above(rs, m)
      BY <2>1, FeedOrder DEF Above
    <3>2. Cardinality(Above(rs, m) \cup {m}) = Cardinality(Above(rs, m)) + 1
      BY <3>1, <1>2, FS_AddElement
    <3>3. Cardinality(Above(rs, m)) + 1 <= Cardinality(Above(rs, r))
      BY <3>1, <3>2, <1>2, FS_Subset
    <3>4. n - Cardinality(Above(rs, r)) \in Lacks
      BY <1>1, <1>2
    <3>5. k <= n - Cardinality(Above(rs, r))
      BY <3>4, <1>4
    <3> HIDE DEF n, Lacks
    <3>6. FALSE
      BY <3>3, <3>5, <1>1, <1>2, <1>5
    <3> QED
      BY <3>6
  <2> QED
    BY <2>1, FeedOrder
<1> QED
  BY <1>6

\* The newest n rows are as many as there are, or n of them.
LEMMA NewestCount ==
  ASSUME FiledTyped, NEW S \in SUBSET Filed, IsFiniteSet(S), NEW n \in Nat
  PROVE  /\ Cardinality(S) <= n => Newest(S, n) = S
         /\ Cardinality(S) >= n => Cardinality(Newest(S, n)) = n
<1>1. ASSUME NEW rs \in SUBSET S, Cardinality(rs) <= n
      PROVE  Newest(rs, n) = rs
  <2>1. ASSUME NEW r \in rs
        PROVE  Cardinality(Above(rs, r)) < n
    <3>1. Above(rs, r) \in SUBSET (rs \ {r}) /\ IsFiniteSet(rs)
      BY FeedOrder, FS_Subset DEF Above
    <3>2. /\ IsFiniteSet(rs \ {r}) /\ Cardinality(rs \ {r}) = Cardinality(rs) - 1
          /\ Cardinality(rs) \in Nat
      BY <3>1, FS_RemoveElement, FS_CardinalityType
    <3>3. /\ Cardinality(Above(rs, r)) <= Cardinality(rs \ {r})
          /\ Cardinality(Above(rs, r)) \in Nat
      BY <3>1, <3>2, FS_Subset, FS_CardinalityType
    <3> QED
      BY <3>2, <3>3, <1>1
  <2> QED
    BY <2>1 DEF Newest, Above
<1> DEFINE Bad == {k \in Nat : \E rs \in SUBSET S : /\ Cardinality(rs) = k /\ k >= n
                                                   /\ Cardinality(Newest(rs, n)) # n}
<1>2. ASSUME Bad # {} PROVE FALSE
  <2>1. PICK k \in Bad : \A j \in Bad : k <= j
    BY <1>2, NatLeast
  <2>2. PICK rs \in SUBSET S : /\ Cardinality(rs) = k /\ k >= n
                               /\ Cardinality(Newest(rs, n)) # n
    BY <2>1
  <2>3. k > n
    <3>1. k = n => Newest(rs, n) = rs
      BY <1>1, <2>2
    <3> QED
      BY <3>1, <2>1, <2>2
  <2>4. IsFiniteSet(rs) /\ rs # {} /\ rs \in SUBSET Filed
    BY <2>2, <2>3, FS_Subset, FS_EmptySet
  <2>5. PICK m \in rs : \A r \in rs \ {m} : Below(m, r)
    BY <2>4, OldestRow
  <2> DEFINE rest == rs \ {m}
  <2>6. IsFiniteSet(rest) /\ Cardinality(rest) = k - 1 /\ rest \in SUBSET S
    BY <2>2, <2>4, FS_RemoveElement
  <2>7. Cardinality(Newest(rest, n)) = n
    <3>1. k - 1 \in Nat /\ k - 1 >= n /\ k - 1 \notin Bad
      BY <2>1, <2>3
    <3> QED
      BY <3>1, <2>6
  <2>8. Newest(rs, n) = Newest(rest, n)
    <3>1. \A r \in rest : Above(rs, r) = Above(rest, r)
      BY <2>4, <2>5, FeedOrder DEF Above
    <3>2. Above(rs, m) = rest
      BY <2>4, <2>5, FeedOrder DEF Above
    <3>3. ~ (Cardinality(Above(rs, m)) < n)
      BY <3>2, <2>1, <2>3, <2>6
    <3> QED
      BY <3>1, <3>3 DEF Newest, Above
  <2> QED
    BY <2>2, <2>7, <2>8
<1>3. Cardinality(S) \in Nat
  BY FS_CardinalityType
<1> QED
  BY <1>1, <1>2, <1>3

\* A row that is not among the newest n is older than each of them, and there are n.
LEMMA OlderThanThePage ==
  ASSUME FiledTyped, NEW S \in SUBSET Filed, IsFiniteSet(S), NEW n \in Nat,
         NEW r \in Filed, Cardinality(Above(S, r)) >= n
  PROVE  /\ \A s \in Newest(S, n) : Below(r, s)
         /\ Cardinality(Newest(S, n)) = n
         /\ Cardinality(Above(Newest(S, n), r)) >= n
<1>1. Above(S, r) \in SUBSET S
  BY DEF Above
<1>2. Cardinality(Above(S, r)) <= Cardinality(S) /\ Cardinality(Above(S, r)) \in Nat
      /\ Cardinality(S) \in Nat
  BY <1>1, FS_Subset, FS_CardinalityType
<1>3. Cardinality(Newest(S, n)) = n
  BY <1>2, NewestCount
<1>4. ASSUME NEW s \in Newest(S, n), ~ Below(r, s)
      PROVE  FALSE
  <2>1. s \in S /\ Cardinality(Above(S, s)) < n
    BY DEF Newest, Above
  <2>2. s = r \/ Below(s, r)
    BY <2>1, <1>4, FeedOrder
  <2>3. Above(S, r) \in SUBSET Above(S, s) /\ Above(S, s) \in SUBSET S
    BY <2>1, <2>2, FeedOrder DEF Above
  <2>4. IsFiniteSet(Above(S, s))
    BY <2>3, FS_Subset
  <2>5. Cardinality(Above(S, r)) <= Cardinality(Above(S, s))
    BY <2>3, <2>4, FS_Subset
  <2>6. Cardinality(Above(S, s)) \in Nat
    BY <2>4, FS_CardinalityType
  <2> QED
    BY <2>1, <2>5, <2>6, <1>2
<1>5. Above(Newest(S, n), r) = Newest(S, n)
  BY <1>4 DEF Above
<1> QED
  BY <1>3, <1>4, <1>5

\* A page that is being read is one of a feed that goes on; its rows are below the cursor,
\* and a record that was there at first is in it or older than a whole page of it.
PageRead(kind) ==
  reading[kind] # Unfiled =>
    /\ feed = "more" /\ reading[kind] \subseteq Filed
    /\ \A r \in reading[kind] : BelowCursor(r)
    /\ \A r \in began : filed[r].kind = kind /\ BelowCursor(r) =>
         r \in reading[kind] \/ Cardinality(Above(reading[kind], r)) >= Limit

\* What is on screen are filed records in order, the cursor is the last of them while the
\* feed goes on, and a record that was there at first is on screen or below the cursor.
ScreenInOrder ==
  /\ listed \in Seq(Filed) /\ NewestFirst(listed)
  /\ feed # "more" => cursor = 0
  /\ feed = "more" => IF cursor = 0 THEN listed = <<>>
                                     ELSE listed # <<>> /\ cursor = Last(listed)
NothingSkipped ==
  /\ began \subseteq Filed
  /\ feed = "more" => \A r \in began : r \in Range(listed) \/ BelowCursor(r)
  /\ feed = "end" => began \subseteq Range(listed)

FeedInv ==
  /\ FeedTypeOK /\ IsFiniteSet(Filed)
  /\ ScreenInOrder /\ NothingSkipped /\ \A kind \in Kinds : PageRead(kind)

\* No page being read is one of the states of the reads.
LEMMA NotReadingTyped == NotReading \in [Kinds -> {Unfiled} \cup SUBSET Records]
BY DEF NotReading

LEMMA FeedInvInit == FeedInit => FeedInv
<1> SUFFICES ASSUME FeedInit PROVE FeedInv
  OBVIOUS
<1>1. Filed = {}
  BY DEF FeedInit, Filed
<1>2. IsFiniteSet(Filed)
  BY <1>1, FS_EmptySet
<1>3. FeedTypeOK
  BY NotReadingTyped DEF FeedInit, FeedTypeOK
<1>4. \A kind \in Kinds : reading[kind] = Unfiled
  BY DEF FeedInit, NotReading
<1> QED
  BY <1>1, <1>2, <1>3, <1>4
  DEF FeedInit, FeedInv, ScreenInOrder, NothingSkipped, PageRead, NewestFirst

\* A record that is filed changes nothing about those that were.
LEMMA FileKeeps ==
  ASSUME FeedInv, NEW r \in Records, NEW kind \in Kinds, NEW at \in Instants, File(r, kind, at)
  PROVE  FeedInv'
<1>1. FiledTyped /\ cursor \in Filed \cup {0} /\ Unfiled \notin [kind : Kinds, at : Instants]
  <2>1. cursor # 0 => cursor \in Filed
    <3>1. cursor # 0 => listed \in Seq(Filed) /\ listed # <<>> /\ cursor = listed[Len(listed)]
      BY DEF FeedInv, ScreenInOrder, Last
    <3> QED
      BY <3>1, EmptySeq, ElementOfSeq
  <2> QED
    BY <2>1, FeedAssumption DEF FeedInv, FeedTypeOK, FiledTyped, Kinds
<1>2. FeedTypeOK'
  BY DEF File, FeedInv, FeedTypeOK
<1>3. Filed' = Filed \cup {r}
  BY <1>1 DEF File, Filed, FiledTyped
<1>4. IsFiniteSet(Filed')
  BY <1>3, FS_AddElement DEF FeedInv
<1>5. \A s \in Filed : filed'[s] = filed[s]
  BY <1>1 DEF File, Filed, FiledTyped
<1>6. \A s, t \in Filed : Below(s, t)' <=> Below(s, t)
  BY <1>5 DEF Below
<1>7. \A s \in Filed : BelowCursor(s)' <=> BelowCursor(s)
  BY <1>1, <1>6 DEF BelowCursor, File
<1>8. ScreenInOrder'
  <2>1. listed \in Seq(Filed')
    BY <1>3, SeqMonotonic DEF FeedInv, ScreenInOrder
  <2>2. \A k \in DOMAIN listed : listed[k] \in Filed
    BY LenProperties, ElementOfSeq DEF FeedInv, ScreenInOrder
  <2>3. NewestFirst(listed)'
    BY <2>2, <1>6 DEF FeedInv, ScreenInOrder, NewestFirst, File
  <2> QED
    BY <2>1, <2>3 DEF FeedInv, ScreenInOrder, File
<1>9. NothingSkipped'
  BY <1>3, <1>7 DEF FeedInv, NothingSkipped, File
<1>10. ASSUME NEW k \in Kinds
       PROVE  PageRead(k)'
  <2> SUFFICES ASSUME reading[k] # Unfiled
               PROVE  PageRead(k)'
    BY DEF PageRead, File
  <2>1. PageRead(k) /\ began \subseteq Filed
    BY DEF FeedInv, NothingSkipped
  <2>2. reading[k] \subseteq Filed
    BY <2>1 DEF PageRead
  <2>3. \A s \in Filed : Above(reading[k], s)' = Above(reading[k], s)
    BY <2>2, <1>6 DEF Above, File
  <2>4. \A s \in began : filed'[s].kind = filed[s].kind
    BY <2>1, <1>5
  <2> QED
    BY <2>1, <2>2, <2>3, <2>4, <1>3, <1>7 DEF PageRead, File, Limit
<1> QED
  BY <1>2, <1>4, <1>8, <1>9, <1>10 DEF FeedInv

\* A feed that is opened, or that cannot be read, starts from nothing.
LEMMA OpenKeeps == FeedInv /\ OpenFeed => FeedInv'
<1> SUFFICES ASSUME FeedInv, OpenFeed PROVE FeedInv'
  OBVIOUS
<1>1. Filed' = Filed
  BY DEF OpenFeed, Filed
<1>2. FeedTypeOK'
  BY DEF OpenFeed, FeedInv, FeedTypeOK, Filed
<1>3. \A kind \in Kinds : reading'[kind] = Unfiled
  BY DEF OpenFeed, NotReading
<1> QED
  BY <1>1, <1>2, <1>3
  DEF OpenFeed, FeedInv, ScreenInOrder, NothingSkipped, PageRead, NewestFirst, BelowCursor

LEMMA FailKeeps == FeedInv /\ FailPage => FeedInv'
<1> SUFFICES ASSUME FeedInv, FailPage PROVE FeedInv'
  OBVIOUS
<1>1. Filed' = Filed
  BY DEF FailPage, Filed
<1>2. FeedTypeOK'
  BY NotReadingTyped DEF FailPage, FeedInv, FeedTypeOK
<1>3. \A kind \in Kinds : reading'[kind] = Unfiled
  BY DEF FailPage, NotReading
<1>4. NewestFirst(listed)'
  BY DEF FailPage, FeedInv, ScreenInOrder, NewestFirst, Below
<1> QED
  BY <1>1, <1>2, <1>3, <1>4
  DEF FailPage, FeedInv, ScreenInOrder, NothingSkipped, PageRead

\* The page of a table is the newest of its rows below the cursor: what is left out is
\* older than all of them.
LEMMA ReadKeeps ==
  ASSUME FeedInv, NEW kind \in Kinds, ReadTable(kind)
  PROVE  FeedInv'
<1> DEFINE S == {r \in Filed : filed[r].kind = kind /\ BelowCursor(r)}
<1>1. FiledTyped /\ Limit \in Nat
  BY FeedAssumption DEF FeedInv, FeedTypeOK, FiledTyped, Limit
<1>2. S \in SUBSET Filed /\ IsFiniteSet(S)
  BY FS_Subset DEF FeedInv
<1>3. reading' = [reading EXCEPT ![kind] = Newest(S, Limit)]
  BY DEF ReadTable, ListPage
<1>4. Newest(S, Limit) \subseteq S /\ Newest(S, Limit) \in SUBSET Records
  BY DEF Newest, Filed
<1> HIDE DEF S
<1>5. FeedTypeOK'
  BY <1>3, <1>4 DEF ReadTable, FeedInv, FeedTypeOK
<1>6. Filed' = Filed /\ Limit' = Limit /\ began' = began /\ feed' = feed
      /\ \A r : BelowCursor(r)' <=> BelowCursor(r)
  BY DEF ReadTable, Filed, Limit, BelowCursor, Below
<1>7. ScreenInOrder' /\ NothingSkipped'
  BY <1>6 DEF ReadTable, FeedInv, ScreenInOrder, NothingSkipped, NewestFirst, Below
<1>8. ASSUME NEW k \in Kinds
      PROVE  PageRead(k)'
  <2>1. CASE k # kind
    BY <2>1, <1>6, <1>3 DEF PageRead, FeedInv, FeedTypeOK, ReadTable, Above, Below
  <2>2. CASE k = kind
    <3>1. reading'[k] = Newest(S, Limit) /\ feed' = "more" /\ filed' = filed
      BY <2>2, <1>3, <1>6 DEF FeedInv, FeedTypeOK, ReadTable
    <3>2. Newest(S, Limit) \subseteq Filed /\ \A r \in Newest(S, Limit) : BelowCursor(r)
      BY <1>4 DEF S
    <3>3. ASSUME NEW r \in began, filed[r].kind = kind, BelowCursor(r), r \notin Newest(S, Limit)
          PROVE  Cardinality(Above(Newest(S, Limit), r)) >= Limit
      <4>1. r \in Filed /\ r \in S
        BY <3>3 DEF FeedInv, NothingSkipped, S
      <4>2. ~ (Cardinality(Above(S, r)) < Limit)
        BY <4>1, <3>3 DEF Newest, Above
      <4>3. Above(S, r) \in SUBSET S
        BY DEF Above
      <4>4. Cardinality(Above(S, r)) \in Nat
        BY <4>3, <1>2, FS_Subset, FS_CardinalityType
      <4>5. Cardinality(Above(S, r)) >= Limit
        BY <4>2, <4>4, <1>1
      <4> QED
        BY <4>1, <4>5, <1>1, <1>2, OlderThanThePage
    <3> QED
      BY <3>1, <3>2, <3>3, <1>6, <2>2 DEF PageRead, Above, Below
  <2> QED
    BY <2>1, <2>2
<1> QED
  BY <1>5, <1>6, <1>7, <1>8 DEF FeedInv

\* A page that lists rows newest first, as many as there are, lists each of them.
LEMMA PageListsItsRows ==
  ASSUME FiledTyped, NEW rs \in SUBSET Filed, IsFiniteSet(rs),
         NEW page \in [1..Cardinality(rs) -> rs], NewestFirst(page)
  PROVE  page \in Seq(rs) /\ Len(page) = Cardinality(rs) /\ Range(page) = rs
<1> DEFINE n == Cardinality(rs)
<1>1. n \in Nat
  BY FS_CardinalityType
<1>2. page \in Seq(rs) /\ Len(page) = n /\ DOMAIN page = 1..n
  BY <1>1
<1>3. page \in Injection(1..n, rs)
  <2>1. ASSUME NEW k \in 1..n, NEW l \in 1..n, page[k] = page[l], k < l
        PROVE  FALSE
    BY <2>1, <1>2, FeedOrder DEF NewestFirst
  <2>2. \A k, l \in 1..n : page[k] = page[l] => k = l
    BY <2>1, <1>1
  <2> QED
    BY <2>2, <1>2 DEF Injection, IsInjective
<1>4. Cardinality(1..n) = n
  BY <1>1, FS_Interval
<1>5. page \in Surjection(1..n, rs)
  BY <1>3, <1>4, FS_Injection
<1>6. Range(page) = rs
  BY <1>5, <1>2 DEF Surjection, Range
<1> QED
  BY <1>2, <1>6

\* What is put behind the screen is older than what is on it.
LEMMA ScreenGoesOn ==
  ASSUME FiledTyped, NEW rows \in Seq(Filed), NEW page \in Seq(Filed),
         NewestFirst(rows), NewestFirst(page),
         rows # <<>> => \A r \in Range(page) : Below(r, Last(rows))
  PROVE  NewestFirst(rows \o page)
<1> SUFFICES ASSUME NEW k \in DOMAIN (rows \o page), NEW l \in DOMAIN (rows \o page), k < l
             PROVE  Below((rows \o page)[l], (rows \o page)[k])
  BY DEF NewestFirst
<1>1. /\ rows \o page \in Seq(Filed) /\ Len(rows \o page) = Len(rows) + Len(page)
      /\ Len(rows) \in Nat /\ Len(page) \in Nat
      /\ \A i \in 1..(Len(rows) + Len(page)) :
           (rows \o page)[i] = IF i <= Len(rows) THEN rows[i] ELSE page[i - Len(rows)]
      /\ DOMAIN rows = 1..Len(rows) /\ DOMAIN page = 1..Len(page)
  BY ConcatProperties, LenProperties
<1>2. k \in 1..(Len(rows) + Len(page)) /\ l \in 1..(Len(rows) + Len(page))
  BY <1>1, LenProperties
<1>3. CASE l <= Len(rows)
  BY <1>1, <1>2, <1>3 DEF NewestFirst
<1>4. CASE k > Len(rows)
  BY <1>1, <1>2, <1>4 DEF NewestFirst
<1>5. CASE k <= Len(rows) /\ l > Len(rows)
  <2>1. l - Len(rows) \in DOMAIN page /\ k \in DOMAIN rows /\ Len(rows) \in DOMAIN rows
    BY <1>1, <1>2, <1>5
  <2>2. rows # <<>>
    BY <2>1
  <2> DEFINE late == page[l - Len(rows)]
  <2>3. late \in Range(page) /\ late \in Filed /\ rows[k] \in Filed /\ Last(rows) \in Filed
    BY <2>1, <1>1, ElementOfSeq DEF Range, Last
  <2>4. Below(late, Last(rows))
    BY <2>2, <2>3
  <2>5. Last(rows) = rows[k] \/ Below(Last(rows), rows[k])
    BY <2>1, <1>1, <1>2, <1>5 DEF NewestFirst, Last
  <2>6. Below(late, rows[k])
    BY <2>3, <2>4, <2>5, FeedOrder
  <2> QED
    BY <2>6, <1>1, <1>2, <1>5
<1> QED
  BY <1>2, <1>3, <1>4, <1>5, <1>1

\* The rows of both tables make a page: what was there at first and is not on it is older
\* than all of it, and there is such a record only if the page is full.
LEMMA MergedPage ==
  ASSUME FeedInv, \A kind \in Kinds : reading[kind] # Unfiled
  PROVE  LET merged == Newest(UNION {reading[kind] : kind \in Kinds}, Limit)
         IN  /\ merged \subseteq Filed /\ IsFiniteSet(merged)
             /\ \A r \in merged : BelowCursor(r)
             /\ \A r \in began : BelowCursor(r) /\ r \notin merged =>
                  Cardinality(merged) = Limit /\ \A s \in merged : Below(r, s)
<1> DEFINE U == UNION {reading[kind] : kind \in Kinds}
           merged == Newest(U, Limit)
<1>1. FiledTyped /\ Limit \in Nat
  BY FeedAssumption DEF FeedInv, FeedTypeOK, FiledTyped, Limit
<1>2. U \in SUBSET Filed /\ \A r \in U : BelowCursor(r)
  BY DEF FeedInv, PageRead
<1>3. IsFiniteSet(U) /\ merged \in SUBSET U
  BY <1>2, FS_Subset DEF FeedInv, Newest
<1>4. ASSUME NEW r \in began, BelowCursor(r), r \notin merged
      PROVE  Cardinality(merged) = Limit /\ \A s \in merged : Below(r, s)
  <2>1. r \in Filed
    BY DEF FeedInv, NothingSkipped
  <2>2. Above(U, r) \in SUBSET U /\ Cardinality(Above(U, r)) \in Nat
    BY <1>3, FS_Subset, FS_CardinalityType DEF Above
  <2>3. Cardinality(Above(U, r)) >= Limit
    <3>1. CASE r \in U
      <4>1. ~ (Cardinality(Above(U, r)) < Limit)
        BY <3>1, <1>4 DEF Newest, Above
      <4> QED
        BY <4>1, <2>2, <1>1
    <3>2. CASE r \notin U
      <4> DEFINE kind == filed[r].kind
                 part == Above(reading[kind], r)
      <4>1. kind \in Kinds
        BY <1>1, <2>1, FiledFields
      <4>2. reading[kind] \subseteq U
        BY <4>1
      <4>3. Cardinality(part) >= Limit
        BY <4>1, <4>2, <1>4, <3>2 DEF FeedInv, PageRead
      <4>4. part \in SUBSET Above(U, r) /\ IsFiniteSet(Above(U, r))
        BY <4>2, <2>2, <1>3, FS_Subset DEF Above
      <4>5. Cardinality(part) <= Cardinality(Above(U, r)) /\ Cardinality(part) \in Nat
        BY <4>4, FS_Subset, FS_CardinalityType
      <4> HIDE DEF part
      <4> QED
        BY <4>3, <4>5, <2>2, <1>1
    <3> QED
      BY <3>1, <3>2
  <2> QED
    BY <2>1, <2>3, <1>1, <1>2, <1>3, OlderThanThePage
<1>5. merged \subseteq Filed /\ IsFiniteSet(merged) /\ \A r \in merged : BelowCursor(r)
  BY <1>2, <1>3, FS_Subset
<1> QED
  BY <1>4, <1>5

\* A merged page goes behind the rows on screen, and the cursor moves to its last row.
LEMMA MergeKeeps == FeedInv /\ MergePage => FeedInv'
<1> SUFFICES ASSUME FeedInv, MergePage PROVE FeedInv'
  OBVIOUS
<1> DEFINE merged == Newest(UNION {reading[kind] : kind \in Kinds}, Limit)
<1>1. FiledTyped /\ Limit \in Nat \ {0} /\ 0 \notin Filed
  BY FeedAssumption DEF FeedInv, FeedTypeOK, FiledTyped, Limit, Filed
<1>2. /\ merged \subseteq Filed /\ IsFiniteSet(merged)
      /\ \A r \in merged : BelowCursor(r)
      /\ \A r \in began : BelowCursor(r) /\ r \notin merged =>
           Cardinality(merged) = Limit /\ \A s \in merged : Below(r, s)
  BY MergedPage DEF MergePage
<1>3. PICK page \in [1..Cardinality(merged) -> merged] :
        /\ NewestFirst(page) /\ listed' = listed \o page
        /\ IF Len(page) = Limit THEN cursor' = Last(page) /\ UNCHANGED feed
           ELSE cursor' = 0 /\ feed' = "end"
  BY DEF MergePage
<1>4. reading' = NotReading /\ filed' = filed /\ began' = began
  BY DEF MergePage
<1>5. feed = "more" /\ ScreenInOrder /\ NothingSkipped
  BY DEF MergePage, FeedInv, PageRead, Kinds
<1> HIDE DEF merged
<1>6. page \in Seq(merged) /\ Len(page) = Cardinality(merged) /\ Range(page) = merged
  BY <1>1, <1>2, <1>3, PageListsItsRows
<1>7. page \in Seq(Filed) /\ listed \in Seq(Filed)
  BY <1>2, <1>5, <1>6, SeqMonotonic DEF ScreenInOrder
<1>8. listed' \in Seq(Filed) /\ Range(listed') = Range(listed) \cup merged
  BY <1>3, <1>6, <1>7, ConcatProperties, RangeConcatenation
<1>9. NewestFirst(listed')
  <2>1. listed # <<>> => \A r \in merged : Below(r, Last(listed))
    BY <1>2, <1>5 DEF ScreenInOrder, BelowCursor
  <2> QED
    BY <2>1, <1>1, <1>3, <1>5, <1>6, <1>7, ScreenGoesOn DEF ScreenInOrder
<1>10. Filed' = Filed /\ NewestFirst(listed)' /\ \A r, s : Below(r, s)' <=> Below(r, s)
  BY <1>4, <1>9 DEF Filed, NewestFirst, Below
<1>11. CASE Len(page) = Limit
  <2>1. cursor' = Last(page) /\ feed' = "more"
    BY <1>3, <1>5, <1>11
  <2>2. Len(page) \in DOMAIN page /\ page # <<>> /\ Last(page) \in merged
    BY <1>1, <1>6, <1>11, LenProperties, ElementOfSeq DEF Last
  <2>3. listed' # <<>> /\ Last(listed') = Last(page)
    <3>1. /\ Len(listed') = Len(listed) + Len(page) /\ Len(listed) \in Nat /\ Len(page) \in Nat
          /\ \A i \in 1..(Len(listed) + Len(page)) :
               listed'[i] = IF i <= Len(listed) THEN listed[i] ELSE page[i - Len(listed)]
      BY <1>3, <1>7, ConcatProperties, LenProperties
    <3>2. Len(page) > 0
      BY <1>1, <1>11
    <3>3. listed'[Len(listed')] = page[Len(page)]
      BY <3>1, <3>2
    <3>4. Len(listed') # 0
      BY <3>1, <3>2
    <3> QED
      BY <3>3, <3>4, EmptySeq DEF Last
  <2>4. ScreenInOrder'
    BY <2>1, <2>2, <2>3, <1>1, <1>2, <1>8, <1>10 DEF ScreenInOrder
  <2>5. ASSUME NEW r \in began, r \notin Range(listed')
        PROVE  Below(r, cursor')
    <3>1. BelowCursor(r) /\ r \notin merged
      BY <2>5, <1>5, <1>8 DEF NothingSkipped
    <3> QED
      BY <3>1, <1>2, <2>1, <2>2
  <2>6. NothingSkipped'
    BY <2>1, <2>5, <1>4, <1>5, <1>10 DEF NothingSkipped, BelowCursor
  <2>7. FeedTypeOK'
    <3>1. listed' \in Seq(Records)
      BY <1>8, SeqMonotonic DEF Filed
    <3>2. cursor' \in Records
      BY <2>1, <2>2, <1>2 DEF Filed
    <3> QED
      BY <3>1, <3>2, <2>1, <1>4, NotReadingTyped DEF FeedInv, FeedTypeOK
  <2>8. \A kind \in Kinds : PageRead(kind)'
    BY <1>4 DEF PageRead, NotReading
  <2> QED
    BY <2>4, <2>6, <2>7, <2>8, <1>10 DEF FeedInv
<1>12. CASE Len(page) # Limit
  <2>1. cursor' = 0 /\ feed' = "end"
    BY <1>3, <1>12
  <2>2. ScreenInOrder'
    BY <2>1, <1>8, <1>10 DEF ScreenInOrder
  <2>3. NothingSkipped'
    <3>1. ASSUME NEW r \in began PROVE r \in Range(listed')
      BY <1>2, <1>5, <1>6, <1>8, <1>12 DEF NothingSkipped
    <3> QED
      BY <3>1, <2>1, <1>4, <1>5, <1>10 DEF NothingSkipped
  <2>4. FeedTypeOK'
    <3>1. listed' \in Seq(Records)
      BY <1>8, SeqMonotonic DEF Filed
    <3> QED
      BY <3>1, <2>1, <1>4, NotReadingTyped DEF FeedInv, FeedTypeOK
  <2>5. \A kind \in Kinds : PageRead(kind)'
    BY <1>4 DEF PageRead, NotReading
  <2> QED
    BY <2>2, <2>3, <2>4, <2>5, <1>10 DEF FeedInv
<1> QED
  BY <1>11, <1>12

LEMMA FeedInvHolds == FeedSpec => []FeedInv
<1>1. FeedInv /\ UNCHANGED feedVars => FeedInv'
  BY DEF feedVars, FeedInv, FeedTypeOK, ScreenInOrder, NothingSkipped, PageRead, NewestFirst,
         Filed, Below, BelowCursor, Above, Limit, Last
<1>2. FeedInv /\ [FeedNext]_feedVars => FeedInv'
  BY <1>1, FileKeeps, OpenKeeps, MergeKeeps, FailKeeps, ReadKeeps DEF FeedNext
<1> QED
  BY <1>2, FeedInvInit, PTL DEF FeedSpec

\* Whatever is filed at whichever timestamp while the pages are read, the rows on screen
\* are in strict order and a feed that says it has ended shows every record that was filed
\* when it was opened, for pages of any size.
THEOREM FeedsReachEveryRow == FeedSpec => []FeedReachesEveryRow
<1>1. FeedInv => FeedReachesEveryRow
  BY DEF FeedInv, ScreenInOrder, NothingSkipped, FeedReachesEveryRow
<1> QED
  BY <1>1, FeedInvHolds, PTL

----------------------------------------------------------------------------
(* The services side by side *)

\* A behaviour of the services side by side is one of each of them: what is proved of a
\* service on its own holds where the runs check it among the others.
THEOREM EachServiceRuns ==
  Spec => /\ VerificationSpec /\ SupportSpec /\ WidgetSpec /\ WalletSpec
          /\ PushSpec /\ FeedSpec /\ AnnouncementSpec
<1>1. Init => /\ VerificationInit /\ SupportInit /\ WidgetInit /\ WalletInit
              /\ PushInit /\ FeedInit /\ AnnouncementInit
  BY DEF Init
<1>2. [Next]_desksVars =>
        /\ [VerificationNext]_verificationVars /\ [SupportNext]_supportVars
        /\ [WidgetNext]_widgetVars /\ [WalletNext]_walletVars /\ [PushNext]_pushVars
        /\ [FeedNext]_feedVars /\ [AnnouncementNext]_announcementVars
  BY DEF Next, VerificationStep, SupportStep, WidgetStep, WalletStep, PushStep, FeedStep,
         AnnouncementStep, desksVars
<1> QED
  BY <1>1, <1>2, PTL
     DEF Spec, VerificationSpec, SupportSpec, WidgetSpec, WalletSpec, PushSpec, FeedSpec,
         AnnouncementSpec

\* Whatever requests overlap and calls stop, each service's tables, requests and pages hold
\* what they may hold.
THEOREM DesksTypesHold == Spec => []DesksTypeOK
<1>1. VerificationSpec => []VerificationTypeOK
  <2>1. VerificationInit => VerificationTypeOK
    BY VerificationInvInit DEF VerificationInv
  <2> QED
    BY <2>1, VerificationTypesStep, PTL DEF VerificationSpec
<1>2. WidgetSpec => []WidgetTypeOK
  <2>1. WidgetInv => WidgetTypeOK
    BY DEF WidgetInv
  <2> QED
    BY <2>1, WidgetInvHolds, PTL
<1>3. WalletSpec => []WalletTypeOK
  <2>1. WalletInv => WalletTypeOK
    BY DEF WalletInv
  <2> QED
    BY <2>1, WalletInvInit, WalletInvStep, PTL DEF WalletSpec
<1>4. FeedSpec => []FeedTypeOK
  <2>1. FeedInv => FeedTypeOK
    BY DEF FeedInv
  <2> QED
    BY <2>1, FeedInvHolds, PTL
<1> QED
  BY <1>1, <1>2, <1>3, <1>4, EachServiceRuns, SupportTypesHold, PushTypesHold,
     AnnouncementTypesHold, PTL DEF DesksTypeOK
=============================================================================

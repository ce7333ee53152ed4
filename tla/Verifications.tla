---------------------------- MODULE Verifications ----------------------------
(***************************************************************************)
(* Identity verification (KYC): a customer submits a case with a picture   *)
(* of a document, an operator approves or rejects it.  Each await of the   *)
(* two use cases is a step.  Operators work the queue at the same time and *)
(* any request may stop between two steps; one customer's submissions      *)
(* follow one another (SerialSubmissions), different customers' do not.    *)
(* The names, dates and pictures of a case are left out: a picture is      *)
(* stored before the insert, and stays when the insert does not come.      *)
(***************************************************************************)
EXTENDS Integers

CONSTANTS Applicants,        \* the accounts that submit a case
          Reviewers,         \* the operators
          MaxCases,          \* bound: cases ever filed; their ids are 1..MaxCases
          SerialSubmissions, \* whether one customer submits one case at a time
          NoCase

ASSUME VerificationAssumption ==
  /\ MaxCases \in Nat /\ SerialSubmissions \in BOOLEAN
  /\ NoCase \notin [user : Applicants, status : {"pending", "approved", "rejected"},
                    decidedBy : Reviewers \cup {NoCase}]

VARIABLES
  cases,        \* identity_verifications: the row of each id, or NoCase
  submissions,  \* per customer, how far the submissions under way are
  reviews       \* per operator, the decision under way

verificationVars == <<cases, submissions, reviews>>

Cases == 1..MaxCases
Decided == {"approved", "rejected"}
CaseRow == [user : Applicants, status : {"pending"} \cup Decided,
            decidedBy : Reviewers \cup {NoCase}]
Stages == {"pending?", "approved?", "store", "save"}
Review == [at : {"idle"}] \cup [at : {"save"}, id : Cases, verdict : Decided]

VerificationInit ==
  /\ cases = [c \in Cases |-> NoCase]
  /\ submissions = [u \in Applicants |-> {}]
  /\ reviews = [r \in Reviewers |-> [at |-> "idle"]]

CasesOf(u) == {c \in Cases : cases[c] # NoCase /\ cases[c].user = u}

----------------------------------------------------------------------------
(* submitVerification: a customer's submissions are a set, two only by a race *)
StepsOn(u, at, next) == submissions' = [submissions EXCEPT ![u] = (@ \ {at}) \cup {next}]
DropSubmission(u, at) == submissions' = [submissions EXCEPT ![u] = @ \ {at}]

Submit(u) ==
  /\ SerialSubmissions => submissions[u] = {}
  /\ submissions' = [submissions EXCEPT ![u] = @ \cup {"pending?"}]
  /\ UNCHANGED <<cases, reviews>>

\* hasPending
CheckPending(u) ==
  /\ "pending?" \in submissions[u]
  /\ IF \E c \in CasesOf(u) : cases[c].status = "pending"
     THEN DropSubmission(u, "pending?") ELSE StepsOn(u, "pending?", "approved?")
  /\ UNCHANGED <<cases, reviews>>

\* Mutant: an account already verified may file another case.
ApprovedAlreadyNever(u) == FALSE
\* listForUser; the last twenty cases are all of them here.
ApprovedAlready(u) == \E c \in CasesOf(u) : cases[c].status = "approved"

CheckApproved(u) ==
  /\ "approved?" \in submissions[u]
  /\ IF ApprovedAlready(u) THEN DropSubmission(u, "approved?")
     ELSE StepsOn(u, "approved?", "store")
  /\ UNCHANGED <<cases, reviews>>

\* documents.put, and the date of birth that may turn out not to be one.
StoreDocument(u) ==
  /\ "store" \in submissions[u]
  /\ DropSubmission(u, "store") \/ StepsOn(u, "store", "save")
  /\ UNCHANGED <<cases, reviews>>

FileCase(u) ==
  /\ "save" \in submissions[u]
  /\ \E c \in Cases :
       /\ cases[c] = NoCase /\ \A d \in 1..(c - 1) : cases[d] # NoCase
       /\ cases' = [cases EXCEPT ![c] = [user |-> u, status |-> "pending", decidedBy |-> NoCase]]
  /\ DropSubmission(u, "save")
  /\ UNCHANGED reviews

StopSubmission(u) ==
  /\ \E at \in submissions[u] : DropSubmission(u, at)
  /\ UNCHANGED <<cases, reviews>>

----------------------------------------------------------------------------
(* decideVerification *)
MoveReview(r, to) == reviews' = [reviews EXCEPT ![r] = to]

\* find: a case somebody decided is answered with what was decided.
OpenCase(r, c, verdict) ==
  /\ reviews[r].at = "idle" /\ cases[c] # NoCase /\ cases[c].status = "pending"
  /\ MoveReview(r, [at |-> "save", id |-> c, verdict |-> verdict])
  /\ UNCHANGED <<cases, submissions>>

\* Mutant: the upsert without its where clause.
RecordDecisionBlindly(c, verdict, by) ==
  cases' = [cases EXCEPT ![c].status = verdict, ![c].decidedBy = by]
\* save: the upsert touches only a row that is still pending, and says nothing of it.
RecordDecision(c, verdict, by) ==
  cases' = IF cases[c].status = "pending"
           THEN [cases EXCEPT ![c].status = verdict, ![c].decidedBy = by] ELSE cases

\* The caller is answered, and the customer told, this verdict whatever the row says.
SaveDecision(r) ==
  /\ reviews[r].at = "save"
  /\ RecordDecision(reviews[r].id, reviews[r].verdict, r)
  /\ MoveReview(r, [at |-> "idle"])
  /\ UNCHANGED submissions

StopReview(r) ==
  /\ reviews[r].at # "idle" /\ MoveReview(r, [at |-> "idle"])
  /\ UNCHANGED <<cases, submissions>>

VerificationNext ==
  \/ \E u \in Applicants :
       \/ Submit(u) \/ CheckPending(u) \/ CheckApproved(u)
       \/ StoreDocument(u) \/ FileCase(u) \/ StopSubmission(u)
  \/ \E r \in Reviewers :
       \/ \E c \in Cases, verdict \in Decided : OpenCase(r, c, verdict)
       \/ SaveDecision(r) \/ StopReview(r)

VerificationSpec == VerificationInit /\ [][VerificationNext]_verificationVars

----------------------------------------------------------------------------
VerificationTypeOK ==
  /\ cases \in [Cases -> CaseRow \cup {NoCase}]
  /\ submissions \in [Applicants -> SUBSET Stages]
  /\ reviews \in [Reviewers -> Review]
  /\ \A r \in Reviewers : reviews[r].at = "save" => cases[reviews[r].id] # NoCase

\* Two operators may decide one case at once (decide-verification.ts:13-18): the decision
\* recorded first, its decider included, is never replaced by a later one.
DecisionIsFinal ==
  [][\A c \in Cases : cases[c] # NoCase /\ cases[c].status \in Decided => cases'[c] = cases[c]]_verificationVars

\* Whatever the operators decide between the checks of a submission and its insert, a
\* customer who submits one case at a time has at most one that is pending or approved.
OneCasePerCustomer ==
  SerialSubmissions => \A u \in Applicants : \A c, d \in CasesOf(u) :
    "rejected" \in {cases[c].status, cases[d].status} \/ c = d
=============================================================================

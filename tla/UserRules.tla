----------------------------- MODULE UserRules -----------------------------
(***************************************************************************)
(* The User aggregate in memory: what each decision makes of a row of the  *)
(* users table.  A lockout is a flag here: when it ends is a matter of the *)
(* clock, and the row is not touched when it does.                         *)
(***************************************************************************)
EXTENDS Integers

CONSTANTS
  MaxFailed,  \* MAX_FAILED_ATTEMPTS
  None        \* the null of the source

ASSUME MaxFailedAssumption == MaxFailed \in Nat \ {0}

\* Mutant: the threshold is missed by one.
RecordFailedAttemptLate(u) ==
  LET n == u.failed + 1
  IN [u EXCEPT !.failed = n, !.locked = n > MaxFailed,
               !.status = IF n > MaxFailed /\ @ = "active" THEN "locked" ELSE @]
RecordFailedAttempt(u) ==
  LET n == u.failed + 1
      over == n >= MaxFailed
  IN [u EXCEPT !.failed = n, !.locked = over,
               !.status = IF over /\ @ = "active" THEN "locked" ELSE @]

\* Mutant: whoever authenticates is active again.
RecordSuccessReviving(u) == [u EXCEPT !.failed = 0, !.locked = FALSE, !.status = "active"]
\* Mutant: the count goes back by one instead of to zero.
RecordSuccessStepBack(u) ==
  [u EXCEPT !.failed = @ - 1, !.locked = FALSE,
            !.status = IF @ = "locked" THEN "active" ELSE @]
RecordSuccess(u) ==
  [u EXCEPT !.failed = 0, !.locked = FALSE,
            !.status = IF @ = "locked" THEN "active" ELSE @]

ReplacePassword(u, p) == [u EXCEPT !.password = p]
VerifyEmail(u) == [u EXCEPT !.verified = TRUE]
Suspend(u) == [u EXCEPT !.status = "disabled"]
Reinstate(u) == [u EXCEPT !.status = "active", !.failed = 0, !.locked = FALSE]

\* What a reset makes of a row, and what the word of Google does.
Recovered(u, p) == VerifyEmail(RecordSuccess(ReplacePassword(u, p)))
Vouched(u) == VerifyEmail(RecordSuccess(u))
=============================================================================

----------------------------- MODULE LockBackoff -----------------------------
(***************************************************************************)
(* lock_file_timeout() (lockfile.c): try to create <path>.lock, retrying   *)
(* with quadratic backoff and random jitter.  Times are in milliseconds;   *)
(* other processes take and release the lock as they like.                 *)
(***************************************************************************)
EXTENDS Integers

CONSTANTS
  Timeouts,   \* the values of timeout_ms callers pass; -1 waits for ever
  Jitters,    \* the values of rand() % 500 that are tried
  MaxSlept    \* bound: a caller that waits for ever is followed this long

\* What the proofs assume of the constants
BackoffConstants ==
  /\ Timeouts \subseteq Nat \cup {-1}
  /\ Jitters \subseteq 0 .. 499
  /\ MaxSlept \in Nat

ASSUME BackoffAssumption == BackoffConstants

BACKOFF_MAX_MULTIPLIER == 1000

VARIABLES timeout, n, multiplier, remaining, slept, result

backoffVars == <<timeout, n, multiplier, remaining, slept, result>>

BackoffInit ==
  /\ timeout \in Timeouts
  /\ n = 1 /\ multiplier = 1
  /\ remaining = IF timeout > 0 THEN timeout ELSE 0
  /\ slept = 0
  /\ result = "trying"

\* lock_file() creates the file, or fails with something else than EEXIST.
Answer ==
  /\ result = "trying"
  /\ result' \in {"locked", "error"}
  /\ UNCHANGED <<timeout, n, multiplier, remaining, slept>>

\* Mutant: the wait that would exceed the timeout is not made.
GiveUpEarly ==
  /\ result = "trying"
  /\ timeout = 0 \/ (timeout > 0 /\ remaining <= multiplier)
  /\ result' = "timeout"
  /\ UNCHANGED <<timeout, n, multiplier, remaining, slept>>

\* EEXIST: with timeout_ms = 0 at once, else when no time remains
GiveUp ==
  /\ result = "trying"
  /\ timeout = 0 \/ (timeout > 0 /\ remaining <= 0)
  /\ result' = "timeout"
  /\ UNCHANGED <<timeout, n, multiplier, remaining, slept>>

\* Mutants: the multiplier is off by one; stays what it was.
NextMultiplierLess(k, m) == [n |-> k + 1, multiplier |-> m + 2 * k]
NextMultiplierSame(k, m) == [n |-> k + 1, multiplier |-> m]

\* (k + 1)^2 = k^2 + 2k + 1, up to the maximum
NextMultiplier(k, m) ==
  LET square == m + 2 * k + 1
  IN  IF square > BACKOFF_MAX_MULTIPLIER
      THEN [n |-> k, multiplier |-> BACKOFF_MAX_MULTIPLIER]
      ELSE [n |-> k + 1, multiplier |-> square]

\* Mutant: the thousandths are not divided out.
WaitMsUndivided(j, m) == (750 + j) * m

\* Between 0.75 and 1.25 of the backoff m, rounded down
WaitMs(j, m) == ((750 + j) * m) \div 1000

\* EEXIST, and time remains: sleep_millisec() and widen the next gap.
Sleep ==
  /\ result = "trying"
  /\ timeout # 0 /\ (timeout > 0 => remaining > 0)
  /\ timeout < 0 => slept <= MaxSlept
  /\ \E j \in Jitters :
       /\ slept' = slept + WaitMs(j, multiplier)
       /\ remaining' = remaining - WaitMs(j, multiplier)
  /\ n' = NextMultiplier(n, multiplier).n
  /\ multiplier' = NextMultiplier(n, multiplier).multiplier
  /\ UNCHANGED <<timeout, result>>

BackoffNext == Answer \/ GiveUp \/ Sleep

BackoffSpec == BackoffInit /\ [][BackoffNext]_backoffVars

-----------------------------------------------------------------------------
(* Properties *)

BackoffTypeOK ==
  /\ timeout \in Timeouts /\ n \in Nat /\ multiplier \in 1 .. BACKOFF_MAX_MULTIPLIER
  /\ remaining \in Int /\ slept \in Nat
  /\ result \in {"trying", "locked", "error", "timeout"}

\* "retrying with quadratic backoff for at least timeout_ms milliseconds": the
\* caller is told that the lock is held only after it has waited that long,
\* whatever the jitter and its rounding, and not at all if it waits for ever.
WaitsLongEnough ==
  result = "timeout" => timeout >= 0 /\ slept >= timeout

\* Nor does the last gap go far beyond: no gap is longer than 1.25 times "the
\* longest backoff period".
WaitsNotMuchLonger ==
  timeout >= 0 => slept < timeout + (5 * BACKOFF_MAX_MULTIPLIER) \div 4

Square(k) == k * k

\* "Recursion: (n+1)^2 = n^2 + 2n + 1": the gap grows with the square of the
\* number of attempts until it stays at the maximum.
Quadratic == multiplier = Square(n) \/ multiplier = BACKOFF_MAX_MULTIPLIER

\* A waiting caller does not spin, even though the first gap may be rounded down
\* to no time at all: n attempts take time that grows with the square of n, so a
\* caller with a timeout runs out of it.
AttemptsAreSpaced == n >= 2 => slept >= Square(n - 2)

\* "retrying with quadratic backoff for at least timeout_ms" (lockfile.h): a
\* caller learns that the lock is taken not before the timeout and at most one
\* longest gap after it, and the attempts in between are further and further
\* apart, with rounded and jittered gaps.
RetriesAsTold ==
  WaitsLongEnough /\ WaitsNotMuchLonger /\ Quadratic /\ AttemptsAreSpaced
=============================================================================

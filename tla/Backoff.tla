-------------------------------- MODULE Backoff --------------------------------
(***************************************************************************)
(* The delays between reconnects (local.go, Backoff), on durations of      *)
(* Width bits: time.Duration is a signed 64-bit integer and min << attempt *)
(* drops the bits that do not fit.                                         *)
(***************************************************************************)
EXTENDS Integers

CONSTANT Width    \* 64 in the code

ASSUME WidthAssumption == Width \in Nat \ {0, 1}

MaxDuration == 2^(Width - 1) - 1

\* The signed value of the low Width bits of n.
Wrap(n) ==
  LET low == n % 2^Width
  IN  IF low > MaxDuration THEN low - 2^Width ELSE low

\* Duration << attempt.
ShiftLeft(d, attempt) == IF attempt >= Width THEN 0 ELSE Wrap(d * 2^attempt)

\* nextBase's overflow test: "past max".
Capped(min, max, attempt) ==
  LET d == ShiftLeft(min, attempt) IN d <= 0 \/ d > max

NextBase(min, max, attempt) ==
  IF Capped(min, max, attempt) THEN max ELSE ShiftLeft(min, attempt)

NextAttempt(min, max, attempt) ==
  IF Capped(min, max, attempt) THEN attempt ELSE attempt + 1

\* The sum is formed before it is compared with max.
DelaysUnchecked(min, max, attempt) ==
  LET base == NextBase(min, max, attempt)
      jitterMax == base \div 5
      Least(a, b) == IF a < b THEN a ELSE b
  IN  IF jitterMax <= 0 THEN {base}
      ELSE {Least(Wrap(base + jitter), max) : jitter \in 0..(jitterMax - 1)}

\* What Next may return: the base plus a random jitter below a fifth of it,
\* without ever forming a sum above max.
Delays(min, max, attempt) ==
  LET base == NextBase(min, max, attempt)
      jitterMax == base \div 5
  IN  IF jitterMax <= 0 THEN {base}
      ELSE {IF jitter > max - base THEN max ELSE base + jitter : jitter \in 0..(jitterMax - 1)}
=============================================================================

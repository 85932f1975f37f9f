\* An array of 9 slots for requests of 3: room for three requests at most, so
\* that the producer wraps early, wraps at the exact end, and is refused; 16
\* bytes carry both indexes round the array more than once.
CONSTANTS
  Size = 9
  Expect = 3
  MaxBytes = 16
SPECIFICATION Spec
INVARIANTS NoOverlap AssertsHold
PROPERTY Implements

----------------------------- MODULE StrictInt -----------------------------
(***************************************************************************)
(* The operators of StrictInt<T> (src/core/types/int.h), for a type T of   *)
(* at least the width of int, where no operand is promoted.  A type is a   *)
(* record of its signedness and its bits.  An operator gives the set of    *)
(* outcomes a build can produce: the value returned, or what ends the      *)
(* program instead.  Asserts are on, as in the presets of the repository.  *)
(***************************************************************************)
EXTENDS Integers

\* 2^n.  A recursive function, which the provers can reason about.
Pow2[n \in Nat] == IF n = 0 THEN 1 ELSE 2 * Pow2[n - 1]

Lowest(t)  == IF t.signed THEN -Pow2[t.bits - 1] ELSE 0
Highest(t) == IF t.signed THEN Pow2[t.bits - 1] - 1 ELSE Pow2[t.bits] - 1
Values(t)  == Lowest(t)..Highest(t)

\* The value of type t congruent to n: what static_cast and the builtins
\* with overflow leave.
Wrap(t, n) == Lowest(t) + ((n - Lowest(t)) % Pow2[t.bits])

Returns(v) == {[status |-> "running", value |-> v]}
Ends(why)  == {[status |-> why, value |-> 0]}

\* operator+, operator-, operator* and negation without their assert.
Unchecked(t, n) == Returns(Wrap(t, n))

\* The same with the assert, but an unsigned result that does not wrap.
Unwrapped(t, n) ==
  IF t.signed /\ n \notin Values(t) THEN Ends("overflow") ELSE Returns(n)

\* operator+, operator-, operator* and negation, where n is their result
\* among the integers: only a signed type asserts that it fits.
Checked(t, n) ==
  IF t.signed /\ n \notin Values(t) THEN Ends("overflow") ELSE Returns(Wrap(t, n))

\* Division rounds toward zero, and the remainder has the dividend's sign.
Magnitude(n) == IF n < 0 THEN -n ELSE n
Quotient(a, b) ==
  LET q == Magnitude(a) \div Magnitude(b) IN IF (a < 0) = (b < 0) THEN q ELSE -q
Remainder(a, b) == a - b * Quotient(a, b)

\* operator/ and operator%.  Lowest divided by -1 is the one quotient that
\* does not fit; operator/ asserts against it, and operator% does not: its
\* division is undefined, and either traps or gives the true remainder.
Divide(t, a, b) ==
  IF b = 0 THEN Ends("zero")
  ELSE IF t.signed /\ a = Lowest(t) /\ b = -1 THEN Ends("overflow")
  ELSE Returns(Quotient(a, b))

Modulo(t, a, b) ==
  IF b = 0 THEN Ends("zero")
  ELSE IF t.signed /\ a = Lowest(t) /\ b = -1 THEN Ends("trap") \cup Returns(0)
  ELSE Returns(Remainder(a, b))

\* The number that the bits in S below the n-th make up.
BitSum[n \in Nat] ==
  [S \in SUBSET Nat |->
     IF n = 0 THEN 0
     ELSE BitSum[n - 1][S] + (IF n - 1 \in S THEN Pow2[n - 1] ELSE 0)]

\* The bits of a two's complement number, and back.
BitsOf(t, n) == {i \in 0..t.bits - 1 : (n \div Pow2[i]) % 2 = 1}
OfBits(t, S) == Wrap(t, BitSum[t.bits][S])

And(t, a, b) == Returns(OfBits(t, BitsOf(t, a) \cap BitsOf(t, b)))
Or(t, a, b)  == Returns(OfBits(t, BitsOf(t, a) \cup BitsOf(t, b)))
Xor(t, a, b) ==
  LET x == BitsOf(t, a)
      y == BitsOf(t, b)
  IN  Returns(OfBits(t, (x \ y) \cup (y \ x)))
Not(t, a) == Returns(OfBits(t, (0..t.bits - 1) \ BitsOf(t, a)))

\* A shift by a negative count or by the width or more is undefined: any
\* value may come of it.
Shifted(t, n, count) ==
  IF count \in 0..t.bits - 1 THEN Returns(Wrap(t, n))
  ELSE UNION {Returns(v) : v \in Values(t)}

ShiftLeft(t, a, b)  == Shifted(t, IF b < 0 THEN a ELSE a * Pow2[b], b)
ShiftRight(t, a, b) == Shifted(t, IF b < 0 THEN a ELSE a \div Pow2[b], b)
=============================================================================

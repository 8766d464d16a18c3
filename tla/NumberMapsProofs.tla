-------------------------- MODULE NumberMapsProofs --------------------------
(***************************************************************************)
(* The numeric typemaps, for all widths and all numbers: what fits in the  *)
(* C++ type and in the carrier arrives unchanged, and returns unchanged    *)
(* unless it is beyond 2^53 (RoundTrip), when it is rounded with the       *)
(* precision of a double (PreciseReturn); and whatever JavaScript passes,  *)
(* the C++ function receives a value of its type (InRange).                *)
(***************************************************************************)
EXTENDS NumberMaps, TLAPS

Even(m) == m \in Nat \ {0} /\ \E k \in Nat \ {0} : m = k + k

LEMMA Widths == Even(Mod16) /\ Even(Mod32) /\ Even(Mod64)
<1>1. \A m \in Nat \ {0} : m % 2 = 0 => Even(m)
  <2>. SUFFICES ASSUME NEW m \in Nat \ {0}, m % 2 = 0 PROVE Even(m)
    OBVIOUS
  <2>1. m = (m \div 2) + (m \div 2) /\ m \div 2 \in Nat \ {0}
    OBVIOUS
  <2>. QED
    BY <2>1 DEF Even
<1>2. ASSUME NEW m, Even(m), NEW k \in Nat \ {0} PROVE Even(k * m)
  <2>1. PICK j \in Nat \ {0} : m = j + j
    BY <1>2 DEF Even
  <2>2. k * m = k * j + k * j /\ k * j \in Nat \ {0} /\ k * m \in Nat \ {0}
    BY <2>1
  <2>. QED
    BY <2>2 DEF Even
<1>3. Even(Mod16)
  BY <1>1, WidthsAssumption
<1>4. Even(Mod32)
  <2>1. PICK k \in 1 .. Mod32 : Mod32 = k * Mod16
    BY WidthsAssumption
  <2>2. k \in Nat \ {0}
    BY <2>1, WidthsAssumption
  <2>. QED
    BY <1>2, <1>3, <2>1, <2>2
<1>5. Even(Mod64)
  <2>1. PICK k \in 1 .. Mod64 : Mod64 = k * Mod32
    BY WidthsAssumption
  <2>2. k \in Nat \ {0}
    BY <2>1, WidthsAssumption
  <2>. QED
    BY <1>2, <1>4, <2>1, <2>2
<1>. QED
  BY <1>3, <1>4, <1>5

LEMMA ModRange ==
  ASSUME NEW m \in Nat \ {0}, NEW x \in Int
  PROVE  x % m \in 0 .. m - 1
OBVIOUS

LEMMA ModSmall ==
  ASSUME NEW m \in Nat \ {0}, NEW x \in 0 .. m - 1
  PROVE  x % m = x
OBVIOUS

LEMMA ModNegative ==
  ASSUME NEW m \in Nat \ {0}, NEW x \in -m .. -1
  PROVE  x % m = x + m
OBVIOUS

LEMMA HalfOf ==
  ASSUME NEW m, Even(m)
  PROVE  /\ m \in Nat \ {0} /\ m \div 2 \in Nat \ {0}
         /\ m = (m \div 2) + (m \div 2)
BY DEF Even

\* Signed and Unsigned are conversions to their ranges,
LEMMA ConvertsInto ==
  ASSUME NEW m, Even(m), NEW x \in Int
  PROVE  Signed(x, m) \in WordRange(TRUE, m) /\ Unsigned(x, m) \in WordRange(FALSE, m)
<1>1. m \in Nat \ {0} /\ m \div 2 \in Nat \ {0} /\ m = (m \div 2) + (m \div 2)
  BY HalfOf
<1>2. x % m \in 0 .. m - 1
  BY <1>1, ModRange
<1>. QED
  BY <1>1, <1>2 DEF Signed, Unsigned, WordRange

\* and keep what is in them.
LEMMA Keeps ==
  ASSUME NEW m, Even(m)
  PROVE  /\ \A x \in WordRange(TRUE, m) : Signed(x, m) = x
         /\ \A x \in WordRange(FALSE, m) : Unsigned(x, m) = x
<1>1. m \in Nat \ {0} /\ m \div 2 \in Nat \ {0} /\ m = (m \div 2) + (m \div 2)
  BY HalfOf
<1>2. ASSUME NEW x \in WordRange(TRUE, m) PROVE Signed(x, m) = x
  <2>1. CASE x >= 0
    <3>1. x \in 0 .. m - 1 /\ x < m \div 2
      BY <1>1, <2>1, <1>2 DEF WordRange
    <3>2. x % m = x
      BY <1>1, <3>1, ModSmall
    <3>. QED
      BY <3>1, <3>2 DEF Signed
  <2>2. CASE x < 0
    <3>1. x \in -m .. -1 /\ x + m >= m \div 2 /\ x \in Int
      BY <1>1, <2>2, <1>2 DEF WordRange
    <3>2. x % m = x + m
      BY <1>1, <3>1, ModNegative
    <3>. QED
      BY <1>1, <3>1, <3>2 DEF Signed
  <2>3. x \in Int
    BY <1>1, <1>2 DEF WordRange
  <2>. QED
    BY <2>1, <2>2, <2>3
<1>3. ASSUME NEW x \in WordRange(FALSE, m) PROVE Unsigned(x, m) = x
  BY <1>1, <1>3, ModSmall DEF WordRange, Unsigned
<1>. QED
  BY <1>2, <1>3

LEMMA TruncateTwice == \A x \in Int : Truncate(2 * x) = x /\ 2 * x # NaN
BY NaNAssumption DEF Truncate

LEMMA WidthOf == \A t \in IntTypes : Even(Width(t))
BY Widths DEF Width

LEMMA ValuesOf ==
  ASSUME NEW t \in IntTypes
  PROVE  /\ Exact(t) \subseteq Held(t) /\ Held(t) \subseteq Values(t)
         /\ Values(t) \subseteq Int
<1>1. Width(t) \in Nat \ {0} /\ Width(t) \div 2 \in Nat
  BY WidthOf, HalfOf
<1>2. Values(t) \subseteq Int
  BY <1>1 DEF Values, WordRange
<1>. QED
  BY <1>2, Zenon DEF Exact, Held

LEMMA CastConverts ==
  ASSUME NEW t \in IntTypes, NEW x \in Int
  PROVE  Cast(t, x) \in Values(t)
<1>1. Signed(x, Width(t)) \in WordRange(TRUE, Width(t))
      /\ Unsigned(x, Width(t)) \in WordRange(FALSE, Width(t))
  BY WidthOf, ConvertsInto
<1>2. CASE IsSigned(t)
  <2>1. WordRange(TRUE, Width(t)) = Values(t) /\ Cast(t, x) = Signed(x, Width(t))
    BY <1>2, Zenon DEF Values, Cast, WordRange
  <2>. QED
    BY <1>1, <2>1, Zenon
<1>3. CASE ~IsSigned(t)
  <2>1. WordRange(FALSE, Width(t)) = Values(t) /\ Cast(t, x) = Unsigned(x, Width(t))
    BY <1>3, Zenon DEF Values, Cast, WordRange
  <2>. QED
    BY <1>1, <2>1, Zenon
<1>. QED
  BY <1>2, <1>3

LEMMA CastKeeps ==
  ASSUME NEW t \in IntTypes, NEW x \in Values(t)
  PROVE  Cast(t, x) = x
<1>1. CASE IsSigned(t)
  <2>1. x \in WordRange(TRUE, Width(t)) /\ Cast(t, x) = Signed(x, Width(t))
    BY <1>1, Zenon DEF Values, Cast, WordRange
  <2>. QED
    BY <2>1, WidthOf, Keeps, Zenon
<1>2. CASE ~IsSigned(t)
  <2>1. x \in WordRange(FALSE, Width(t)) /\ Cast(t, x) = Unsigned(x, Width(t))
    BY <1>2, Zenon DEF Values, Cast, WordRange
  <2>. QED
    BY <2>1, WidthOf, Keeps, Zenon
<1>. QED
  BY <1>1, <1>2

\* A 64-bit integer has a neighbour, and the rounded one is no farther from it
\* than half the distance of the neighbours.
LEMMA Rounds ==
  ASSUME NEW a \in Nat, NEW u \in Nat \ {0}
  PROVE  Round(a, u) \in Nat /\ 2 * Abs(Round(a, u) - a) <= u
<1>1. a % u \in 0 .. u - 1 /\ a % u <= a
  OBVIOUS
<1>2. CASE Round(a, u) = a - (a % u) /\ 2 * (a % u) <= u
  BY <1>1, <1>2 DEF Abs
<1>3. CASE Round(a, u) = a - (a % u) + u /\ 2 * (a % u) >= u
  BY <1>1, <1>3 DEF Abs
<1>. DEFINE even == (a - (a % u)) % (2 * u) = 0
<1>4. Round(a, u) = IF 2 * (a % u) < u \/ (2 * (a % u) = u /\ even)
                    THEN a - (a % u) ELSE a - (a % u) + u
  BY DEF Round
<1>. HIDE DEF even
<1>. QED
  BY <1>1, <1>2, <1>3, <1>4

LEMMA DoubleOf ==
  ASSUME NEW x \in WordRange(TRUE, Mod64)
  PROVE  /\ ToDouble(x) \in Int
         /\ Abs(x) <= Significand => ToDouble(x) = x
         /\ Precise(2 * ToDouble(x), x)
<1>1. /\ x \in Int /\ Abs(x) \in Nat /\ Abs(x) <= Mod64
      /\ Significand \in Nat \ {0}
  <2>1. Mod64 \in Nat \ {0} /\ Mod64 \div 2 \in Nat \ {0}
        /\ Mod64 = (Mod64 \div 2) + (Mod64 \div 2)
    BY Widths, HalfOf
  <2>. QED
    BY <2>1, DoublesAssumption DEF WordRange, Abs
<1>2. CASE Abs(x) <= Significand
  BY <1>1, <1>2 DEF ToDouble, Precise
<1>3. CASE ~(Abs(x) <= Significand)
  <2>. DEFINE a == Abs(x)
              u == CHOOSE v \in Units : IsUnit(v, a)
              y == Round(a, u)
  <2>1. u \in Nat \ {0} /\ IsUnit(u, a)
    <3>1. a \in Significand + 1 .. Mod64
      BY <1>1, <1>3
    <3>2. \E v \in Units : IsUnit(v, a)
      BY <3>1, DoublesAssumption
    <3>3. u \in Units /\ IsUnit(u, a)
      BY <3>2, Zenon
    <3>. QED
      BY <3>3, DoublesAssumption
  <2>2. y \in Nat /\ 2 * Abs(y - a) <= u
    BY <1>1, <2>1, Rounds
  <2>3. ToDouble(x) = IF x < 0 THEN -y ELSE y
    BY <1>3, Zenon DEF ToDouble
  <2>. HIDE DEF u, y
  <2>4. Abs(y - a) * Significand < a
    <3>. DEFINE e == Abs(y - a)
    <3>1. e \in Nat /\ a \in Nat /\ 2 * e <= u
      BY <1>1, <2>2 DEF Abs
    <3>. HIDE DEF e, a
    <3>2. Significand * (2 * e) <= Significand * u
      BY <1>1, <2>1, <3>1
    <3>3. Significand * (2 * e) = 2 * (e * Significand)
          /\ e * Significand \in Nat /\ Significand * u \in Nat
      BY <1>1, <2>1, <3>1
    <3>4. Significand * u < 2 * a
      BY <2>1 DEF IsUnit
    <3>5. 2 * (e * Significand) < 2 * a
      BY <3>1, <3>2, <3>3, <3>4
    <3>6. e * Significand < a
      BY <3>1, <3>3, <3>5
    <3>. QED
      BY <3>6 DEF e
  <2>5. ToDouble(x) \in Int /\ Abs(ToDouble(x) - x) = Abs(y - a)
    BY <1>1, <2>2, <2>3 DEF Abs
  <2>6. Abs(2 * ToDouble(x) - 2 * x) = 2 * Abs(y - a) /\ Abs(2 * x) = 2 * a
        /\ Abs(y - a) \in Nat
    BY <1>1, <2>2, <2>5 DEF Abs
  <2>7. 2 * Abs(y - a) * Significand < 2 * a
    <3>. DEFINE e == Abs(y - a)
    <3>1. e \in Nat /\ a \in Nat /\ e * Significand < a
      BY <1>1, <2>4, <2>6
    <3>. HIDE DEF e, a
    <3>2. 2 * e * Significand = 2 * (e * Significand) /\ e * Significand \in Nat
      BY <1>1, <3>1
    <3>3. 2 * e * Significand < 2 * a
      BY <3>1, <3>2
    <3>. QED
      BY <3>3 DEF e
  <2>. QED
    BY <1>3, <2>5, <2>6, <2>7 DEF Precise
<1>. QED
  BY <1>2, <1>3

\* An integer that fits in the C++ type and in the carrier that the table gives
\* it (nonumbermaps.h:125-134) arrives unchanged, and it comes back unchanged
\* unless it is a 64-bit integer that a double cannot hold (nonumbermaps.h:81).
THEOREM RoundTrip ==
  \A t \in IntTypes :
    /\ \A x \in Held(t) : FromJSNumber(t, 2 * x) = x
    /\ \A x \in Exact(t) : ToJSNumber(t, x) = 2 * x
<1>1. ASSUME NEW t \in IntTypes, NEW x \in Held(t)
      PROVE  /\ FromJSNumber(t, 2 * x) = x
             /\ x \in Exact(t) => ToJSNumber(t, x) = 2 * x
  <2>1. x \in Int /\ x \in Values(t) /\ Truncate(2 * x) = x /\ 2 * x # NaN
    BY <1>1, ValuesOf, TruncateTwice
  <2>2. Cast(t, x) = x
    BY <1>1, <2>1, CastKeeps
  <2>3. CASE Carrier(t) = "Int32"
    <3>1. x \in WordRange(TRUE, Mod32)
      BY <1>1, <2>3 DEF Held
    <3>2. Signed(x, Mod32) = x
      BY <3>1, Widths, Keeps
    <3>. QED
      BY <2>1, <2>2, <2>3, <3>2 DEF FromJSNumber, ToJSNumber, Int32Value
  <2>4. CASE Carrier(t) = "Uint32"
    <3>1. x \in WordRange(FALSE, Mod32)
      BY <1>1, <2>4 DEF Held
    <3>2. Unsigned(x, Mod32) = x
      BY <3>1, Widths, Keeps
    <3>. QED
      BY <2>1, <2>2, <2>4, <3>2 DEF FromJSNumber, ToJSNumber, Uint32Value
  <2>5. CASE Carrier(t) = "Int64"
    <3>1. x \in WordRange(TRUE, Mod64)
      BY <1>1, <2>5 DEF Held
    <3>2. Signed(x, Mod64) = x
      BY <3>1, Widths, Keeps
    <3>3. Mod64 \div 2 \in Nat
      BY Widths, HalfOf
    <3>4. Int64Value(2 * x) = x
      BY <2>1, <3>1, <3>3 DEF Int64Value, WordRange
    <3>5. x \in Exact(t) => ToDouble(x) = x
      <4>1. x \in Exact(t) => Abs(x) <= Significand
        BY <2>1, DoublesAssumption DEF Exact, Abs
      <4>. QED
        BY <3>1, <4>1, DoubleOf
    <3>6. FromJSNumber(t, 2 * x) = x
      BY <2>2, <2>5, <3>4 DEF FromJSNumber
    <3>7. ToJSNumber(t, x) = 2 * ToDouble(x)
      BY <2>5, <3>2 DEF ToJSNumber
    <3>. QED
      BY <3>5, <3>6, <3>7
  <2>. QED
    BY <1>1, <2>3, <2>4, <2>5 DEF Carrier, IntTypes
<1>. QED
  BY <1>1, ValuesOf

\* What comes back of any integer that the carrier holds has the precision of a
\* double, whatever the width.
THEOREM PreciseReturn ==
  \A t \in IntTypes : \A x \in Held(t) : Precise(ToJSNumber(t, x), x)
<1>. SUFFICES ASSUME NEW t \in IntTypes, NEW x \in Held(t)
     PROVE  Precise(ToJSNumber(t, x), x)
  OBVIOUS
<1>1. CASE Carrier(t) = "Int32"
  <2>1. x \in WordRange(TRUE, Mod32)
    BY <1>1 DEF Held
  <2>2. Signed(x, Mod32) = x
    BY <2>1, Widths, Keeps
  <2>. QED
    BY <1>1, <2>2 DEF ToJSNumber, Precise
<1>2. CASE Carrier(t) = "Uint32"
  <2>1. x \in WordRange(FALSE, Mod32)
    BY <1>2 DEF Held
  <2>2. Unsigned(x, Mod32) = x
    BY <2>1, Widths, Keeps
  <2>. QED
    BY <1>2, <2>2 DEF ToJSNumber, Precise
<1>3. CASE Carrier(t) = "Int64"
  <2>1. x \in WordRange(TRUE, Mod64)
    BY <1>3 DEF Held
  <2>2. ToJSNumber(t, x) = 2 * ToDouble(x)
    BY <1>3, <2>1, Widths, Keeps DEF ToJSNumber
  <2>. QED
    BY <2>1, <2>2, DoubleOf
<1>. QED
  BY <1>1, <1>2, <1>3 DEF Carrier, IntTypes

\* Whatever number JavaScript passes, the C++ function receives a value of its
\* parameter's type.
THEOREM InRange ==
  \A t \in IntTypes : \A h \in Int \cup {NaN} : FromJSNumber(t, h) \in Values(t)
<1>. SUFFICES ASSUME NEW t \in IntTypes, NEW h \in Int \cup {NaN}
     PROVE  FromJSNumber(t, h) \in Values(t)
  OBVIOUS
<1>1. \A x \in Int : Cast(t, x) \in Values(t)
  BY CastConverts
<1>2. h # NaN => Truncate(h) \in Int
  BY DEF Truncate
<1>3. Int32Value(h) \in Int
  <2>0. Mod32 \in Nat \ {0}
    BY Widths, HalfOf
  <2>1. Mod32 \in Nat \ {0} /\ \A x \in Int : x % Mod32 \in Int
    BY <2>0, ModRange
  <2>2. \A x \in Int : Signed(x, Mod32) \in Int
    <3>. SUFFICES ASSUME NEW x \in Int PROVE Signed(x, Mod32) \in Int
      OBVIOUS
    <3>1. x % Mod32 \in Int /\ (x % Mod32) - Mod32 \in Int
      BY <2>1
    <3>. QED
      BY <3>1 DEF Signed
  <2>. QED
    BY <1>2, <2>2 DEF Int32Value
<1>4. Uint32Value(h) \in Int
  <2>0. Mod32 \in Nat \ {0}
    BY Widths, HalfOf
  <2>1. \A x \in Int : Unsigned(x, Mod32) \in Int
    BY <2>0, ModRange DEF Unsigned
  <2>. QED
    BY <1>2, <2>1 DEF Uint32Value
<1>5. Int64Value(h) \in Int
  BY <1>2, Widths, HalfOf DEF Int64Value
<1>. QED
  BY <1>1, <1>3, <1>4, <1>5 DEF FromJSNumber, Carrier, IntTypes
=============================================================================

----------------------------- MODULE NumberMaps -----------------------------
(***************************************************************************)
(* The numeric typemaps of src/include/nonumbermaps.h.                     *)
(*                                                                         *)
(* A JavaScript number is converted in two steps: Node-API extracts a      *)
(* 32-bit or 64-bit integer or a double - the carrier that the table of    *)
(* the typemaps assigns to the C++ type - and static_cast makes it one of  *)
(* the C++ type.  The way back is a cast to the carrier and a new number.  *)
(*                                                                         *)
(* The widths are parameters: a w-bit type is given by Mod = 2^w.  A       *)
(* JavaScript number is an integer that counts halves, so that there are   *)
(* numbers with a fraction, or NaN, which stands for every non-finite one. *)
(* It is a double, which holds every integer up to 2^53, every other one   *)
(* up to 2^54, and so on: a 64-bit integer is rounded on its way back.     *)
(***************************************************************************)
EXTENDS Integers

CONSTANTS
  Mod16, Mod32, Mod64,
  Significand,  \* 2^53: no integer up to here is rounded
  Units,        \* the powers of two: how far apart the doubles beyond it can be
  NaN

ASSUME WidthsAssumption ==
  /\ Mod16 \in Nat \ {0} /\ Mod16 % 2 = 0
  /\ Mod32 \in Nat \ {0} /\ \E k \in 1 .. Mod32 : Mod32 = k * Mod16
  /\ Mod64 \in Nat \ {0} /\ \E k \in 1 .. Mod64 : Mod64 = k * Mod32
ASSUME NaNAssumption == NaN \notin Int

\* the distance of the doubles next to a
IsUnit(u, a) == a <= Significand * u /\ Significand * u < 2 * a
ASSUME DoublesAssumption ==
  /\ Significand \in Nat \ {0} /\ Mod32 <= Significand
  /\ Units \subseteq Nat \ {0}
  /\ \A a \in Significand + 1 .. Mod64 : \E u \in Units : IsUnit(u, a)

\* the integer types, which are signed, and how wide they are (LP64)
IntTypes == {"int", "short", "long", "unsigned", "unsigned short",
             "unsigned long", "long long", "unsigned long long"}
IsSigned(t) == t \in {"int", "short", "long", "long long"}
Width(t) == CASE t \in {"short", "unsigned short"} -> Mod16
              [] t \in {"int", "unsigned"} -> Mod32
              [] OTHER -> Mod64

\* the table TYPEMAPS_FOR_NUMBER(CTYPE, JSTYPE)
Carrier(t) == CASE t \in {"int", "short", "long"} -> "Int32"
                [] t \in {"unsigned", "unsigned short", "unsigned long"} -> "Uint32"
                [] t \in {"long long", "unsigned long long"} -> "Int64"
                [] OTHER -> "Double"

\* conversion to a signed and to an unsigned integer of m values
Unsigned(x, m) == x % m
Signed(x, m) == IF x % m < m \div 2 THEN x % m ELSE (x % m) - m

Abs(x) == IF x < 0 THEN -x ELSE x

\* conversion to a double: to the nearest one, ties to the even one
Round(a, u) ==
  LET down == a - (a % u)
  IN  IF 2 * (a % u) < u \/ (2 * (a % u) = u /\ down % (2 * u) = 0)
      THEN down ELSE down + u
ToDouble(x) ==
  IF Abs(x) <= Significand THEN x
  ELSE LET nearest == Round(Abs(x), CHOOSE u \in Units : IsUnit(u, Abs(x)))
       IN  IF x < 0 THEN -nearest ELSE nearest

\* towards zero
Truncate(h) == IF h >= 0 THEN h \div 2 ELSE -((-h) \div 2)

(***************************************************************************)
(* Node-API: napi_get_value_int32, _uint32 and _int64.  The first two keep *)
(* the low bits, the last one saturates; non-finite numbers become 0.      *)
(***************************************************************************)
Int32Value(h) == IF h = NaN THEN 0 ELSE Signed(Truncate(h), Mod32)
Uint32Value(h) == IF h = NaN THEN 0 ELSE Unsigned(Truncate(h), Mod32)
Int64Value(h) ==
  IF h = NaN THEN 0
  ELSE IF Truncate(h) >= Mod64 \div 2 THEN Mod64 \div 2 - 1
  ELSE IF Truncate(h) < -(Mod64 \div 2) THEN -(Mod64 \div 2)
  ELSE Truncate(h)

\* static_cast<T>
Cast(t, x) == IF IsSigned(t) THEN Signed(x, Width(t)) ELSE Unsigned(x, Width(t))

\* Mutant of FromJSNumber: the unsigned typemaps use Int32Value.
FromJSInt32Only(t, h) ==
  CASE Carrier(t) \in {"Int32", "Uint32"} -> Int32Value(h)
    [] Carrier(t) = "Int64"  -> Cast(t, Int64Value(h))
    [] OTHER -> h

\* FromJSInt32, FromJSUint32, FromJSInt64, FromJSDouble
FromJSNumber(t, h) ==
  CASE Carrier(t) = "Int32"  -> Cast(t, Int32Value(h))
    [] Carrier(t) = "Uint32" -> Cast(t, Uint32Value(h))
    [] Carrier(t) = "Int64"  -> Cast(t, Int64Value(h))
    [] OTHER -> h

\* ToJSInt32, ToJSUint32, ToJSInt64, ToJSDouble: Napi::Number::New() takes a
\* double, which holds every 32-bit integer
ToJSNumber(t, x) ==
  CASE Carrier(t) = "Int32"  -> 2 * Signed(x, Mod32)
    [] Carrier(t) = "Uint32" -> 2 * Unsigned(x, Mod32)
    [] Carrier(t) = "Int64"  -> 2 * ToDouble(Signed(x, Mod64))
    [] OTHER -> x

(***************************************************************************)
(* What the typemaps promise.                                              *)
(***************************************************************************)
WordRange(signed, m) == IF signed THEN -(m \div 2) .. m \div 2 - 1 ELSE 0 .. m - 1

\* the values of a C++ integer type, those that the carrier can hold, too - long
\* is 64 bits wide and travels in 32 - and those that are not rounded either
Values(t) == WordRange(IsSigned(t), Width(t))
Held(t) ==
  Values(t) \cap CASE Carrier(t) = "Int32"  -> WordRange(TRUE, Mod32)
                   [] Carrier(t) = "Uint32" -> WordRange(FALSE, Mod32)
                   [] OTHER -> WordRange(TRUE, Mod64)
Exact(t) == Held(t) \cap -Significand .. Significand

\* the relative error of a rounded number is less than 1 / 2^53
Precise(h, x) == h = 2 * x \/ Abs(h - 2 * x) * Significand < Abs(2 * x)
=============================================================================

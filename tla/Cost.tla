-------------------------------- MODULE Cost --------------------------------
(***************************************************************************)
(* The pre-flight cost estimate of cost.py.  A model name, lower-cased and *)
(* stripped, is a sequence of segments.  Prices and costs are floats, and  *)
(* a float is counted here in units of the least positive one, so that it  *)
(* is an integer: in Python 1.0 has 2^1074 units, neighbouring floats are  *)
(* a power of two apart, and every product and quotient is rounded to the  *)
(* nearest float, to an even multiple of the distance when it lies midway. *)
(***************************************************************************)
EXTENDS Integers, FiniteSetsExt, Sequences

CONSTANTS
    PriceTable,    \* a function from the known names to their prices
    DefaultPrice,  \* the price of every other name
    PriceUnit,     \* the tokens a price is for (1,000,000)
    One,           \* the units in 1.0
    Mantissa,      \* 2 to the bits of a mantissa (2^53)
    Spacings       \* the distances between neighbouring floats

ASSUME PriceTableAssumption ==
    /\ \A name \in DOMAIN PriceTable : name \in Seq(STRING) /\ PriceTable[name] \in Nat
    /\ DefaultPrice \in Nat

ASSUME FloatAssumption ==
    /\ PriceUnit \in Nat \ {0} /\ One \in Nat \ {0} /\ Mantissa \in Nat \ {0}
    /\ 1 \in Spacings /\ Spacings \subseteq Nat \ {0}
    /\ \A s \in Spacings \ {1} : \E t \in Spacings : s = 2 * t
    /\ \E largest \in Spacings : \A s \in Spacings : s <= largest

-----------------------------------------------------------------------------
(* Floats.                                                                 *)

(* The distance between the floats around n / d, whose multiples they are. *)
Spacing(n, d) == Max({s \in Spacings : s = 1 \/ s * Mantissa * d <= 2 * n})

(* n / d rounded to an integer.                                            *)
HalfEven(n, d) ==
    LET down == n \div d
    IN  IF 2 * (n % d) < d \/ (2 * (n % d) = d /\ down % 2 = 0) THEN down ELSE down + 1

(* n / d rounded to a float, a function of n.                              *)
DividedBy(d) == [n \in Nat |-> Spacing(n, d) * HalfEven(n, Spacing(n, d) * d)]

-----------------------------------------------------------------------------
(* Prices and costs.                                                       *)

PrefixOf(s, t) == Len(s) <= Len(t) /\ SubSeq(t, 1, Len(s)) = s

(* The known names a name starts with.                                     *)
KnownPrefixes(model) == {name \in DOMAIN PriceTable : PrefixOf(name, model)}

(* The longest known prefix; an exact match is its own longest prefix.     *)
PricePerM(model) ==
    IF KnownPrefixes(model) = {}
    THEN DefaultPrice
    ELSE PriceTable[CHOOSE name \in KnownPrefixes(model) :
                       \A other \in KnownPrefixes(model) : Len(other) <= Len(name)]

(* Four characters are a token, and a prompt has at least one.             *)
TokenCount(length) == LET count == DividedBy(4)[length * One] IN IF count < One THEN One ELSE count

CostAt(price, length) == DividedBy(One)[DividedBy(PriceUnit)[TokenCount(length)] * price]

EstimateCost(model, length) == CostAt(PricePerM(model), length)

-----------------------------------------------------------------------------
(* What rounding may do.  The exact cost is Exact / Scale units, and the   *)
(* estimate is at most Slack / (2 * Scale) units away from it: half a      *)
(* distance for the quotient, which the price magnifies, and half a one    *)
(* for the product.                                                        *)
Scale == One * PriceUnit

Exact(price, length) == TokenCount(length) * price

Slack(price, length) ==
    LET perToken == DividedBy(PriceUnit)[TokenCount(length)]
    IN  PriceUnit * (Spacing(perToken * price, One) * One
                        + Spacing(TokenCount(length), PriceUnit) * price)

=============================================================================

----------------------------- MODULE Measurements -----------------------------
(***************************************************************************)
(* Measurements: magnitudes with units, their arithmetic, conversion and   *)
(* comparison (measurement/measurement.py), and the model field that       *)
(* stores one as a base magnitude and a unit (measurement_field.py).       *)
(*                                                                         *)
(* A magnitude is a rational <<n, d>>; a unit is the bag of its components, *)
(* a function from names to powers.  Decimals are exact here: their 28     *)
(* digits are not modelled, the digits a column keeps are.  Units with an  *)
(* offset (temperatures) are left to pint.                                 *)
(***************************************************************************)
EXTENDS Integers, Sequences, FiniteSets, FiniteSetsExt, Functions

CONSTANTS
  Kind,          \* unit name -> its dimension, "none" for a mere ratio
  Factor,        \* unit name -> its size in the base unit of the dimension
  Currencies,    \* names that are currencies: each a dimension of its own
  Amounts,       \* the measurements the program makes: [mag, unit]
  Scalars,       \* plain numbers, rationals
  Targets,       \* units converted to
  BaseUnits,     \* base_unit of the model fields
  Quantum,       \* the last decimal place of a field's column
  MaxOperations  \* bound: operations in a row

VARIABLES
  cur,       \* the measurement at hand, or the error that ended the computation
  truth,     \* what it has to amount to: [val, dim], in base units
  said,      \* the last comparison: what was asked and what it answered
  cell,      \* the model field: base unit, base magnitude and unit of its columns
  operations

measureVars == <<cur, truth, said, cell, operations>>

RECURSIVE Gcd(_, _)
Gcd(a, b) == IF b = 0 THEN a ELSE Gcd(b, a % b)
Abs(n) == IF n < 0 THEN -n ELSE n
Rat(n, d) ==
  LET g == Gcd(Abs(n), Abs(d)) IN IF d < 0 THEN <<-n \div g, -d \div g>> ELSE <<n \div g, d \div g>>
Plus(p, q) == Rat(p[1] * q[2] + q[1] * p[2], p[2] * q[2])
Times(p, q) == Rat(p[1] * q[1], p[2] * q[2])
Over(p, q) == Rat(p[1] * q[2], p[2] * q[1])
Negated(p) == <<-p[1], p[2]>>
Less(p, q) == p[1] * q[2] < q[1] * p[2]
Power(p, n) ==
  LET Positive == Rat(p[1] ^ Abs(n), p[2] ^ Abs(n))
  IN  IF n < 0 THEN Over(<<1, 1>>, Positive) ELSE Positive

\* quantize: to the nearest multiple of q, a tie to the even one.
Quantized(p, q) ==
  LET x == Over(p, q)
      low == x[1] \div x[2]
      twice == 2 * (x[1] - low * x[2])
      up == twice > x[2] \/ (twice = x[2] /\ low % 2 = 1)
  IN  Times(<<IF up THEN low + 1 ELSE low, 1>>, q)

-----------------------------------------------------------------------------
(* Units. *)

dimensionless == [n \in {} |-> 0]
Single(name) == [n \in {name} |-> 1]
PowerIn(u, n) == IF n \in DOMAIN u THEN u[n] ELSE 0
UnitOf(p(_), names) == [n \in {m \in names : p(m) # 0} |-> p(n)]
Product(u, w, sign) ==
  LET p(n) == PowerIn(u, n) + sign * PowerIn(w, n) IN UnitOf(p, DOMAIN u \union DOMAIN w)

_unit_dimensionality(u) ==
  LET p(k) == FoldSet(LAMBDA n, sum : sum + u[n], 0, {n \in DOMAIN u : Kind[n] = k})
  IN  UnitOf(p, {Kind[n] : n \in DOMAIN u} \ {"none"})

\* What one of the unit is in base units.
Size(u) == FoldSet(LAMBDA n, size : Times(size, Power(Factor[n], u[n])), <<1, 1>>, DOMAIN u)

InBase(m) == [val |-> Times(m.mag, Size(m.unit)), dim |-> _unit_dimensionality(m.unit)]

is_currency(u) == \E c \in Currencies : u = Single(c)
CurrenciesIn(u) == {c \in Currencies : c \in DOMAIN u}

\* _currency_component: the only currency among the components, if it is one.
_currency_component(u) == IF Cardinality(CurrenciesIn(u)) = 1 THEN CurrenciesIn(u) ELSE {}

\* _exact_currency_per_unit_product: a price per unit times as many units.
_exact_currency_per_unit_product(left, right) ==
  {c \in Currencies : Cardinality(DOMAIN right) = 1 /\ left = Product(Single(c), right, -1)}

_scalar_arithmetic_preserves_unit(u) == u = dimensionless \/ _unit_dimensionality(u) # dimensionless

\* pint reduces components of one dimension to one of them.
Reduced(mag, u) ==
  LET twins == {p \in (DOMAIN u) \X (DOMAIN u) : p[1] # p[2] /\ Kind[p[1]] = Kind[p[2]]
                                              /\ Kind[p[1]] # "none"} IN
  IF twins = {} THEN [mag |-> mag, unit |-> u]
  ELSE LET t == CHOOSE p \in twins : TRUE
           p(n) == IF n = t[1] THEN u[t[1]] + u[t[2]] ELSE IF n = t[2] THEN 0 ELSE u[n]
       IN  [mag |-> Times(mag, Power(Over(Factor[t[2]], Factor[t[1]]), u[t[2]])),
            unit |-> UnitOf(p, DOMAIN u)]

\* convert_magnitude, between units of one dimension.
Convertible(from, to) == _unit_dimensionality(from) = _unit_dimensionality(to)
convert_magnitude(mag, from, to) == Times(mag, Over(Size(from), Size(to)))

-----------------------------------------------------------------------------
(* Operations: each gives a measurement or an error. *)

Error(name) == [error |-> name]
IsError(m) == "error" \in DOMAIN m

__add__(a, b) ==
  IF a.unit = b.unit THEN [mag |-> Plus(a.mag, b.mag), unit |-> a.unit]
  ELSE IF is_currency(a.unit) /\ is_currency(b.unit) THEN Error("CurrencyMismatch")
  ELSE IF is_currency(a.unit) # is_currency(b.unit) THEN Error("MixedUnit")
  ELSE IF ~ Convertible(a.unit, b.unit) THEN Error("IncompatibleUnits")
  ELSE [mag |-> Plus(a.mag, convert_magnitude(b.mag, b.unit, a.unit)), unit |-> a.unit]

__sub__(a, b) == __add__(a, [b EXCEPT !.mag = Negated(@)])

__mul__(a, b) ==
  LET money == _exact_currency_per_unit_product(a.unit, b.unit)
               \union _exact_currency_per_unit_product(b.unit, a.unit)
  IN  IF is_currency(a.unit) /\ is_currency(b.unit) THEN Error("CurrencyScalar")
      ELSE IF money # {}
      THEN [mag |-> Times(a.mag, b.mag), unit |-> Single(CHOOSE c \in money : TRUE)]
      ELSE Reduced(Times(a.mag, b.mag), Product(a.unit, b.unit, 1))

__truediv__(a, b) ==
  IF is_currency(a.unit) /\ is_currency(b.unit) /\ a.unit # b.unit
  THEN Error("CurrencyMismatch")
  ELSE Reduced(Over(a.mag, b.mag), Product(a.unit, b.unit, -1))

\* Mutant: a percentage times a number stays one, with its magnitude divided.
PercentTwice(a, mag) ==
  IF a.unit = Single("percent")
  THEN [mag |-> Over(mag, <<100, 1>>), unit |-> Single("percent")]
  ELSE [mag |-> mag, unit |-> a.unit]

\* By a number: a percentage becomes a plain number, other units are kept; what
\* is left (a ratio of ratios) goes through pint, which keeps the unit.
ByNumber(a, mag) ==
  IF a.unit = Single("percent")
  THEN [mag |-> Over(mag, <<100, 1>>), unit |-> dimensionless]
  ELSE [mag |-> mag, unit |-> a.unit]

\* __rtruediv__: a number by a measurement.
__rtruediv__(a, s) == [mag |-> Over(s, a.mag), unit |-> Product(dimensionless, a.unit, -1)]

\* to: rate is <<>> without an exchange rate.
to(a, target, rate) ==
  LET from == _currency_component(a.unit)
      into == _currency_component(target)
      c == CHOOSE x \in from : TRUE
      d == CHOOSE x \in into : TRUE
      crosses == from # {} /\ into # {} /\ from # into
      rest(u, name) == Product(u, [n \in {name} |-> u[name]], -1)
  IN
  IF a.unit = target THEN a
  ELSE IF crosses /\ rate = <<>> THEN Error("MissingExchangeRate")
  ELSE IF crosses /\ a.unit[c] = target[d]
  THEN IF Convertible(rest(a.unit, c), rest(target, d))
       THEN [mag |-> Times(convert_magnitude(a.mag, rest(a.unit, c), rest(target, d)),
                           Power(rate[1], a.unit[c])),
             unit |-> target]
       ELSE Error("Dimensionality")
  ELSE IF is_currency(a.unit)
  THEN IF rate = <<>> THEN Error("MissingExchangeRate")
       ELSE [mag |-> Times(a.mag, rate[1]), unit |-> target]
  ELSE IF ~ Convertible(a.unit, target) THEN Error("Dimensionality")
  ELSE [mag |-> convert_magnitude(a.mag, a.unit, target), unit |-> target]

\* _compare: in the unit of the left side; __hash__: in base units.
_compare(a, b, op) ==
  LET right == convert_magnitude(b.mag, b.unit, a.unit)
  IN  IF ~ Convertible(a.unit, b.unit) THEN "incomparable"
      ELSE IF CASE op = "eq" -> a.mag = right
                [] op = "lt" -> Less(a.mag, right)
                [] op = "ge" -> ~ Less(a.mag, right)
           THEN "yes" ELSE "no"
__hash__(a) == <<InBase(a).val, InBase(a).dim>>

-----------------------------------------------------------------------------
(* The field. *)

NoCell == [base |-> dimensionless, value |-> <<>>, unit |-> dimensionless]

\* __set__: money goes into a field of money only, and units have to fit.
Accepts(base, m) ==
  is_currency(base) = is_currency(m.unit) /\ Convertible(m.unit, base)
_normalize_base_magnitude(mag) == Quantized(mag, Quantum)

\* get_prep_value: what a lookup compares the column with.
get_prep_value(base, m) ==
  _normalize_base_magnitude(convert_magnitude(m.mag, m.unit, base))

\* Mutant: an assignment is not rounded to the digits of the column.
AssignsUnrounded(base, m) ==
  [base |-> base, value |-> convert_magnitude(m.mag, m.unit, base), unit |-> m.unit]

__set__(base, m) == [base |-> base, value |-> get_prep_value(base, m), unit |-> m.unit]
_from_stored_components(c) ==
  [mag |-> convert_magnitude(c.value, c.base, c.unit), unit |-> c.unit]

-----------------------------------------------------------------------------
(* A computation. *)

MeasureInit ==
  /\ cur \in Amounts /\ truth = InBase(cur)
  /\ said = <<>> /\ cell = NoCell /\ operations = 0

Computes(result, val, dim) ==
  /\ operations < MaxOperations
  /\ operations' = operations + 1
  /\ cur' = result
  /\ truth' = IF IsError(result) THEN truth ELSE [val |-> val, dim |-> dim]
  /\ said' = <<>> /\ UNCHANGED cell

Adds(b) == Computes(__add__(cur, b), Plus(truth.val, InBase(b).val), truth.dim)
Subtracts(b) ==
  Computes(__sub__(cur, b), Plus(truth.val, Negated(InBase(b).val)), truth.dim)
Multiplies(b) ==
  Computes(__mul__(cur, b), Times(truth.val, InBase(b).val),
           Product(truth.dim, InBase(b).dim, 1))
Divides(b) ==
  b.mag[1] # 0 /\ Computes(__truediv__(cur, b), Over(truth.val, InBase(b).val),
                           Product(truth.dim, InBase(b).dim, -1))
Scales(s) ==
  Computes(ByNumber(cur, Times(cur.mag, s)), Times(truth.val, s), truth.dim)
DividesByNumber(s) ==
  s[1] # 0 /\ Computes(ByNumber(cur, Over(cur.mag, s)), Over(truth.val, s), truth.dim)
DividesNumber(s) ==
  cur.mag[1] # 0 /\ Computes(__rtruediv__(cur, s), Over(s, truth.val),
                             Product(dimensionless, truth.dim, -1))

\* A rate is what one of the source currency is worth in the target's unit.
Converts(target, rate) ==
  LET same == _unit_dimensionality(target) = truth.dim
      exponent == IF is_currency(cur.unit) THEN 1
                  ELSE cur.unit[CHOOSE c \in CurrenciesIn(cur.unit) : TRUE]
  IN  Computes(to(cur, target, rate),
               IF same THEN truth.val
               ELSE Times(Times(truth.val, Power(rate[1], exponent)),
                          IF is_currency(cur.unit) THEN Size(target) ELSE <<1, 1>>),
               _unit_dimensionality(target))

Compares(b, op) ==
  /\ said = <<>>
  /\ said' = <<op, b, _compare(cur, b, op)>>
  /\ UNCHANGED <<cur, truth, cell, operations>>

\* The measurement is assigned to a field and saved: the computation ends.
Stores(base) ==
  /\ cell = NoCell /\ Accepts(base, cur)
  /\ cell' = __set__(base, cur)
  /\ operations' = MaxOperations
  /\ UNCHANGED <<cur, truth, said>>

MeasureNext ==
  /\ ~ IsError(cur)
  /\ \/ \E b \in Amounts : Adds(b) \/ Subtracts(b) \/ Multiplies(b) \/ Divides(b)
     \/ \E s \in Scalars : Scales(s) \/ DividesByNumber(s) \/ DividesNumber(s)
     \/ \E target \in Targets, rate \in {<<>>} \union {<<s>> : s \in Scalars} :
          (rate # <<>> => rate[1][1] > 0) /\ Converts(target, rate)
     \/ \E b \in Amounts, op \in {"eq", "lt", "ge"} : Compares(b, op)
     \/ \E base \in BaseUnits : Stores(base)

-----------------------------------------------------------------------------
(* Properties. *)

\* A chain of sums, products, conversions and exchanges amounts to the same as
\* its operations on base units, through every fast path (Measurement).
AmountsRight == ~ IsError(cur) => InBase(cur) = truth

\* No sum, difference or comparison joins two currencies or two dimensions, and
\* two measurements that are equal have one hash.
ComparesRight ==
  /\ said # <<>> =>
       LET b == InBase(said[2]) IN
       IF b.dim # truth.dim THEN said[3] = "incomparable"
       ELSE said[3] = IF CASE said[1] = "eq" -> truth.val = b.val
                           [] said[1] = "lt" -> Less(truth.val, b.val)
                           [] said[1] = "ge" -> ~ Less(truth.val, b.val)
                      THEN "yes" ELSE "no"
  /\ ~ IsError(cur) =>
       \A b \in Amounts : _compare(cur, b, "eq") = "yes" => __hash__(cur) = __hash__(b)

\* A stored measurement keeps its unit and its value but for the last decimal
\* place of the column; saving what was read changes nothing, and a lookup by an
\* equal measurement finds the row (MeasurementField).
StoresRight ==
  cell # NoCell =>
    LET m == _from_stored_components(cell)
        kept == Over(InBase(m).val, Size(cell.base))
        given == Over(truth.val, Size(cell.base))
        off == Plus(kept, Negated(given))
    IN
    /\ InBase(m).dim = _unit_dimensionality(cell.base)
    /\ __set__(cell.base, m) = cell
    /\ ~ Less(Quantum, Times(<<2, 1>>, off))
    /\ ~ Less(Times(<<2, 1>>, off), Negated(Quantum))
    /\ \A b \in Amounts : InBase(b) = truth => get_prep_value(cell.base, b) = cell.value

=============================================================================

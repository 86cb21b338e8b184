----------------------------- MODULE FieldsProofs -----------------------------
(***************************************************************************)
(* Theorems about the values of a field (Fields): a row means what was     *)
(* written, for every value, field, time zone, enum and clock.             *)
(***************************************************************************)
EXTENDS Library, TLAPS

Null == Fld!None
ValueTypes == {"int", "bool", "decimal", "datetime", "delta", "enum", "list", "str", "text"}
Values == [type : ValueTypes, n : Int, off : Int]

\* The types of the values that an attribute may have, and a column
AttrTypes ==
    [IntField |-> {"int"}, BooleanField |-> {"int", "bool"},
     DecimalField |-> {"int", "decimal"}, DatetimeField |-> {"datetime"},
     TimeDeltaField |-> {"delta"}, IntEnumField |-> {"int", "enum"},
     JSONField |-> {"list", "str"}, CharField |-> {"text"}]
CellTypes ==
    [IntField |-> {"int"}, BooleanField |-> {"int"}, DecimalField |-> {"decimal"},
     DatetimeField |-> {"datetime"}, TimeDeltaField |-> {"int"}, IntEnumField |-> {"int"},
     JSONField |-> {"str"}, CharField |-> {"text"}]

\* Values of attributes and of columns.  A list is not text that is no JSON.
Held(v) ==
    \/ v = Null
    \/ /\ v \in Values /\ v.type \in AttrTypes[field.type]
       /\ v.type = "list" => v.n # Fld!Invalid
Cell(v) ==
    \/ v = Null
    \/ /\ v \in Values /\ v.type \in CellTypes[field.type]
       /\ v.type = "str" => v.n # Fld!Invalid

\* ReadsBack, of a column that holds c and was meant to be m
Reads(c, m) ==
    LET u == Fld!_init_from_db(c)
        again == Fld!to_db_value(u)
    IN  IF Fld!IsException(u)
        THEN \/ c = Null \/ field.type = "DecimalField"
             \/ field.type = "DatetimeField" /\ Fld!is_naive(c) /\ ~Fld!Once(c.n)
        ELSE /\ Fld!Meaning(u) = m
             /\ ~Fld!IsException(again) => Fld!Meaning(Fld!_init_from_db(again)) = m

\* The field and the time zone of init() stay what they are.
Settings ==
    /\ field \in Fld!FieldsOf /\ tz \in [use : BOOLEAN, zone : Zones] /\ clock \in Int

FieldInv ==
    /\ Settings /\ error \in Fld!Exceptions \cup {""}
    /\ \A v : v = attr => Held(v)
    /\ \A c, m : c = cell /\ m = wrote => Cell(c) /\ Reads(c, m)

\* What save() and update() write of a value can be read, as what the value meant.
Written(u) ==
    LET w == Fld!to_db_value(u)
    IN  Fld!IsException(w) \/ (Cell(w) /\ Reads(w, Fld!Meaning(u)))
\* What is read or passed is of the field's types, or an exception.
Read(v) == Fld!IsException(v) \/ Held(v)

LEMMA Typed ==
    ASSUME Settings
    PROVE  /\ field.type \in Fld!Types /\ field.null \in BOOLEAN
           /\ tz.zone \in Zones /\ tz.use \in BOOLEAN
BY DEF Settings, Fld!FieldsOf

-----------------------------------------------------------------------------
(* Values *)

LEMMA PlainIs ==
    /\ \A t, n : /\ Fld!Plain(t, n).type = t /\ Fld!Plain(t, n).n = n
                 /\ Fld!Plain(t, n).off = 0
                 /\ t \in ValueTypes /\ n \in Int => Fld!Plain(t, n) \in Values
                 /\ Fld!IsException(Fld!Plain(t, n)) <=> t \in Fld!Exceptions
    /\ Null.type = "None" /\ ~Fld!IsException(Null)
    /\ \A e \in Fld!Exceptions : Fld!Exception(e).type = e /\ Fld!IsException(Fld!Exception(e))
BY DEF Null, Values, Fld!None, Fld!Plain, Fld!Value, Fld!Exception, Fld!IsException, Fld!Exceptions

\* No value that is held is an exception, and only None is of its type.
LEMMA HeldIs ==
    ASSUME Settings, NEW v, (Held(v) \/ Cell(v)), v # Null
    PROVE  /\ ~Fld!IsException(v) /\ v.type # "None"
           /\ v \in Values /\ v.n \in Int /\ v.off \in Int
BY Typed DEF Held, Cell, Values, AttrTypes, CellTypes, Fld!IsException, Fld!Exceptions, Fld!Types

\* validate() yields what it is given, or an exception.
LEMMA Validated ==
    ASSUME NEW v
    PROVE  /\ Fld!validate(v) \in {v, Fld!Exception("ValidationError")}
           /\ Fld!IsException(Fld!Exception("ValidationError"))
BY PlainIs DEF Fld!validate, Fld!Exceptions

\* What the conversions do with a value, an exception and None
LEMMA Converted ==
    ASSUME NEW v
    PROVE  LET same == Fld!IsException(v) \/ v = Null
               pick(a, b) == IF same THEN a ELSE b
           IN  /\ \A t : Fld!field_type(v, t)
                    = pick(v, Fld!Plain(t, IF t = "bool" /\ v.n # 0 THEN 1 ELSE v.n))
               /\ Fld!Quantized(v)
                    = pick(v, Fld!Plain("decimal", Fld!quantize(Fld!Hundredths(v))))
               /\ Fld!enum_type(v)
                    = pick(v, IF v.n \in Members THEN Fld!Plain("enum", v.n)
                              ELSE Fld!Exception("ValueError"))
               /\ Fld!to_db_bool(v) = pick(v, Fld!Plain("int", IF v.n # 0 THEN 1 ELSE 0))
BY DEF Null, Fld!field_type, Fld!Quantized, Fld!enum_type, Fld!to_db_bool, Fld!Or

\* None stays None, or is refused.
LEMMA NullConverts ==
    ASSUME Settings
    PROVE  /\ Fld!to_db_value(Null) = Null \/ Fld!IsException(Fld!to_db_value(Null))
           /\ Fld!to_python_value(Null) = Null \/ Fld!IsException(Fld!to_python_value(Null))
           /\ Fld!_init_from_db(Null) = Null \/ Fld!IsException(Fld!_init_from_db(Null))
           /\ Fld!Meaning(Null) = Null
<1>1. /\ \A t : Fld!field_type(Null, t) = Null
      /\ Fld!Quantized(Null) = Null /\ Fld!enum_type(Null) = Null /\ Fld!to_db_bool(Null) = Null
  BY Converted
<1>2. Fld!validate(Null) = Null \/ Fld!IsException(Fld!validate(Null))
  BY Validated
<1>3. Null.type = "None" /\ ~Fld!IsException(Null)
  BY PlainIs
<1>4. Fld!to_db_value(Null) = Null \/ Fld!IsException(Fld!to_db_value(Null))
  BY <1>1, <1>2, <1>3, Typed
     DEF Null, Fld!to_db_value, Fld!Types, Fld!to_db_decimal, Fld!to_db_datetime, Fld!Or,
         Fld!Checked
<1>5. Fld!to_python_value(Null) = Null \/ Fld!IsException(Fld!to_python_value(Null))
  BY <1>1, <1>2, <1>3, Typed DEF Null, Fld!to_python_value, Fld!Types, Fld!Or, Fld!Checked
<1>6. Fld!_init_from_db(Null) = Null \/ Fld!IsException(Fld!_init_from_db(Null))
  BY <1>1, <1>5 DEF Fld!_init_from_db
<1>7. Fld!Meaning(Null) = Null
  BY <1>1, <1>3 DEF Null, Fld!Meaning, Fld!Or
<1> QED BY <1>4, <1>5, <1>6, <1>7

LEMMA NullWritten ==
    ASSUME Settings
    PROVE  Reads(Null, Null) /\ Written(Null) /\ Cell(Null) /\ Held(Null)
BY NullConverts, PlainIs DEF Reads, Written, Cell, Held

-----------------------------------------------------------------------------
(* One field after the other *)

\* Facts about the plain values of a type, and about None
LEMMA PlainOf ==
    ASSUME NEW t \in ValueTypes, NEW n \in Int
    PROVE  /\ Fld!Plain(t, n) \in Values /\ Fld!Plain(t, n) # Null
           /\ Fld!Plain(t, n).type = t /\ Fld!Plain(t, n).n = n
           /\ ~Fld!IsException(Fld!Plain(t, n))
<1>1. t \notin Fld!Exceptions /\ t # "None"
  BY DEF Fld!Exceptions, ValueTypes
<1>2. Fld!Plain(t, n) \in Values /\ Fld!Plain(t, n).type = t /\ Fld!Plain(t, n).n = n
  BY <1>1, PlainIs
<1>3. ~Fld!IsException(Fld!Plain(t, n))
  BY <1>1, PlainIs
<1>4. Null.type = "None"
  BY PlainIs
<1> QED BY <1>1, <1>2, <1>3, <1>4

LEMMA IntConverts ==
    ASSUME field.type = "IntField", NEW v, v # Null, ~Fld!IsException(v)
    PROVE  /\ Fld!to_db_value(v) = Fld!validate(Fld!Plain("int", v.n))
           /\ Fld!to_python_value(v) = Fld!validate(Fld!Plain("int", v.n))
           /\ Fld!_init_from_db(v) = v
           /\ v.type = "int" => Fld!Meaning(v) = Fld!Plain("value", v.n)
<1>1. Fld!field_type(v, "int") = Fld!Plain("int", v.n)
  BY Converted
<1>2. Fld!to_db_value(v) = Fld!validate(Fld!Plain("int", v.n))
  BY <1>1 DEF Fld!to_db_value
<1>3. Fld!to_python_value(v) = Fld!validate(Fld!Plain("int", v.n))
  BY <1>1 DEF Fld!to_python_value
<1>4. Fld!_init_from_db(v) = v
  BY DEF Fld!_init_from_db
<1>5. v.type = "int" => Fld!Meaning(v) = Fld!Plain("value", v.n)
  BY DEF Null, Fld!Meaning, Fld!Or
<1> QED BY <1>2, <1>3, <1>4, <1>5

LEMMA IntWritten ==
    ASSUME Settings, field.type = "IntField", NEW u, Held(u), u # Null
    PROVE  Written(u) /\ Read(Fld!to_python_value(u))
<1>1. u.type = "int" /\ u.n \in Int /\ ~Fld!IsException(u)
  BY HeldIs DEF Held, AttrTypes
<1> DEFINE w == Fld!Plain("int", u.n)
<1>2. /\ w.type = "int" /\ w.n = u.n /\ w \in Values /\ w # Null /\ ~Fld!IsException(w)
  BY <1>1, PlainOf DEF ValueTypes
<1>3. /\ Fld!to_db_value(u) = Fld!validate(w) /\ Fld!to_db_value(w) = Fld!validate(w)
      /\ Fld!to_python_value(u) = Fld!validate(w)
      /\ Fld!_init_from_db(w) = w /\ Fld!Meaning(w) = Fld!Meaning(u)
  BY <1>1, <1>2, IntConverts
<1>4. Fld!validate(w) = w \/ Fld!IsException(Fld!validate(w))
  BY Validated
<1>5. Cell(w) /\ Held(w)
  BY <1>2 DEF Cell, Held, CellTypes, AttrTypes
<1> HIDE DEF w
<1> QED BY <1>2, <1>3, <1>4, <1>5 DEF Written, Reads, Read

LEMMA CharConverts ==
    ASSUME field.type = "CharField", NEW v, v # Null, ~Fld!IsException(v)
    PROVE  /\ Fld!to_db_value(v) = Fld!validate(Fld!Plain("text", v.n))
           /\ Fld!to_python_value(v) = Fld!validate(Fld!Plain("text", v.n))
           /\ Fld!_init_from_db(v) = v
           /\ v.type = "text" => Fld!Meaning(v) = Fld!Plain("value", v.n)
<1>1. Fld!field_type(v, "text") = Fld!Plain("text", v.n)
  BY Converted
<1>2. Fld!to_db_value(v) = Fld!validate(Fld!Plain("text", v.n))
  BY <1>1 DEF Fld!to_db_value
<1>3. Fld!to_python_value(v) = Fld!validate(Fld!Plain("text", v.n))
  BY <1>1 DEF Fld!to_python_value
<1>4. Fld!_init_from_db(v) = v
  BY DEF Fld!_init_from_db
<1>5. v.type = "text" => Fld!Meaning(v) = Fld!Plain("value", v.n)
  BY DEF Null, Fld!Meaning, Fld!Or
<1> QED BY <1>2, <1>3, <1>4, <1>5

LEMMA CharWritten ==
    ASSUME Settings, field.type = "CharField", NEW u, Held(u), u # Null
    PROVE  Written(u) /\ Read(Fld!to_python_value(u))
<1>1. u.type = "text" /\ u.n \in Int /\ ~Fld!IsException(u)
  BY HeldIs DEF Held, AttrTypes
<1> DEFINE w == Fld!Plain("text", u.n)
<1>2. /\ w.type = "text" /\ w.n = u.n /\ w \in Values /\ w # Null /\ ~Fld!IsException(w)
  BY <1>1, PlainOf DEF ValueTypes
<1>3. /\ Fld!to_db_value(u) = Fld!validate(w) /\ Fld!to_db_value(w) = Fld!validate(w)
      /\ Fld!to_python_value(u) = Fld!validate(w)
      /\ Fld!_init_from_db(w) = w /\ Fld!Meaning(w) = Fld!Meaning(u)
  BY <1>1, <1>2, CharConverts
<1>4. Fld!validate(w) = w \/ Fld!IsException(Fld!validate(w))
  BY Validated
<1>5. Cell(w) /\ Held(w)
  BY <1>2 DEF Cell, Held, CellTypes, AttrTypes
<1> HIDE DEF w
<1> QED BY <1>2, <1>3, <1>4, <1>5 DEF Written, Reads, Read

LEMMA BooleanConverts ==
    ASSUME field.type = "BooleanField", NEW v, v # Null, ~Fld!IsException(v)
    PROVE  LET b == IF v.n # 0 THEN 1 ELSE 0
           IN  /\ Fld!to_db_value(v) = Fld!Plain("int", b)
               /\ Fld!to_python_value(v)
                    = Fld!validate(Fld!Plain("bool", IF v.n # 0 THEN 1 ELSE v.n))
               /\ Fld!_init_from_db(v) = Fld!Plain("bool", IF v.n # 0 THEN 1 ELSE v.n)
               /\ v.type \in {"int", "bool"} => Fld!Meaning(v) = Fld!Plain("value", b)
<1>1. /\ Fld!field_type(v, "bool") = Fld!Plain("bool", IF v.n # 0 THEN 1 ELSE v.n)
      /\ Fld!to_db_bool(v) = Fld!Plain("int", IF v.n # 0 THEN 1 ELSE 0)
  BY Converted
<1>2. Fld!to_db_value(v) = Fld!Plain("int", IF v.n # 0 THEN 1 ELSE 0)
  BY <1>1 DEF Fld!to_db_value
<1>3. Fld!to_python_value(v) = Fld!validate(Fld!Plain("bool", IF v.n # 0 THEN 1 ELSE v.n))
  BY <1>1 DEF Fld!to_python_value
<1>4. Fld!_init_from_db(v) = Fld!Plain("bool", IF v.n # 0 THEN 1 ELSE v.n)
  BY <1>1 DEF Fld!_init_from_db
<1>5. v.type \in {"int", "bool"} =>
          Fld!Meaning(v) = Fld!Plain("value", IF v.n # 0 THEN 1 ELSE 0)
  BY DEF Null, Fld!Meaning, Fld!Or
<1> QED BY <1>2, <1>3, <1>4, <1>5

LEMMA BooleanWritten ==
    ASSUME Settings, field.type = "BooleanField", NEW u, Held(u), u # Null
    PROVE  Written(u) /\ Read(Fld!to_python_value(u))
<1>1. u.type \in {"int", "bool"} /\ u.n \in Int /\ ~Fld!IsException(u)
  BY HeldIs DEF Held, AttrTypes
<1> DEFINE b == IF u.n # 0 THEN 1 ELSE 0
           w == Fld!Plain("int", b)
           r == Fld!Plain("bool", b)
<1>2. b \in {0, 1} /\ (IF u.n # 0 THEN 1 ELSE u.n) = b
  BY <1>1
<1>3. /\ w.type = "int" /\ w.n = b /\ w \in Values /\ w # Null /\ ~Fld!IsException(w)
      /\ r.type = "bool" /\ r.n = b /\ r \in Values /\ r # Null /\ ~Fld!IsException(r)
  BY <1>2, PlainOf DEF ValueTypes
<1> HIDE DEF b
<1>4. (IF b # 0 THEN 1 ELSE 0) = b /\ (IF b # 0 THEN 1 ELSE b) = b
  BY <1>2
<1>5. Fld!to_db_value(u) = w /\ Fld!to_python_value(u) = Fld!validate(r)
  BY <1>1, <1>2, BooleanConverts DEF b
<1>6. Fld!Meaning(u) = Fld!Plain("value", b)
  BY <1>1, BooleanConverts DEF b
<1> HIDE DEF w, r
<1>7. Fld!_init_from_db(w) = r
  BY <1>3, <1>4, BooleanConverts DEF r
<1>8. Fld!Meaning(r) = Fld!Plain("value", b) /\ Fld!to_db_value(r) = w
  BY <1>3, <1>4, BooleanConverts DEF w
<1>9. Fld!validate(r) = r \/ Fld!IsException(Fld!validate(r))
  BY Validated
<1>10. Cell(w) /\ Held(r)
  BY <1>3 DEF Cell, Held, CellTypes, AttrTypes
<1> QED BY <1>3, <1>5, <1>6, <1>7, <1>8, <1>9, <1>10 DEF Written, Reads, Read

\* Rounding to one decimal place again changes nothing.
LEMMA QuantizedOnce ==
    ASSUME NEW n \in Int
    PROVE  Fld!quantize(n) \in Int /\ Fld!quantize(Fld!quantize(n)) = Fld!quantize(n)
<1>1. \A m \in Int : m % 10 = 0 => Fld!quantize(m) = m
  BY DEF Fld!quantize
<1>2. Fld!quantize(n) \in Int /\ Fld!quantize(n) % 10 = 0
  BY DEF Fld!quantize
<1> QED BY <1>1, <1>2

LEMMA DecimalConverts ==
    ASSUME field.type = "DecimalField", NEW v, v # Null, ~Fld!IsException(v),
           v.type # "datetime" /\ v.type # "delta"
    PROVE  LET d == Fld!Plain("decimal", Fld!quantize(Fld!Hundredths(v)))
           IN  /\ Fld!to_db_value(v) = d /\ Fld!Meaning(v) = d
               /\ Fld!to_python_value(v) = Fld!validate(d)
               /\ Fld!_init_from_db(v) = Fld!validate(d)
<1> DEFINE d == Fld!Plain("decimal", Fld!quantize(Fld!Hundredths(v)))
<1>1. Fld!Quantized(v) = d
  BY Converted
<1> HIDE DEF d
<1>2. Fld!to_db_value(v) = d
  BY <1>1 DEF Fld!to_db_value, Fld!to_db_decimal
<1>3. Fld!Meaning(v) = d
  BY <1>1 DEF Fld!Meaning
<1>4. Fld!to_python_value(v) = Fld!validate(d)
  BY <1>1 DEF Fld!to_python_value
<1>5. Fld!_init_from_db(v) = Fld!validate(d)
  BY <1>4 DEF Fld!_init_from_db
<1> QED BY <1>2, <1>3, <1>4, <1>5 DEF d

LEMMA DecimalWritten ==
    ASSUME Settings, field.type = "DecimalField", NEW u, Held(u), u # Null
    PROVE  Written(u) /\ Read(Fld!to_python_value(u))
<1>1. u.type \in {"int", "decimal"} /\ u.n \in Int /\ ~Fld!IsException(u)
  BY HeldIs DEF Held, AttrTypes
<1> DEFINE q == Fld!quantize(Fld!Hundredths(u))
           w == Fld!Plain("decimal", q)
<1>2. Fld!Hundredths(u) \in Int
  BY <1>1 DEF Fld!Hundredths
<1>3. q \in Int /\ Fld!quantize(q) = q
  BY <1>2, QuantizedOnce
<1>4. /\ Fld!to_db_value(u) = w /\ Fld!Meaning(u) = w
      /\ Fld!to_python_value(u) = Fld!validate(w)
  BY <1>1, DecimalConverts
<1> HIDE DEF q
<1>5. /\ w.type = "decimal" /\ w.n = q /\ w \in Values /\ w # Null /\ ~Fld!IsException(w)
  BY <1>3, PlainOf DEF ValueTypes
<1>6. Fld!quantize(Fld!Hundredths(w)) = q
  BY <1>3, <1>5 DEF Fld!Hundredths
<1>7. /\ Fld!to_db_value(w) = w /\ Fld!Meaning(w) = w
      /\ Fld!_init_from_db(w) = Fld!validate(w)
  <2> HIDE DEF w
  <2>1. w.type # "datetime" /\ w.type # "delta"
    BY <1>5
  <2>2. /\ Fld!to_db_value(w) = Fld!Plain("decimal", Fld!quantize(Fld!Hundredths(w)))
        /\ Fld!Meaning(w) = Fld!Plain("decimal", Fld!quantize(Fld!Hundredths(w)))
        /\ Fld!_init_from_db(w)
              = Fld!validate(Fld!Plain("decimal", Fld!quantize(Fld!Hundredths(w))))
    BY <1>5, <2>1, DecimalConverts
  <2> QED BY <1>6, <2>2 DEF w
<1>8. Fld!validate(w) = w \/ Fld!IsException(Fld!validate(w))
  BY Validated
<1>9. Cell(w) /\ Held(w)
  BY <1>5 DEF Cell, Held, CellTypes, AttrTypes
<1> HIDE DEF w
<1> QED BY <1>4, <1>5, <1>7, <1>8, <1>9 DEF Written, Reads, Read

\* Only fields of numbers and of text have validators.
LEMMA NoValidators ==
    ASSUME Settings, NEW v,
           field.type \in {"BooleanField", "DatetimeField", "TimeDeltaField", "JSONField"}
    PROVE  Fld!validate(v) = v
BY DEF Settings, Fld!FieldsOf, Fld!validate, Fld!Passes, Fld!Numbers

\* A zone has an offset at any instant, and local times have such offsets.
LEMMA ZoneOffsets ==
    ASSUME Settings
    PROVE  /\ \A i : Fld!offset(i) \in Int /\ Fld!offset(i) # Fld!Naive
           /\ \A o \in Fld!Offsets : o \in Int /\ o # Fld!Naive
<1>1. /\ tz.zone.first \in Int /\ tz.zone.first # Fld!Naive
      /\ \A c \in DOMAIN Fld!changes : Fld!changes[c] \in Int /\ Fld!changes[c] # Fld!Naive
  <2>1. tz.zone \in Zones
    BY Typed
  <2>2. /\ tz.zone.first \in Int \ {Fld!Naive}
        /\ \A c \in DOMAIN tz.zone.changes : tz.zone.changes[c] \in Int \ {Fld!Naive}
    BY <2>1, FieldsAssumption, Zenon
  <2> QED BY <2>2, Zenon DEF Fld!changes
<1>2. ASSUME NEW i
      PROVE  Fld!offset(i) \in Int /\ Fld!offset(i) # Fld!Naive
  <2>1. CASE \E c \in DOMAIN Fld!changes : Fld!Latest(c, i)
    <3> DEFINE c == CHOOSE d \in DOMAIN Fld!changes : Fld!Latest(d, i)
    <3>1. c \in DOMAIN Fld!changes
      BY <2>1
    <3>2. Fld!offset(i) = Fld!changes[c]
      BY <2>1, Zenon DEF Fld!offset
    <3> HIDE DEF c
    <3> QED BY <1>1, <3>1, <3>2
  <2>2. CASE ~\E c \in DOMAIN Fld!changes : Fld!Latest(c, i)
    <3>1. Fld!offset(i) = tz.zone.first
      BY <2>2, Zenon DEF Fld!offset
    <3> QED BY <1>1, <3>1
  <2> QED BY <2>1, <2>2
<1>3. ASSUME NEW o \in Fld!Offsets
      PROVE  o \in Int /\ o # Fld!Naive
  BY <1>1 DEF Fld!Offsets
<1> QED BY <1>2, <1>3

\* An instant's local time is one with the offset of that instant.
LEMMA AtIs ==
    ASSUME Settings, NEW i \in Int
    PROVE  /\ Fld!At(i) \in Values /\ Fld!At(i).type = "datetime"
           /\ Fld!At(i).n = i + Fld!offset(i) /\ Fld!At(i).off = Fld!offset(i)
           /\ ~Fld!is_naive(Fld!At(i)) /\ Fld!At(i).n - Fld!At(i).off = i
<1>1. Fld!offset(i) \in Int /\ Fld!offset(i) # Fld!Naive
  BY ZoneOffsets
<1>2. (i + Fld!offset(i)) - Fld!offset(i) = i
  BY <1>1
<1>3. i + Fld!offset(i) \in Int
  BY <1>1
<1> DEFINE n == i + Fld!offset(i)
<1>4. Fld!At(i) = [type |-> "datetime", n |-> n, off |-> Fld!offset(i)]
  BY DEF Fld!At, Fld!Value
<1> HIDE DEF n
<1>5. /\ Fld!At(i).type = "datetime" /\ Fld!At(i).n = n /\ Fld!At(i).off = Fld!offset(i)
  BY <1>4
<1>6. Fld!At(i) \in Values
  BY <1>1, <1>3, <1>4 DEF Values, ValueTypes, n
<1> QED BY <1>1, <1>2, <1>5, <1>6 DEF n, Fld!is_naive

\* A datetime that has an offset, or of which the zone has one, is an instant, that is read
\* as the zone's time of it; another naive one cannot be read.
LEMMA DatetimeConverts ==
    ASSUME Settings, field.type = "DatetimeField", NEW v \in Values, v # Null,
           ~Fld!IsException(v), v.type = "datetime"
    PROVE  /\ Fld!to_db_value(v) = v
           /\ Fld!_init_from_db(v) = Fld!to_python_value(v)
           /\ ~Fld!is_naive(v) => /\ Fld!Meaning(v) = Fld!Plain("instant", v.n - v.off)
                                  /\ Fld!to_python_value(v) = Fld!At(v.n - v.off)
           /\ \/ \E i \in Int : /\ Fld!Meaning(v) = Fld!Plain("instant", i)
                                /\ Fld!to_python_value(v) = Fld!At(i)
              \/ /\ Fld!is_naive(v) /\ ~Fld!Once(v.n)
                 /\ Fld!IsException(Fld!to_python_value(v))
<1> DEFINE z == IF Fld!is_naive(v) THEN Fld!make_aware(v) ELSE Fld!localtime(v)
<1>1. v.n \in Int /\ v.off \in Int
  BY DEF Values
<1>2. Fld!to_db_value(v) = v
  BY DEF Fld!to_db_value, Fld!to_db_datetime
<1>3. Fld!to_python_value(v) = Fld!Checked(z)
  BY DEF Null, Fld!to_python_value, Fld!Or
<1>4. Fld!to_python_value(v) = z
  BY <1>3, NoValidators DEF Fld!Checked
<1>5. Fld!_init_from_db(v) = Fld!to_python_value(v)
  BY DEF Fld!_init_from_db
<1>6. Fld!Meaning(v) = Fld!Instant(v)
  BY DEF Fld!Meaning
<1>7. CASE ~Fld!is_naive(v)
  <2>1. v.n - v.off \in Int
    BY <1>1
  <2>2. z = Fld!At(v.n - v.off)
    BY <1>7 DEF Fld!localtime
  <2>3. Fld!Meaning(v) = Fld!Plain("instant", v.n - v.off)
    BY <1>6, <1>7 DEF Fld!Instant
  <2> HIDE DEF z
  <2> QED BY <1>2, <1>4, <1>5, <2>1, <2>2, <2>3
<1>8. CASE Fld!is_naive(v) /\ Fld!Once(v.n)
  <2> DEFINE o == Fld!Local(v.n)
             i == v.n - o
  <2>1. o \in Fld!Offsets /\ Fld!offset(i) = o
    <3>1. o \in Fld!Offsets /\ Fld!Localized(v.n) = {o}
      BY <1>8 DEF Fld!Once, Fld!Local
    <3>2. o \in Fld!Localized(v.n)
      BY <3>1
    <3> QED BY <3>1, <3>2 DEF Fld!Localized
  <2>2. o \in Int
    BY <2>1, ZoneOffsets
  <2>3. z = Fld!Value("datetime", v.n, o)
    BY <1>8 DEF Fld!make_aware
  <2>4. Fld!Meaning(v) = Fld!Plain("instant", i)
    BY <1>6, <1>8 DEF Fld!Instant
  <2> HIDE DEF o, z
  <2>5. i \in Int /\ i + o = v.n
    BY <1>1, <2>2
  <2>6. z = Fld!At(i)
    BY <2>1, <2>3, <2>5 DEF Fld!At
  <2> QED BY <1>2, <1>4, <1>5, <1>8, <2>4, <2>5, <2>6
<1>9. CASE Fld!is_naive(v) /\ ~Fld!Once(v.n)
  <2>1. Fld!IsException(z)
    BY <1>9, PlainIs DEF Fld!make_aware, Fld!Exceptions
  <2> HIDE DEF z
  <2> QED BY <1>2, <1>4, <1>5, <1>9, <2>1
<1> QED BY <1>7, <1>8, <1>9

LEMMA DatetimeWritten ==
    ASSUME Settings, field.type = "DatetimeField", NEW u, Held(u), u # Null
    PROVE  Written(u) /\ Read(Fld!to_python_value(u))
<1>1. u.type = "datetime" /\ u \in Values /\ ~Fld!IsException(u)
  BY HeldIs DEF Held, AttrTypes
<1>2. Cell(u)
  BY <1>1 DEF Cell, CellTypes
<1>3. Fld!to_db_value(u) = u /\ Fld!_init_from_db(u) = Fld!to_python_value(u)
  BY <1>1, DatetimeConverts
<1>4. ASSUME NEW i \in Int, Fld!Meaning(u) = Fld!Plain("instant", i),
             Fld!to_python_value(u) = Fld!At(i)
      PROVE  Written(u) /\ Read(Fld!to_python_value(u))
  <2> DEFINE r == Fld!At(i)
  <2>1. /\ r \in Values /\ r.type = "datetime" /\ ~Fld!is_naive(r) /\ r.n - r.off = i
    BY AtIs
  <2> HIDE DEF r
  <2>2. r # Null /\ ~Fld!IsException(r)
    BY <2>1, PlainIs DEF Fld!IsException, Fld!Exceptions
  <2>3. /\ Fld!to_db_value(r) = r /\ Fld!Meaning(r) = Fld!Plain("instant", i)
        /\ Fld!_init_from_db(r) = r
    <3>1. Fld!to_python_value(r) = Fld!At(i) /\ Fld!Meaning(r) = Fld!Plain("instant", i)
      BY <2>1, <2>2, DatetimeConverts
    <3> QED BY <2>1, <2>2, <3>1, DatetimeConverts DEF r
  <2>4. Held(r)
    BY <2>1 DEF Held, AttrTypes
  <2>5. Fld!_init_from_db(u) = r /\ Fld!to_python_value(u) = r
    BY <1>3, <1>4 DEF r
  <2> QED BY <1>2, <1>3, <1>4, <2>2, <2>3, <2>4, <2>5 DEF Written, Reads, Read
<1>5. ASSUME Fld!is_naive(u), ~Fld!Once(u.n), Fld!IsException(Fld!to_python_value(u))
      PROVE  Written(u) /\ Read(Fld!to_python_value(u))
  BY <1>2, <1>3, <1>5 DEF Written, Reads, Read
<1> QED BY <1>1, <1>4, <1>5, DatetimeConverts

\* The quotient and the remainder of a division are the only ones.
LEMMA Division ==
    ASSUME NEW d \in Nat \ {0}, NEW n \in Int
    PROVE  /\ n \div d \in Int /\ n % d \in 0..(d - 1)
           /\ n = d * (n \div d) + (n % d)
OBVIOUS

LEMMA OneQuotient ==
    ASSUME NEW d \in Nat \ {0}, NEW a \in Int, NEW b \in Int, NEW r \in 0..(d - 1),
           NEW s \in 0..(d - 1), d * a + r = d * b + s
    PROVE  a = b
<1>1. d * (a - b) = s - r
  OBVIOUS
<1>2. d * (a - b) < d /\ d * (a - b) > -d
  BY <1>1
<1>3. CASE a > b
  <2>1. a - b >= 1 /\ a - b \in Int
    BY <1>3
  <2>2. d * (a - b) >= d
    BY <2>1
  <2> QED BY <1>2, <2>2
<1>4. CASE a < b
  <2>1. a - b <= -1 /\ a - b \in Int
    BY <1>4
  <2>2. d * (a - b) <= -d
    BY <2>1
  <2> QED BY <1>2, <2>2
<1> QED BY <1>3, <1>4

\* The parts of a timedelta make it up.
LEMMA Duration ==
    ASSUME NEW v \in Values
    PROVE  Fld!Microseconds(v) = v.n
<1> DEFINE n == v.n
           q == n \div Minute
           e == Day * Minute
<1>1. n \in Int /\ Minute \in Nat \ {0} /\ Day \in Nat \ {0}
  BY FieldsAssumption DEF Values
<1>2. q \in Int /\ n % Minute \in 0..(Minute - 1) /\ n = Minute * q + (n % Minute)
  BY <1>1, Division
<1>3. q \div Day \in Int /\ q % Day \in 0..(Day - 1) /\ q = Day * (q \div Day) + (q % Day)
  BY <1>1, <1>2, Division
<1>4. e \in Nat \ {0}
  BY <1>1
<1>5. n \div e \in Int /\ n % e \in 0..(e - 1) /\ n = e * (n \div e) + (n % e)
  BY <1>1, <1>4, Division
<1> DEFINE p == q \div Day
           s == q % Day
           m == n % Minute
           r == Minute * s + m
<1>6. Fld!Microseconds(v) = ((n \div e) * Day * Minute) + (s * Minute) + m
  BY DEF Fld!Microseconds, Fld!days, Fld!seconds, Fld!microseconds
<1> HIDE DEF n, q, p, s, m
<1>7. n = e * p + r /\ r \in Int
  <2>1. n = Minute * (Day * p + s) + m
    BY <1>2, <1>3 DEF p, s, m
  <2>2. Minute * (Day * p + s) = (Day * Minute) * p + Minute * s
    BY <1>1, <1>3 DEF p, s
  <2>3. p \in Int /\ s \in Int /\ m \in Int /\ Minute * s \in Int
    BY <1>1, <1>2, <1>3 DEF p, s, m
  <2> QED BY <1>1, <2>1, <2>2, <2>3
<1>8. r \in 0..(e - 1)
  <2>1. Minute * s >= 0 /\ Minute * s <= Minute * (Day - 1)
    BY <1>1, <1>3 DEF s
  <2>2. Minute * (Day - 1) = e - Minute
    BY <1>1
  <2> QED BY <1>1, <1>2, <1>3, <1>4, <2>1, <2>2 DEF m, s
<1>9. n \div e = p
  <2> DEFINE k == n \div e
             t == n % e
  <2>1. k \in Int /\ t \in 0..(e - 1) /\ e * k + t = e * p + r
    BY <1>5, <1>7
  <2>2. p \in Int
    BY <1>3 DEF p
  <2> HIDE DEF k, t, e, r
  <2>3. k = p
    BY <1>4, <1>8, <2>1, <2>2, OneQuotient
  <2> QED BY <2>3 DEF k, e
<1>10. (p * Day * Minute) + (s * Minute) + m = e * p + r
  BY <1>1, <1>2, <1>3 DEF p, s, m
<1> QED BY <1>6, <1>7, <1>9, <1>10 DEF n

LEMMA DeltaConverts ==
    ASSUME Settings, field.type = "TimeDeltaField", NEW v \in Values, v # Null,
           ~Fld!IsException(v)
    PROVE  /\ Fld!to_db_value(v) = Fld!Plain("int", v.n)
           /\ v.type = "delta" => Fld!Meaning(v) = Fld!Plain("value", v.n)
           /\ Fld!to_python_value(v) = IF v.type = "delta" THEN v ELSE Fld!Plain("delta", v.n)
           /\ Fld!_init_from_db(v) = IF v.type = "delta" THEN v ELSE Fld!Plain("delta", v.n)
<1>1. Fld!validate(v) = v
  BY NoValidators
<1>2. Fld!to_db_value(v) = Fld!Plain("int", v.n)
  BY <1>1, Duration DEF Null, Fld!to_db_value, Fld!Or
<1>3. v.type = "delta" => Fld!Meaning(v) = Fld!Plain("value", v.n)
  BY DEF Fld!Meaning
<1>4. Fld!to_python_value(v) = IF v.type = "delta" THEN v ELSE Fld!Plain("delta", v.n)
  BY <1>1 DEF Null, Fld!to_python_value, Fld!Or, Fld!timedelta
<1>5. Fld!_init_from_db(v) = Fld!to_python_value(v)
  BY DEF Fld!_init_from_db
<1> QED BY <1>2, <1>3, <1>4, <1>5

LEMMA DeltaWritten ==
    ASSUME Settings, field.type = "TimeDeltaField", NEW u, Held(u), u # Null
    PROVE  Written(u) /\ Read(Fld!to_python_value(u))
<1>1. u.type = "delta" /\ u \in Values /\ u.n \in Int /\ ~Fld!IsException(u)
  BY HeldIs DEF Held, AttrTypes
<1> DEFINE w == Fld!Plain("int", u.n)
           r == Fld!Plain("delta", u.n)
<1>2. /\ w.type = "int" /\ w.n = u.n /\ w \in Values /\ w # Null /\ ~Fld!IsException(w)
      /\ r.type = "delta" /\ r.n = u.n /\ r \in Values /\ r # Null /\ ~Fld!IsException(r)
  BY <1>1, PlainOf DEF ValueTypes
<1>3. /\ Fld!to_db_value(u) = w /\ Fld!Meaning(u) = Fld!Plain("value", u.n)
      /\ Fld!to_python_value(u) = u
  BY <1>1, DeltaConverts
<1> HIDE DEF w, r
<1>4. Fld!_init_from_db(w) = r
  BY <1>2, DeltaConverts DEF r
<1>5. Fld!Meaning(r) = Fld!Plain("value", u.n) /\ Fld!to_db_value(r) = w
  BY <1>2, DeltaConverts DEF w
<1>6. Cell(w)
  BY <1>2 DEF Cell, CellTypes
<1> QED BY <1>2, <1>3, <1>4, <1>5, <1>6 DEF Written, Reads, Read

\* A validator makes no difference between a member and its value.
LEMMA MemberPasses ==
    ASSUME Settings, field.type = "IntEnumField", NEW n \in Int
    PROVE  Fld!Passes(Fld!Plain("int", n)) <=> Fld!Passes(Fld!Plain("enum", n))
<1>1. /\ Fld!Plain("int", n).type = "int" /\ Fld!Plain("int", n).n = n
      /\ Fld!Plain("enum", n).type = "enum" /\ Fld!Plain("enum", n).n = n
  BY PlainOf DEF ValueTypes
<1>2. \A m : Fld!Bound(m, Fld!Plain("int", n)) = Fld!Bound(m, Fld!Plain("enum", n))
  BY <1>1 DEF Fld!Bound
<1> QED BY <1>1, <1>2 DEF Fld!Passes, Fld!MaxValueValidator, Fld!MinValueValidator

LEMMA EnumConverts ==
    ASSUME field.type = "IntEnumField", NEW v \in Values, v # Null, ~Fld!IsException(v)
    PROVE  LET no == Fld!Exception("ValueError")
               e == Fld!Plain("enum", v.n)
           IN  /\ Fld!to_db_value(v)
                    = IF v.n \in Members THEN Fld!validate(Fld!Plain("int", v.n)) ELSE no
               /\ Fld!to_python_value(v) = IF v.n \in Members THEN Fld!validate(e) ELSE no
               /\ Fld!_init_from_db(v) = IF v.n \in Members THEN Fld!validate(e) ELSE no
               /\ v.type \in {"int", "enum"} => Fld!Meaning(v) = Fld!Plain("value", v.n)
<1> DEFINE no == Fld!Exception("ValueError")
           e == Fld!Plain("enum", v.n)
           i == Fld!Plain("int", v.n)
<1>0. v.n \in Int
  BY DEF Values
<1>1. /\ e.n = v.n /\ e # Null /\ ~Fld!IsException(e)
      /\ i # Null /\ ~Fld!IsException(i) /\ Fld!IsException(no)
  BY <1>0, PlainOf, PlainIs DEF ValueTypes, Fld!Exceptions
<1>2. Fld!enum_type(v) = IF v.n \in Members THEN e ELSE no
  BY Converted
<1> HIDE DEF no, e
<1>3. Fld!to_db_value(v) = IF v.n \in Members THEN Fld!validate(i) ELSE no
  <2>1. CASE v.n \in Members
    <3>1. Fld!enum_type(v) = e
      BY <1>2, <2>1
    <3>2. Fld!to_db_value(v) = Fld!Checked(Fld!Plain("int", e.n))
      BY <1>1, <3>1 DEF Null, Fld!to_db_value, Fld!Or
    <3> QED BY <1>1, <2>1, <3>2 DEF Fld!Checked
  <2>2. CASE v.n \notin Members
    BY <1>1, <1>2, <2>2 DEF Fld!to_db_value, Fld!Or, Fld!Checked
  <2> QED BY <2>1, <2>2
<1>4. Fld!to_python_value(v) = IF v.n \in Members THEN Fld!validate(e) ELSE no
  BY <1>1, <1>2 DEF Fld!to_python_value, Fld!Checked
<1>5. Fld!_init_from_db(v) = Fld!to_python_value(v)
  BY DEF Fld!_init_from_db
<1>6. v.type \in {"int", "enum"} => Fld!Meaning(v) = Fld!Plain("value", v.n)
  BY DEF Null, Fld!Meaning, Fld!Or
<1> QED BY <1>3, <1>4, <1>5, <1>6 DEF no, e

LEMMA EnumWritten ==
    ASSUME Settings, field.type = "IntEnumField", NEW u, Held(u), u # Null
    PROVE  Written(u) /\ Read(Fld!to_python_value(u))
<1>1. u.type \in {"int", "enum"} /\ u \in Values /\ u.n \in Int /\ ~Fld!IsException(u)
  BY HeldIs DEF Held, AttrTypes
<1> DEFINE w == Fld!Plain("int", u.n)
           r == Fld!Plain("enum", u.n)
<1>2. /\ w.type = "int" /\ w.n = u.n /\ w \in Values /\ w # Null /\ ~Fld!IsException(w)
      /\ r.type = "enum" /\ r.n = u.n /\ r \in Values /\ r # Null /\ ~Fld!IsException(r)
  BY <1>1, PlainOf DEF ValueTypes
<1>3. Fld!IsException(Fld!Exception("ValueError"))
  BY PlainIs DEF Fld!Exceptions
<1>4. CASE u.n \notin Members
  BY <1>1, <1>3, <1>4, EnumConverts DEF Written, Read
<1>5. CASE u.n \in Members
  <2>1. /\ Fld!to_db_value(u) = Fld!validate(w) /\ Fld!Meaning(u) = Fld!Plain("value", u.n)
        /\ Fld!to_python_value(u) = Fld!validate(r)
    BY <1>1, <1>5, EnumConverts
  <2>2. Fld!validate(r) = r \/ Fld!IsException(Fld!validate(r))
    BY Validated
  <2>3. Fld!IsException(Fld!validate(w)) \/ (Fld!validate(w) = w /\ Fld!validate(r) = r)
    <3>1. Fld!Passes(w) <=> Fld!Passes(r)
      BY <1>1, MemberPasses
    <3> QED BY <1>2, <3>1, PlainIs DEF Null, Fld!validate, Fld!Exceptions
  <2> HIDE DEF w, r
  <2>4. Fld!_init_from_db(w) = Fld!validate(r)
    BY <1>2, <1>5, EnumConverts DEF r
  <2>5. Fld!Meaning(r) = Fld!Plain("value", u.n) /\ Fld!to_db_value(r) = Fld!validate(w)
    BY <1>2, <1>5, EnumConverts DEF w
  <2>6. Cell(w) /\ Held(r)
    BY <1>2 DEF Cell, Held, CellTypes, AttrTypes
  <2> QED BY <1>2, <2>1, <2>2, <2>3, <2>4, <2>5, <2>6 DEF Written, Reads, Read
<1> QED BY <1>4, <1>5

LEMMA JSONConverts ==
    ASSUME Settings, field.type = "JSONField", NEW v \in Values, v # Null,
           ~Fld!IsException(v), v.n # Fld!Invalid
    PROVE  /\ v.type = "list" => /\ Fld!to_db_value(v) = Fld!Plain("str", v.n)
                                 /\ Fld!to_python_value(v) = v
           /\ v.type = "str" => /\ Fld!to_db_value(v) = v
                                /\ Fld!to_python_value(v) = Fld!Plain("list", v.n)
                                /\ Fld!_init_from_db(v) = Fld!Plain("list", v.n)
           /\ v.type \in {"list", "str"} => Fld!Meaning(v) = Fld!Plain("value", v.n)
<1>1. Fld!validate(v) = v
  BY NoValidators
<1>2. Fld!decoder(v) = Fld!Plain("list", v.n)
  BY DEF Fld!decoder
<1>3. v.type = "list" => Fld!to_db_value(v) = Fld!Plain("str", v.n)
  BY <1>1 DEF Null, Fld!to_db_value, Fld!Or
<1>4. v.type = "list" => Fld!to_python_value(v) = v
  BY <1>1 DEF Fld!to_python_value
<1>5. v.type = "str" => Fld!to_db_value(v) = v
  <2>1. v.n \in Int
    BY DEF Values
  <2>2. Fld!Plain("list", v.n) # Null /\ ~Fld!IsException(Fld!Plain("list", v.n))
    BY <2>1, PlainOf DEF ValueTypes
  <2> QED BY <1>1, <1>2, <2>2 DEF Null, Fld!to_db_value, Fld!Or
<1>6. v.type = "str" => Fld!to_python_value(v) = Fld!Plain("list", v.n)
  BY <1>2 DEF Fld!to_python_value
<1>7. Fld!_init_from_db(v) = Fld!to_python_value(v)
  BY DEF Fld!_init_from_db
<1>8. v.type \in {"list", "str"} => Fld!Meaning(v) = Fld!Plain("value", v.n)
  BY DEF Null, Fld!Meaning, Fld!Or
<1> QED BY <1>3, <1>4, <1>5, <1>6, <1>7, <1>8

LEMMA JSONWritten ==
    ASSUME Settings, field.type = "JSONField", NEW u, Held(u), u # Null
    PROVE  Written(u) /\ Read(Fld!to_python_value(u))
<1>1. /\ u.type \in {"list", "str"} /\ u \in Values /\ u.n \in Int /\ ~Fld!IsException(u)
      /\ u.type = "list" => u.n # Fld!Invalid
  BY HeldIs DEF Held, AttrTypes
<1> DEFINE w == Fld!Plain("str", u.n)
           r == Fld!Plain("list", u.n)
<1>2. /\ w.type = "str" /\ w.n = u.n /\ w \in Values /\ w # Null /\ ~Fld!IsException(w)
      /\ r.type = "list" /\ r.n = u.n /\ r \in Values /\ r # Null /\ ~Fld!IsException(r)
  BY <1>1, PlainOf DEF ValueTypes
<1> HIDE DEF w, r
<1>3. CASE u.n = Fld!Invalid
  <2>1. Fld!decoder(u) = Fld!Exception("FieldError") /\ Fld!IsException(Fld!decoder(u))
    BY <1>3, PlainIs DEF Fld!decoder, Fld!Exceptions
  <2>2. u.type = "str" /\ Fld!validate(u) = u
    BY <1>1, <1>3, NoValidators
  <2>3. Fld!to_python_value(u) = Fld!decoder(u)
    BY <2>2 DEF Fld!to_python_value
  <2>4. Fld!to_db_value(u) = Fld!decoder(u)
    BY <1>1, <2>1, <2>2 DEF Null, Fld!to_db_value, Fld!Or
  <2> QED BY <2>1, <2>3, <2>4 DEF Written, Read
<1>4. CASE u.n # Fld!Invalid
  <2>1. Fld!Meaning(u) = Fld!Plain("value", u.n) /\ Fld!Meaning(r) = Fld!Plain("value", u.n)
    BY <1>1, <1>2, <1>4, JSONConverts
  <2>2. Fld!to_db_value(r) = w /\ Fld!_init_from_db(w) = r
    BY <1>2, <1>4, JSONConverts DEF w, r
  <2>3. Cell(w) /\ Held(r)
    BY <1>2, <1>4 DEF Cell, Held, CellTypes, AttrTypes
  <2>4. CASE u.type = "list"
    <3>1. Fld!to_db_value(u) = w /\ Fld!to_python_value(u) = u
      BY <1>1, <1>4, <2>4, JSONConverts DEF w
    <3> QED BY <1>2, <2>1, <2>2, <2>3, <3>1 DEF Written, Reads, Read
  <2>5. CASE u.type = "str"
    <3>1. /\ Fld!to_db_value(u) = u /\ Fld!to_python_value(u) = r
          /\ Fld!_init_from_db(u) = r
      BY <1>1, <1>4, <2>5, JSONConverts DEF r
    <3>2. Cell(u)
      BY <1>1, <1>4, <2>5 DEF Cell, CellTypes
    <3> QED BY <1>2, <2>1, <2>2, <2>3, <3>1, <3>2 DEF Written, Reads, Read
  <2> QED BY <1>1, <2>4, <2>5
<1> QED BY <1>3, <1>4

-----------------------------------------------------------------------------
(* Every field *)

\* Whatever an attribute holds is written so that it can be read, and converted to what
\* an attribute may hold.
LEMMA AllWritten ==
    ASSUME Settings, NEW u, Held(u)
    PROVE  Written(u) /\ Read(Fld!to_python_value(u))
<1>1. CASE u = Null
  BY <1>1, NullWritten, NullConverts DEF Read
<1>2. CASE u # Null
  <2>1. field.type \in Fld!Types
    BY Typed
  <2> QED BY <1>2, <2>1, IntWritten, CharWritten, BooleanWritten, DecimalWritten,
             DatetimeWritten, DeltaWritten, EnumWritten, JSONWritten DEF Fld!Types
<1> QED BY <1>1, <1>2

\* What a row has is read as what an attribute may hold.
LEMMA AllRead ==
    ASSUME Settings, NEW c, Cell(c)
    PROVE  Read(Fld!_init_from_db(c))
<1>1. CASE c = Null
  BY <1>1, NullWritten, NullConverts DEF Read
<1>2. CASE c # Null
  <2>1. c \in Values /\ c.n \in Int /\ ~Fld!IsException(c) /\ c.type \in CellTypes[field.type]
    BY <1>2, HeldIs DEF Cell
  <2>2. CASE field.type = "TimeDeltaField"
    <3>1. Fld!_init_from_db(c) = Fld!Plain("delta", c.n)
      BY <1>2, <2>1, <2>2, DeltaConverts DEF CellTypes
    <3> QED BY <2>1, <2>2, <3>1, PlainOf DEF Read, Held, AttrTypes, ValueTypes
  <2>3. CASE field.type # "TimeDeltaField"
    <3>1. c.type \in AttrTypes[field.type] /\ c.type # "list"
      BY <2>1, <2>3, Typed DEF CellTypes, AttrTypes, Fld!Types
    <3>2. Held(c)
      BY <2>1, <3>1 DEF Held
    <3>3. Read(Fld!to_python_value(c))
      BY <3>2, AllWritten
    <3>4. CASE field.type \in {"IntField", "CharField"}
      BY <3>2, <3>4 DEF Read, Fld!_init_from_db
    <3>5. CASE field.type = "BooleanField"
      <4>1. Fld!_init_from_db(c) = Fld!Plain("bool", IF c.n # 0 THEN 1 ELSE c.n)
        BY <1>2, <2>1, <3>5, BooleanConverts
      <4>2. (IF c.n # 0 THEN 1 ELSE c.n) \in Int
        BY <2>1
      <4> QED BY <3>5, <4>1, <4>2, PlainOf DEF Read, Held, AttrTypes, ValueTypes
    <3>6. CASE field.type \notin {"IntField", "CharField", "BooleanField"}
      BY <3>3, <3>6 DEF Fld!_init_from_db
    <3> QED BY <3>4, <3>5, <3>6
  <2> QED BY <2>2, <2>3
<1> QED BY <1>1, <1>2

\* What a program gives, as it is assigned, is what an attribute may hold.
LEMMA Given ==
    ASSUME Settings, NEW v \in GivenValues \cup {Null}, Fld!Fits(v)
    PROVE  Held(Fld!Assigned(v))
<1>1. CASE v = Null
  BY <1>1, NullWritten DEF Fld!Assigned, Fld!Or, Null
<1>2. CASE v # Null
  <2>1. /\ v \in Values /\ v.n \in Int /\ v.type # "delta"
        /\ v.type = "list" => v.n # Fld!Invalid
        /\ ~Fld!IsException(v)
    <3>1. v \in [type : {"int", "decimal", "datetime", "enum", "list", "str", "text"},
                 n : Int, off : Int]
          /\ (v.type = "list" => v.n # Fld!Invalid)
      BY <1>2, FieldsAssumption
    <3> QED BY <3>1 DEF Values, ValueTypes, Fld!IsException, Fld!Exceptions
  <2>2. CASE field.type = "TimeDeltaField"
    <3>1. Fld!Assigned(v) = Fld!Plain("delta", v.n)
      BY <1>2, <2>1, <2>2 DEF Fld!Assigned, Fld!Or, Fld!timedelta, Null
    <3> QED BY <2>1, <2>2, <3>1, PlainOf DEF Held, AttrTypes, ValueTypes
  <2>3. CASE field.type # "TimeDeltaField"
    <3>1. Fld!Assigned(v) = v
      BY <2>3 DEF Fld!Assigned
    <3>2. v.type \in AttrTypes[field.type]
      BY <1>2, <2>1, <2>3, Typed DEF Fld!Fits, AttrTypes, Null, Fld!Types
    <3> QED BY <2>1, <3>1, <3>2 DEF Held
  <2> QED BY <2>2, <2>3
<1> QED BY <1>1, <1>2

\* The conversions are of the field and of the time zone.
LEMMA SameConversions ==
    ASSUME Settings, UNCHANGED <<field, tz>>
    PROVE  \A v : /\ Held(v)' <=> Held(v)
                  /\ Cell(v)' <=> Cell(v)
                  /\ \A m : Reads(v, m)' <=> Reads(v, m)
<1>1. \A v : Held(v)' <=> Held(v)
  BY DEF Held
<1>2. \A v : Cell(v)' <=> Cell(v)
  BY DEF Cell
<1>3. \A v : Fld!Passes(v)' <=> Fld!Passes(v)
  BY DEF Fld!Passes, Fld!MaxLengthValidator, Fld!MaxValueValidator, Fld!MinValueValidator
<1>4. \A v : Fld!validate(v)' = Fld!validate(v)
  BY <1>3 DEF Fld!validate
<1>5. \A v : Fld!Meaning(v)' = Fld!Meaning(v)
  BY DEF Fld!Meaning, Fld!Or, Fld!Instant, Fld!Once, Fld!Local, Fld!Localized, Fld!Offsets,
         Fld!offset, Fld!Latest, Fld!changes
<1>10. \A n : (Fld!Once(n)' <=> Fld!Once(n)) /\ Fld!Local(n)' = Fld!Local(n)
  BY DEF Fld!Once, Fld!Local, Fld!Localized, Fld!Offsets, Fld!offset, Fld!Latest, Fld!changes
<1>11. \A i : Fld!At(i)' = Fld!At(i)
  BY DEF Fld!At, Fld!offset, Fld!Latest, Fld!changes
<1>12. \A v : Fld!make_aware(v)' = Fld!make_aware(v) /\ Fld!localtime(v)' = Fld!localtime(v)
  BY <1>10, <1>11 DEF Fld!make_aware, Fld!localtime
<1>6. \A v : Fld!to_python_value(v)' = Fld!to_python_value(v)
  BY <1>4, <1>12, Typed DEF Fld!to_python_value, Fld!Checked, Fld!Or, Fld!Types
<1>7. \A v : Fld!to_db_value(v)' = Fld!to_db_value(v)
  BY <1>4, Typed DEF Fld!to_db_value, Fld!Checked, Fld!Or, Fld!Types
<1>8. \A v : Fld!_init_from_db(v)' = Fld!_init_from_db(v)
  BY <1>6 DEF Fld!_init_from_db
<1>9. \A v, m : Reads(v, m)' <=> Reads(v, m)
  BY <1>5, <1>7, <1>8, <1>10 DEF Reads
<1> QED BY <1>1, <1>2, <1>9

-----------------------------------------------------------------------------
(* Calls *)

\* now() is a value of a DatetimeField, and its column is read as its instant.
LEMMA Now ==
    ASSUME Settings, field.type = "DatetimeField"
    PROVE  Held(Fld!now) /\ Cell(Fld!now) /\ Reads(Fld!now, Fld!Plain("instant", clock))
<1> DEFINE u == Fld!now
<1>1. clock \in Int
  BY DEF Settings
<1>3. /\ u \in Values /\ u.type = "datetime" /\ ~Fld!is_naive(u) /\ u.n - u.off = clock
  <2>1. CASE tz.use
    <3>1. u = [type |-> "datetime", n |-> clock, off |-> 0]
      BY <2>1 DEF Fld!now, Fld!Value
    <3> HIDE DEF u
    <3> QED BY <1>1, <3>1 DEF Values, ValueTypes, Fld!is_naive, Fld!Naive
  <2>2. CASE ~tz.use
    <3>1. u = Fld!At(clock)
      BY <2>2 DEF Fld!now
    <3> HIDE DEF u
    <3> QED BY <1>1, <3>1, AtIs
  <2> QED BY <2>1, <2>2
<1> HIDE DEF u
<1>4. u # Null /\ ~Fld!IsException(u)
  BY <1>3 DEF Null, Fld!None, Fld!Plain, Fld!Value, Fld!IsException, Fld!Exceptions
<1>5. Held(u) /\ Cell(u)
  BY <1>3 DEF Held, Cell, AttrTypes, CellTypes
<1>6. Fld!to_db_value(u) = u
  BY DEF Fld!to_db_value, Fld!to_db_datetime
<1>7. Fld!Meaning(u) = Fld!Plain("instant", clock)
  BY <1>3, <1>4, DatetimeConverts
<1>8. Written(u)
  BY <1>5, AllWritten
<1> QED BY <1>4, <1>5, <1>6, <1>7, <1>8 DEF Written, u

\* The attribute and the column become other values that they may hold.
LEMMA BecomesInv ==
    ASSUME FieldInv, Fld!Stay, error' \in Fld!Exceptions \cup {""},
           NEW a, attr' = a, Held(a),
           NEW c, cell' = c, Cell(c), NEW m, wrote' = m, Reads(c, m)
    PROVE  FieldInv'
<1>1. UNCHANGED <<field, tz, clock>> /\ Settings
  BY DEF Fld!Stay, FieldInv
<1>2. Settings'
  BY <1>1 DEF Settings
<1>3. Held(a)' /\ Cell(c)' /\ Reads(c, m)'
  BY <1>1, SameConversions
<1>4. \A v : v = attr' => Held(v)'
  BY <1>3
<1>5. \A d, n : d = cell' /\ n = wrote' => Cell(d)' /\ Reads(d, n)'
  BY <1>3
<1> QED BY <1>2, <1>4, <1>5 DEF FieldInv

\* A call that raises changes neither.
LEMMA RaiseInv ==
    ASSUME FieldInv, Fld!Stay, NEW e, Fld!IsException(e), Fld!Raise(e)
    PROVE  FieldInv'
<1>1. /\ error' \in Fld!Exceptions \cup {""}
      /\ attr' = attr /\ cell' = cell /\ wrote' = wrote
  BY DEF Fld!Raise, Fld!IsException
<1>2. Held(attr) /\ Cell(cell) /\ Reads(cell, wrote)
  BY DEF FieldInv
<1> QED BY <1>1, <1>2, BecomesInv

LEMMA ReadInv ==
    ASSUME FieldInv, Fld!Stay, NEW u, Read(u),
           IF Fld!IsException(u) THEN Fld!Raise(u)
           ELSE attr' = u /\ error' = "" /\ UNCHANGED <<cell, wrote>>
    PROVE  FieldInv'
<1>1. CASE Fld!IsException(u)
  BY <1>1, RaiseInv
<1>2. CASE ~Fld!IsException(u)
  <2>1. Cell(cell) /\ Reads(cell, wrote)
    BY DEF FieldInv
  <2> QED BY <1>2, <2>1, BecomesInv DEF Read
<1> QED BY <1>1, <1>2

LEMMA WriteInv ==
    ASSUME FieldInv, Fld!Stay, NEW u, Held(u),
           Fld!Write(Fld!to_db_value(u), Fld!Meaning(u))
    PROVE  FieldInv'
<1> DEFINE w == Fld!to_db_value(u)
           m == Fld!Meaning(u)
<1>1. Written(u)
  BY AllWritten DEF FieldInv
<1>2. CASE Fld!IsException(w)
  BY <1>2, RaiseInv DEF Fld!Write
<1>3. CASE ~Fld!IsException(w) /\ w = Fld!None /\ ~field.null
  <2>1. Fld!IsException(Fld!Exception("IntegrityError"))
    BY PlainIs DEF Fld!Exceptions
  <2>2. Fld!Raise(Fld!Exception("IntegrityError"))
    BY <1>3 DEF Fld!Write
  <2> QED BY <2>1, <2>2, RaiseInv
<1>4. CASE ~Fld!IsException(w) /\ ~(w = Fld!None /\ ~field.null)
  <2>1. cell' = w /\ wrote' = m /\ error' = "" /\ attr' = attr
    BY <1>4 DEF Fld!Write
  <2>2. Cell(w) /\ Reads(w, m)
    BY <1>1, <1>4 DEF Written
  <2>3. Held(attr)
    BY DEF FieldInv
  <2> HIDE DEF w, m
  <2> QED BY <2>1, <2>2, <2>3, BecomesInv
<1> QED BY <1>2, <1>3, <1>4

LEMMA FieldsInit == Fld!Init => FieldInv
<1> SUFFICES ASSUME Fld!Init PROVE FieldInv
  OBVIOUS
<1>1. Settings /\ error = ""
  <2>1. field \in Fld!FieldsOf /\ error = ""
    BY DEF Fld!Init
  <2>2. tz \in [use : BOOLEAN, zone : Zones]
    BY DEF Fld!Init
  <2>3. clock \in Int
    <3>1. clock = 1
      BY DEF Fld!Init
    <3>2. 1 \in Int
      OBVIOUS
    <3> QED BY ONLY <3>1, <3>2
  <2> QED BY <2>1, <2>2, <2>3, Zenon DEF Settings
<1>2. attr = Null /\ cell = Null /\ wrote = Null
  BY DEF Fld!Init, Null
<1>3. Held(Null) /\ Cell(Null)
  BY DEF Held, Cell
<1>4. Reads(Null, Null)
  <2>1. Written(Null)
    BY <1>1, NullWritten
  <2> QED BY <1>1, <2>1, NullWritten DEF Written
<1> QED BY <1>1, <1>2, <1>3, <1>4 DEF FieldInv

LEMMA FieldsStep == FieldInv /\ [Fld!Next]_(Fld!vars) => FieldInv'
<1> SUFFICES ASSUME FieldInv, [Fld!Next]_(Fld!vars) PROVE FieldInv'
  OBVIOUS
<1>0. Settings /\ Held(attr) /\ Cell(cell) /\ Reads(cell, wrote)
  BY DEF FieldInv
<1>1. ASSUME NEW v \in GivenValues \cup {Null}, Fld!__init__(v)
      PROVE  FieldInv'
  <2> DEFINE no == Fld!Exception("ValueError")
             u == IF v = Null /\ ~field.null THEN no ELSE Fld!to_python_value(Fld!Assigned(v))
  <2>1. Fld!Fits(v) /\ Fld!Stay
    BY <1>1 DEF Fld!__init__
  <2>2. Read(u)
    <3>1. Read(no)
      BY PlainIs DEF Read, Fld!Exceptions
    <3>2. Held(Fld!Assigned(v))
      BY <1>0, <2>1, Given
    <3>3. Read(Fld!to_python_value(Fld!Assigned(v)))
      BY <1>0, <3>2, AllWritten
    <3> QED BY <3>1, <3>3
  <2>3. IF Fld!IsException(u) THEN Fld!Raise(u)
        ELSE attr' = u /\ error' = "" /\ UNCHANGED <<cell, wrote>>
    BY <1>1 DEF Fld!__init__, Null
  <2> HIDE DEF u
  <2> QED BY <2>1, <2>2, <2>3, ReadInv
<1>2. ASSUME NEW v \in GivenValues \cup {Null}, Fld!Assign(v)
      PROVE  FieldInv'
  <2>1. /\ Fld!Fits(v) /\ Fld!Stay /\ attr' = Fld!Assigned(v) /\ error' = ""
        /\ cell' = cell /\ wrote' = wrote
    BY <1>2 DEF Fld!Assign
  <2>2. Held(Fld!Assigned(v))
    BY <1>0, <2>1, Given
  <2> QED BY <1>0, <2>1, <2>2, BecomesInv
<1>3. ASSUME NEW v \in GivenValues \cup {Null}, Fld!update(v)
      PROVE  FieldInv'
  <2>1. /\ Fld!Fits(v) /\ Fld!Stay
        /\ Fld!Write(Fld!to_db_value(Fld!Assigned(v)), Fld!Meaning(Fld!Assigned(v)))
    BY <1>3 DEF Fld!update
  <2>2. Held(Fld!Assigned(v))
    BY <1>0, <2>1, Given
  <2> QED BY <2>1, <2>2, WriteInv
<1>4. ASSUME Fld!save
      PROVE  FieldInv'
  <2>1. CASE Fld!Stamped
    <3>1. field.type = "DatetimeField"
      BY <1>0, <2>1 DEF Settings, Fld!FieldsOf, Fld!Stamped
    <3>2. /\ Fld!Stay /\ error' = "" /\ attr' = Fld!now /\ cell' = Fld!now
          /\ wrote' = Fld!Plain("instant", clock)
      BY <1>4, <2>1 DEF Fld!save
    <3>3. /\ Held(Fld!now) /\ Cell(Fld!now) /\ Reads(Fld!now, Fld!Plain("instant", clock))
      BY <1>0, <3>1, Now
    <3> QED BY <3>2, <3>3, BecomesInv
  <2>2. CASE ~Fld!Stamped
    BY <1>0, <1>4, <2>2, WriteInv DEF Fld!save
  <2> QED BY <2>1, <2>2
<1>5. ASSUME Fld!get
      PROVE  FieldInv'
  <2>1. Read(Fld!_init_from_db(cell))
    BY <1>0, AllRead
  <2> QED BY <1>5, <2>1, ReadInv DEF Fld!get
<1>6. ASSUME UNCHANGED <<field, tz, attr, cell, wrote, error>>, clock' \in Int
      PROVE  FieldInv'
  <2>1. Settings'
    BY <1>0, <1>6 DEF Settings
  <2>2. \A v : /\ Held(v)' <=> Held(v)
               /\ Cell(v)' <=> Cell(v)
               /\ \A m : Reads(v, m)' <=> Reads(v, m)
    BY <1>0, <1>6, SameConversions
  <2>3. error' \in Fld!Exceptions \cup {""}
    BY <1>6 DEF FieldInv
  <2>4. \A v : v = attr' => Held(v)'
    BY <1>0, <1>6, <2>2
  <2>5. \A d, n : d = cell' /\ n = wrote' => Cell(d)' /\ Reads(d, n)'
    BY <1>0, <1>6, <2>2
  <2> QED BY <2>1, <2>3, <2>4, <2>5 DEF FieldInv
<1>7. CASE Fld!Tick
  BY <1>0, <1>6, <1>7 DEF Fld!Tick, Settings
<1>8. CASE UNCHANGED Fld!vars
  BY <1>0, <1>6, <1>8 DEF Fld!vars, Settings
<1> QED BY <1>1, <1>2, <1>3, <1>4, <1>5, <1>7, <1>8 DEF Fld!Next, Null

LEMMA FieldsAlways == Fld!Spec => []FieldInv
BY FieldsInit, FieldsStep, PTL DEF Fld!Spec

-----------------------------------------------------------------------------
\* The attribute and the column hold values of the types that the field's class converts
\* to, and a call raises one of the exceptions of the conversions.
THEOREM FieldsTypeOK == Fld!Spec => []Fld!TypeOK
<1>1. FieldInv => Fld!TypeOK
  <2> SUFFICES ASSUME FieldInv PROVE Fld!TypeOK
    OBVIOUS
  <2>1. Settings /\ Held(attr) /\ Cell(cell) /\ error \in Fld!Exceptions \cup {""}
    BY DEF FieldInv
  <2>2. field \in Fld!FieldsOf
    BY <2>1 DEF Settings
  <2>3. Null.type = "None"
    BY DEF Null, Fld!None, Fld!Plain, Fld!Value
  <2>4. attr.type \in ValueTypes \cup {"None"}
    <3>1. CASE attr = Null
      BY <2>3, <3>1
    <3>2. CASE attr # Null
      BY <2>1, <3>2 DEF Held, Values
    <3> QED BY <3>1, <3>2
  <2>5. cell.type \in {"None", "int", "decimal", "datetime", "str", "text"}
    <3>1. CASE cell = Null
      BY <2>3, <3>1
    <3>2. CASE cell # Null
      <4>1. cell.type \in CellTypes[field.type] /\ field.type \in Fld!Types
        BY <2>1, <3>2, Typed DEF Cell
      <4> QED BY <4>1 DEF CellTypes, Fld!Types
    <3> QED BY <3>1, <3>2
  <2> QED BY <2>1, <2>2, <2>4, <2>5 DEF Fld!TypeOK, ValueTypes
<1> QED BY <1>1, FieldsAlways, PTL

\* Whatever is passed to the constructor, assigned, or given to update(), and whatever
\* auto_now stamps, what a later read of the row sets means what was written, and goes on
\* doing so when it is saved again; what cannot be read is a DecimalField's row, or a naive
\* time that the zone has twice or not at all.
THEOREM RowsReadBack == Fld!Spec => []ReadsBack
<1>1. FieldInv => ReadsBack
  <2>1. FieldInv => Reads(cell, wrote)
    BY DEF FieldInv
  <2> QED BY <2>1 DEF Reads, ReadsBack, Fld!ReadsBack, Null
<1> QED BY <1>1, FieldsAlways, PTL
===============================================================================

-------------------------------- MODULE Fields --------------------------------
(***************************************************************************)
(* The values of a field (fields/base.py, fields/data.py, timezone.py,     *)
(* validators.py) on their ways through a model on SQLite                  *)
(* (backends/sqlite/executor.py): the constructor and the read of a row    *)
(* convert with to_python_value(), an assigned attribute is not converted, *)
(* save() and QuerySet.update() convert with to_db_value() or with what    *)
(* the executor has instead of it.                                         *)
(*                                                                         *)
(* A value has a type and a number: the number itself, a decimal in        *)
(* hundredths, an enum member's value, the list a JSON text stands for, or *)
(* the local time of a datetime, with its offset.  Text of numbers and of  *)
(* dates is left out, and a text has its length for a number.  Of pytz is  *)
(* modelled what localize() and astimezone() do with a zone whose offset   *)
(* changes.                                                                *)
(***************************************************************************)
EXTENDS Integers

CONSTANTS
    Given,          \* the values that a program passes or assigns
    Members,        \* values of the enum
    Zones,          \* of TIMEZONE: the offset at first, and those since its changes
    Minute,         \* microseconds that make a second of a timedelta, and
    Day,            \* seconds that make its day, scaled down
    MaxTime         \* bound on the clock

VARIABLES
    field,          \* the field: its class, null, validators and auto_now
    tz,             \* use_tz and the time zone of init()
    attr,           \* the attribute of the instance
    cell,           \* the column of its row
    wrote,          \* what the last write of the column meant
    raised,         \* the exception of the last call, or ""
    clock

vars == <<field, tz, attr, cell, wrote, raised, clock>>

NoBound == -1
Naive   == 99
Invalid == -1       \* text that is no JSON

Value(t, n, off) == [type |-> t, n |-> n, off |-> off]
Plain(t, n) == Value(t, n, 0)
None == Plain("None", 0)
Exceptions == {"ValidationError", "ValueError", "FieldError", "IntegrityError",
               "InvalidTimeError"}
Exception(e) == Plain(e, 0)
IsException(v) == v.type \in Exceptions

Types  == {"IntField", "BooleanField", "DecimalField", "DatetimeField", "TimeDeltaField",
           "IntEnumField", "JSONField", "CharField"}
Numbers == {"IntField", "DecimalField", "IntEnumField"}
\* A CharField has a validator, of its max_length.
CharField(f) == f.maximum # NoBound
\* maximum and minimum are those of its validators.
FieldsOf ==
    {f \in [type : Types, null : BOOLEAN, maximum : {NoBound, 1}, minimum : {NoBound, 1},
            auto : {"", "now", "add"}] :
        /\ f.auto # "" => f.type = "DatetimeField"
        /\ f.maximum # NoBound => f.type \in Numbers \cup {"CharField"}
        /\ f.minimum # NoBound => f.type \in Numbers /\ f.maximum = NoBound
        /\ f.type = "CharField" => CharField(f)}

Init ==
    /\ field \in FieldsOf
    /\ tz \in [use : BOOLEAN, zone : Zones]
    /\ attr = None /\ cell = None /\ wrote = None /\ raised = "" /\ clock = 1

-----------------------------------------------------------------------------
(* Field.validate() and the conversions of numbers *)

\* A validator raises for None too; it is given the value of an enum's member.
Bound(m, v) == m * (IF v.type = "decimal" THEN 100 ELSE 1)
MaxValueValidator(v)  == v.type # "None" /\ v.n <= Bound(field.maximum, v)
MinValueValidator(v)  == v.type # "None" /\ v.n >= Bound(field.minimum, v)
MaxLengthValidator(v) == v.type # "None" /\ v.n <= field.maximum
Passes(v) ==
    /\ field.maximum # NoBound =>
          IF field.type = "CharField" THEN MaxLengthValidator(v) ELSE MaxValueValidator(v)
    /\ field.minimum # NoBound => MinValueValidator(v)
validate(v) ==
    IF (field.null /\ v = None) \/ Passes(v) THEN v ELSE Exception("ValidationError")

Or(v, convert(_)) == IF IsException(v) \/ v = None THEN v ELSE convert(v)
Checked(v) == IF IsException(v) THEN v ELSE validate(v)

\* value = self.field_type(value)
field_type(v, t) == Or(v, LAMBDA u : Plain(t, IF t = "bool" /\ u.n # 0 THEN 1 ELSE u.n))

\* quantize() rounds half to even; one decimal place
quantize(n) ==
    LET down == (n \div 10) * 10
        rest == n - down
    IN  IF rest < 5 \/ (rest = 5 /\ (down \div 10) % 2 = 0) THEN down ELSE down + 10
Hundredths(v) == IF v.type = "decimal" THEN v.n ELSE v.n * 100
Quantized(v) == Or(v, LAMBDA u : Plain("decimal", quantize(Hundredths(u))))

enum_type(v) ==
    Or(v, LAMBDA u : IF u.n \in Members THEN Plain("enum", u.n) ELSE Exception("ValueError"))
decoder(v) == IF v.n = Invalid THEN Exception("FieldError") ELSE Plain("list", v.n)

-----------------------------------------------------------------------------
(* timezone.py *)

is_naive(v) == v.off = Naive
\* A bug: naive times are taken to be UTC, as those that the other databases are sent.
MakeAwareUtc(v) == [v EXCEPT !.off = 0]

\* The offset of the zone at an instant
changes == tz.zone.changes
Latest(c, i) == c <= i /\ \A d \in DOMAIN changes : d <= i => d <= c
offset(i) ==
    IF \E c \in DOMAIN changes : Latest(c, i)
    THEN changes[CHOOSE c \in DOMAIN changes : Latest(c, i)] ELSE tz.zone.first

\* The offsets that a local time n has: none when the clocks were put forward over it,
\* two when they were put back over it
Offsets == {tz.zone.first} \cup {changes[c] : c \in DOMAIN changes}
Localized(n) == {o \in Offsets : offset(n - o) = o}
Once(n) == \E o \in Offsets : Localized(n) = {o}
Local(n) == CHOOSE o \in Offsets : Localized(n) = {o}

\* localize(), with is_dst=None
make_aware(v) ==
    IF Once(v.n) THEN Value(v.type, v.n, Local(v.n)) ELSE Exception("InvalidTimeError")
At(i) == Value("datetime", i + offset(i), offset(i))
localtime(v) == At(v.n - v.off)
now == IF tz.use THEN Value("datetime", clock, 0) ELSE At(clock)

-----------------------------------------------------------------------------
(* to_python_value(), and what SQLite's executor does instead of             *)
(* to_db_value(), which is without validation                                *)

\* A Python timedelta has days, and seconds and microseconds that are not negative.
timedelta(v)    == Plain("delta", v.n)
days(d)         == d.n \div (Day * Minute)
seconds(d)      == (d.n \div Minute) % Day
microseconds(d) == d.n % Minute
Microseconds(d) == (days(d) * Day * Minute) + (seconds(d) * Minute) + microseconds(d)

to_python_value(v) ==
    CASE field.type = "IntField"      -> validate(field_type(v, "int"))
      [] field.type = "CharField"     -> validate(field_type(v, "text"))
      [] field.type = "BooleanField"  -> validate(field_type(v, "bool"))
      [] field.type = "DecimalField"  -> validate(Quantized(v))
      [] field.type = "DatetimeField" ->
            Checked(Or(v, LAMBDA u : IF is_naive(u) THEN make_aware(u) ELSE localtime(u)))
      [] field.type = "TimeDeltaField" ->
            Or(validate(v), LAMBDA u : IF u.type = "delta" THEN u ELSE timedelta(u))
      [] field.type = "IntEnumField"  -> Checked(enum_type(v))
      [] field.type = "JSONField"     -> IF v.type = "str" THEN decoder(v) ELSE validate(v)

to_db_bool(v)     == Or(v, LAMBDA u : Plain("int", IF u.n # 0 THEN 1 ELSE 0))
to_db_decimal(v)  == Quantized(v)
to_db_datetime(v) == v      \* isoformat(" ")

to_db_value(v) ==
    CASE field.type = "IntField"      -> validate(field_type(v, "int"))
      [] field.type = "CharField"     -> validate(field_type(v, "text"))
      [] field.type = "BooleanField"  -> to_db_bool(v)
      [] field.type = "DecimalField"  -> to_db_decimal(v)
      [] field.type = "DatetimeField" -> to_db_datetime(v)
      [] field.type = "TimeDeltaField" -> Or(validate(v), LAMBDA u : Plain("int", Microseconds(u)))
      [] field.type = "IntEnumField"  -> Checked(Or(enum_type(v), LAMBDA u : Plain("int", u.n)))
      [] field.type = "JSONField"     ->
            Or(validate(v), LAMBDA u :
                IF u.type = "list" THEN Plain("str", u.n) ELSE Or(decoder(u), LAMBDA l : u))

\* _init_from_db(): SQLite's driver gives int and str; a field of that type whose
\* class does not convert is set as it is, and one of another type by field_type().
_init_from_db(v) ==
    CASE field.type \in {"IntField", "CharField"} -> v
      [] field.type = "BooleanField" -> field_type(v, "bool")
      [] OTHER                       -> to_python_value(v)

-----------------------------------------------------------------------------
(* Calls *)

\* A value of a type that the field is for
Fits(v) ==
    \/ v = None
    \/ field.type \in {"IntField", "BooleanField", "DecimalField", "IntEnumField"} /\ v.type = "int"
    \/ field.type = "DecimalField" /\ v.type = "decimal"
    \/ field.type = "CharField" /\ v.type = "text"
    \/ field.type = "DatetimeField" /\ v.type = "datetime"
    \/ field.type = "IntEnumField" /\ v.type = "enum"
    \/ field.type = "JSONField" /\ v.type \in {"str", "list"}
    \/ field.type = "TimeDeltaField" /\ v.type = "int"
Assigned(v) == IF field.type = "TimeDeltaField" THEN Or(v, timedelta) ELSE v

\* What a program means by a value, whoever converts it
Instant(v) ==
    IF ~is_naive(v) THEN Plain("instant", v.n - v.off)
    ELSE IF Once(v.n) THEN Plain("instant", v.n - Local(v.n)) ELSE Plain("no instant", v.n)
Meaning(v) ==
    CASE v.type = "datetime" -> Instant(v)
      [] field.type = "DecimalField" -> Quantized(v)
      [] v.type = "delta" -> Plain("value", v.n)
      [] field.type = "BooleanField" -> Or(v, LAMBDA u : Plain("value", IF u.n # 0 THEN 1 ELSE 0))
      [] OTHER -> Or(v, LAMBDA u : Plain("value", u.n))

Raise(e) == raised' = e.type /\ UNCHANGED <<attr, cell, wrote>>
Stay == UNCHANGED <<field, tz, clock>>

\* The constructor, with the value passed
__init__(v) ==
    /\ Fits(v) /\ Stay
    /\ LET u == IF v = None /\ ~field.null THEN Exception("ValueError") ELSE to_python_value(Assigned(v))
       IN  IF IsException(u) THEN Raise(u)
           ELSE attr' = u /\ raised' = "" /\ UNCHANGED <<cell, wrote>>

Assign(v) ==
    /\ Fits(v) /\ Stay
    /\ attr' = Assigned(v) /\ raised' = "" /\ UNCHANGED <<cell, wrote>>

\* The database refuses NULL where it may not be.
Write(v, meant) ==
    IF IsException(v) THEN Raise(v)
    ELSE IF v = None /\ ~field.null THEN Raise(Exception("IntegrityError"))
    ELSE cell' = v /\ wrote' = meant /\ raised' = "" /\ UNCHANGED attr

\* save(): auto_now, and auto_now_add when there is no value yet
Stamped == field.auto = "now" \/ (field.auto = "add" /\ attr = None)
save ==
    /\ Stay
    /\ IF Stamped
       THEN attr' = now /\ cell' = now /\ wrote' = Plain("instant", clock) /\ raised' = ""
       ELSE Write(to_db_value(attr), Meaning(attr))

\* QuerySet.update(), without an instance
update(v) ==
    Fits(v) /\ Stay /\ Write(to_db_value(Assigned(v)), Meaning(Assigned(v)))

\* The row is read again.
get ==
    /\ Stay
    /\ LET u == _init_from_db(cell)
       IN  IF IsException(u) THEN Raise(u)
           ELSE attr' = u /\ raised' = "" /\ UNCHANGED <<cell, wrote>>

Tick == clock < MaxTime /\ clock' = clock + 1 /\ UNCHANGED <<field, tz, attr, cell, wrote, raised>>

Next ==
    \/ \E v \in Given \cup {None} : __init__(v) \/ Assign(v) \/ update(v)
    \/ save \/ get \/ Tick

Spec == Init /\ [][Next]_vars

-----------------------------------------------------------------------------
TypeOK ==
    /\ field \in FieldsOf /\ raised \in Exceptions \cup {""}
    /\ attr.type \in {"None", "int", "bool", "decimal", "datetime", "delta", "enum", "list", "str",
                     "text"}
    /\ cell.type \in {"None", "int", "decimal", "datetime", "str", "text"}

(* A row means what was written, by whichever way: the same number,         *)
(* decimal, member, duration, document or instant, though the offsets of    *)
(* datetimes differ and naive ones are taken to be local; and a value read  *)
(* and saved again stays what it was.  A row can hold what cannot be read   *)
(* in two cases, both of values that the executor converts without looking  *)
(* at them (sqlite/executor.py:31-54): a decimal that a validator refuses,  *)
(* and a naive time that is not once in the zone, in the hour that the      *)
(* clocks leave out or repeat.                                              *)
ReadsBack ==
    LET u == _init_from_db(cell)
        again == to_db_value(u)
    IN  IF IsException(u)
        THEN \/ cell = None \/ field.type = "DecimalField"
             \/ field.type = "DatetimeField" /\ is_naive(cell) /\ ~Once(cell.n)
        ELSE /\ Meaning(u) = wrote
             /\ ~IsException(again) => Meaning(_init_from_db(again)) = wrote
=============================================================================

------------------------------ MODULE TimeText ------------------------------
(***************************************************************************)
(* What the methods Rendering renders bind when they are called with       *)
(* times: the emitted timeText, timeTextPtr and timeTextNull, in the       *)
(* layout of internal/converge/times.go.                                   *)
(*                                                                         *)
(* A time is an instant, to the second and whether there is more to it,    *)
(* in a zone.  A text is a sequence of numbers that stand for characters:  *)
(* the digits of the year, a hyphen, which is less than any digit, and the *)
(* rest of the layout, whose fields have one width, as one number.         *)
(***************************************************************************)
EXTENDS Rendering, Integers

CONSTANTS
    YearDigits,  \* the layout's digits for a year
    Base,        \* of those digits
    YearLength,  \* seconds in a year
    Moments,     \* the times a caller may give
    MaxElements, \* bound: elements of a list
    MaxCalls     \* bound: calls

ASSUME TimeTextAssumption ==
    /\ YearDigits \in Nat \ {0} /\ Base \in Nat \ {0, 1} /\ YearLength \in Nat \ {0}
    /\ \A t \in Moments :
          /\ t \in [second : Int, fraction : BOOLEAN, zone : Int]
          \* Year zero and later, on the caller's clock too
          /\ t.second >= 0 /\ t.second + t.zone >= 0
    /\ MaxElements \in Nat /\ MaxCalls \in Nat
    \* SQLite has no array to bind a list of texts as
    /\ TextTime \subseteq Expanding

Nil  == [nil |-> TRUE]  \* a nil pointer, or a NullTime that is not valid
NULL == <<>>            \* which is no text

VARIABLES
    called,  \* the calls so far
    bound    \* the times they gave, and what reached the driver for each

tvars == <<vars, called, bound>>

-----------------------------------------------------------------------------
(* time.Time.                                                              *)

Wall(t) == t.second + t.zone
UTC(t) == [t EXCEPT !.zone = 0]

Power[k \in Nat] == IF k = 0 THEN 1 ELSE Base * Power[k - 1]

(* A year has at least YearDigits digits.                                  *)
Digits(year) ==
    LET width == CHOOSE w \in YearDigits..(YearDigits + year) :
                     year < Power[w] /\ (w > YearDigits => year >= Power[w - 1])
    IN  [k \in 1..width |-> (year \div Power[width - k]) % Base]

Hyphen == -1
Format(t) ==
    Digits(Wall(t) \div YearLength) \o <<Hyphen, Wall(t) % YearLength>>

(* Mutant: the caller's own wall clock.                                    *)
timeTextLocal(t) == Format(t)

timeText(t) == Format(UTC(t))

(* bindValue and bindElement, around what the helpers do with nil.         *)
Wrap(helper, v) ==
    IF helper = "" THEN v
    ELSE IF v = Nil THEN NULL
    ELSE timeText(v)

-----------------------------------------------------------------------------
(* A call of a method.                                                     *)

IsTime(f) == f.type.kind = "time" /\ f.type.override = None

(* The elements of a list, or the one value of a scalar.                   *)
Values(f) ==
    IF ~IsTime(f) THEN {<<>>}
    ELSE IF f.type.slice THEN SeqOf(Moments, MaxElements)
    ELSE {<<v>> : v \in Moments \cup (IF f.type.nullable THEN {Nil} ELSE {})}

Binding(f, v) == {[value |-> v[k], as |-> Wrap(Bound(f).helper, v[k])] : k \in DOMAIN v}

Call(q) ==
    /\ pc = "done" /\ Compiles
    /\ called < MaxCalls
    /\ \E f \in ParamsOf(q) : IsTime(f)
    /\ \E arg \in [ParamsOf(q) -> UNION {Values(f) : f \in ParamsOf(q)}] :
          /\ \A f \in ParamsOf(q) : arg[f] \in Values(f)
          /\ bound' = bound \cup UNION {Binding(f, arg[f]) : f \in ParamsOf(q)}
    /\ called' = called + 1
    /\ UNCHANGED vars

TInit == Init /\ called = 0 /\ bound = {}

TNext ==
    \/ Next /\ UNCHANGED <<called, bound>>
    \/ \E q \in Queries : Call(q)

TSpec == TInit /\ [][TNext]_tvars

-----------------------------------------------------------------------------
(* Texts are compared character by character.                              *)
Less(a, b) ==
    \E k \in 1..Len(b) :
        /\ \A j \in 1..(k - 1) : j <= Len(a) /\ a[j] = b[j]
        /\ k > Len(a) \/ a[k] < b[k]

(* Times the layout has the digits for, in UTC.                            *)
InRange(t) == t.second < YearLength * Power[YearDigits]

(***************************************************************************)
(* An engine without a timestamp type compares the texts it is given as    *)
(* the others compare times, whatever zones the callers are in, as long as *)
(* the years have the digits of the layout.  Two times of one second are   *)
(* one text, which is where the engines part; and NULL is bound for an     *)
(* absent time and for no other (times.go:141-157, times.go:163-190).      *)
(***************************************************************************)
TextsOrderAsTimes ==
    pkg.dialect \in TextTime =>
        /\ \A b \in bound : b.value = Nil <=> b.as = NULL
        /\ LET timed == {b \in bound : b.value # Nil /\ InRange(b.value)}
           IN  \A a, b \in timed :
                  /\ a.value.second < b.value.second => Less(a.as, b.as)
                  /\ a.value.second = b.value.second => a.as = b.as
=============================================================================

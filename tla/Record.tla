------------------------------- MODULE Record -------------------------------
(***************************************************************************)
(* A program that computes with a StrictInt and keeps numbers in a Record  *)
(* (src/core/record.h, src/core/stream_schema.h): operators on one number, *)
(* add_field(FieldValue::make_K(number)) and field(...).as_K().  A         *)
(* FieldValue stores each of the four kinds of integers as an int64_t;     *)
(* floats and strings have members of their own and are opaque here.       *)
(*                                                                         *)
(* A record is not checked against its schema: it may have fewer fields,   *)
(* more, or other kinds.                                                   *)
(***************************************************************************)
EXTENDS StrictInt, Sequences

CONSTANTS
  Bits32, Bits64,  \* the widths of the smaller and the larger types
  Opaque,          \* the kinds of fields that hold no integer
  Names,           \* the names of fields
  MaxFields,       \* bound of the model: fields of a schema and of a record
  MaxCalls         \* bound of the model: how many calls are made

ASSUME RecordAssumption ==
  /\ Bits32 \in Nat /\ Bits64 \in Nat /\ 1 < Bits32 /\ Bits32 < Bits64
  /\ MaxFields \in Nat /\ MaxCalls \in Nat

I32 == [signed |-> TRUE, bits |-> Bits32]
I64 == [signed |-> TRUE, bits |-> Bits64]
U32 == [signed |-> FALSE, bits |-> Bits32]
U64 == [signed |-> FALSE, bits |-> Bits64]
Kinds == {I32, I64, U32, U64}

VARIABLES
  schema,  \* the names of the schema's fields, repeated or not
  fields,  \* fields_: kind and int_storage_; meant is what was stored
  type,    \* the type of the number
  value,   \* the number
  meant,   \* the integer it stands for: what exact arithmetic gives since
           \* the number was last converted, divided or cut up into bits
  status,  \* "running", or why the program has ended
  calls    \* how many calls were made

recordVars == <<schema, fields, type, value, meant, status, calls>>

RecordInit ==
  /\ schema \in UNION {[1..n -> Names] : n \in 0..MaxFields}
  /\ fields = << >>
  /\ type \in Kinds
  /\ value \in Values(type) /\ meant = value
  /\ status = "running" /\ calls = 0

\* A call with one of these outcomes; what it means depends on the value.
Call(outcomes, Meaning(_)) ==
  /\ status = "running" /\ calls < MaxCalls
  /\ calls' = calls + 1
  /\ \E o \in outcomes :
       /\ status' = o.status /\ value' = o.value
       /\ meant' = Meaning(o.value)
  /\ UNCHANGED schema

\* A call that leaves the number alone, and may end the program.
Quietly(outcomes) == Call(outcomes, LAMBDA v : meant)

Same == UNCHANGED <<type, fields>>

-----------------------------------------------------------------------------
(* StrictInt.  op= assigns the result of op, ++ and -- that of + and - 1. *)

Add(b)      == Call(Checked(type, value + b), LAMBDA v : meant + b) /\ Same
Subtract(b) == Call(Checked(type, value - b), LAMBDA v : meant - b) /\ Same
Multiply(b) == Call(Checked(type, value * b), LAMBDA v : meant * b) /\ Same
Negate      == Call(Checked(type, 0 - value), LAMBDA v : 0 - meant) /\ Same
Increment   == Add(1)
Decrement   == Subtract(1)

DivideBy(b) ==
  Call(Divide(type, value, b),
       LAMBDA v : IF b = 0 THEN meant ELSE Quotient(value, b)) /\ Same
ModuloBy(b) ==
  Call(Modulo(type, value, b),
       LAMBDA v : IF b = 0 THEN meant ELSE Remainder(value, b)) /\ Same

Bitwise(outcomes) == Call(outcomes, LAMBDA v : v) /\ Same
Complement == Call(Not(type, value), LAMBDA v : -1 - meant) /\ Same

\* as<U>() casts, whether the value fits or not.
Convert(k) ==
  /\ Call(Returns(Wrap(k, value)), LAMBDA v : v)
  /\ type' = k
  /\ UNCHANGED fields

-----------------------------------------------------------------------------
(* FieldValue and Record *)

\* add_field(make_K(number)), where K is the type of the number.
AddField ==
  /\ Len(fields) < MaxFields
  /\ Quietly(Returns(value))
  /\ fields' = Append(fields, [kind |-> type, storage |-> Wrap(I64, value),
                               meant |-> value])
  /\ UNCHANGED type

\* add_field(make_f32(...)) and the like: int_storage_ keeps its first value.
AddOpaque(k) ==
  /\ Len(fields) < MaxFields
  /\ Quietly(Returns(value))
  /\ fields' = Append(fields, [kind |-> k, storage |-> 0, meant |-> 0])
  /\ UNCHANGED type

\* as_K() of the field f.
AsKind(k, f) ==
  /\ Call(IF f.kind = k THEN Returns(Wrap(k, f.storage)) ELSE Ends("kind"),
          LAMBDA v : f.meant)
  /\ type' = k
  /\ UNCHANGED fields

\* field(index).as_K(), with the assert on the index.
ReadAt(i, k) ==
  IF i \in 1..Len(fields) THEN AsKind(k, fields[i])
  ELSE Quietly(Ends("index")) /\ Same

\* field(index).as_f32() and the like: it has no effect on the number.
ReadOpaque(i, k) ==
  /\ Quietly(IF i \notin 1..Len(fields) THEN Ends("index")
             ELSE IF fields[i].kind # k THEN Ends("kind") ELSE Returns(value))
  /\ Same

\* field_index(): the first field of that name.
FieldIndex(name) == {i \in 1..Len(schema) :
  schema[i] = name /\ \A h \in 1..i - 1 : schema[h] # name}

\* field(name).as_K(): the name must be known, but the index is not compared
\* with the fields the record has; what is read past them may be anything.
ReadNamed(name, k) ==
  IF FieldIndex(name) = {} THEN Quietly(Ends("name")) /\ Same
  ELSE \E i \in FieldIndex(name) :
         IF i <= Len(fields) THEN AsKind(k, fields[i])
         ELSE /\ Call(Ends("kind") \cup UNION {Returns(v) : v \in Values(k)},
                      LAMBDA v : v)
              /\ type' = k
              /\ UNCHANGED fields

RecordNext ==
  \/ \E b \in Values(type) :
       \/ Add(b) \/ Subtract(b) \/ Multiply(b)
       \/ DivideBy(b) \/ ModuloBy(b)
       \/ Bitwise(And(type, value, b)) \/ Bitwise(Or(type, value, b))
       \/ Bitwise(Xor(type, value, b))
       \/ Bitwise(ShiftLeft(type, value, b)) \/ Bitwise(ShiftRight(type, value, b))
  \/ Negate \/ Complement \/ Increment \/ Decrement
  \/ AddField
  \/ \E k \in Kinds :
       \/ Convert(k)
       \/ \E i \in 1..MaxFields + 1 : ReadAt(i, k)
       \/ \E name \in Names : ReadNamed(name, k)
  \/ \E k \in Opaque : AddOpaque(k) \/ \E i \in 1..MaxFields + 1 : ReadOpaque(i, k)

RecordSpec == RecordInit /\ [][RecordNext]_recordVars

-----------------------------------------------------------------------------
\* Type correctness: no number is ever outside its type.
RecordTypeOK ==
  /\ type \in Kinds /\ calls \in 0..MaxCalls
  /\ status \in {"running", "overflow", "zero", "trap", "kind", "index", "name"}
  /\ status = "running" => value \in Values(type)
  /\ Len(fields) <= MaxFields
  /\ \A i \in 1..Len(fields) :
       /\ fields[i].storage \in Values(I64)
       /\ \/ fields[i].kind \in Opaque
          \/ fields[i].kind \in Kinds /\ fields[i].meant \in Values(fields[i].kind)

\* "Signed-only overflow asserts; unsigned wraps freely" (PLAN.md:33), over a
\* whole computation: a signed number is exactly the integer its calls stand
\* for, however they were ordered, or the program has stopped, and only on
\* an integer that does not fit; an unsigned one is that integer modulo its
\* range; and what is read from a record is what was stored in it, the upper
\* half of the unsigned numbers included.
Exact ==
  /\ status = "running" => /\ value = Wrap(type, meant)
                           /\ type.signed => value = meant
  /\ status = "overflow" => type.signed /\ meant \notin Values(type)
=============================================================================

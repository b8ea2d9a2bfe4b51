-------------------------- MODULE StructuredOutput --------------------------
(***************************************************************************)
(* structured.go: GenerateTyped.  The model is shown the JSON schema of a  *)
(* Go type, and replies with JSON, JSON in prose, or something else.  A    *)
(* reply is searched for values, and a value is taken if encoding/json     *)
(* decodes it and it has what the schema asks for; otherwise the model is  *)
(* shown its reply and asked again, a number of times.                     *)
(*                                                                         *)
(* encoding/json is lenient: it ignores what it does not know, leaves zero *)
(* what is missing or null, and fields of embedded structs hide each other.*)
(***************************************************************************)
EXTENDS Integers, Sequences, FiniteSets, SequencesExt

CONSTANT MaxRepairs     \* bound on MaxRepairAttempts

StructuredAssumption == MaxRepairs \in Nat

VARIABLES
    target,             \* the type T, and whether the caller gave its own schema
    repairs,            \* MaxRepairAttempts
    asked,              \* how many times the model was called
    reply,              \* the reply under examination: the tokens it consists of
    phase               \* "asking", "parsing", "returned", "invalid" or "error"

vars == <<target, repairs, asked, reply, phase>>

-----------------------------------------------------------------------------
(* Types and values.                                                       *)

Text == [kind |-> "string"]
Number == [kind |-> "number"]
Anything == [kind |-> "any"]
SliceOf(T) == [kind |-> "slice", elem |-> T]
Struct(name, fields) == [kind |-> "struct", name |-> name, fields |-> fields]
Self == [kind |-> "self"]       \* the recursive type Node

Field(name, T) == [name |-> name, type |-> T, pointer |-> FALSE, embedded |-> FALSE]
Pointer(name, T) == [Field(name, T) EXCEPT !.pointer = TRUE]
Embedded(T) == [Field("", T) EXCEPT !.embedded = TRUE]

Point == Struct("Point", <<Field("a", Text), Pointer("b", Number)>>)
Base == Struct("Base", <<Field("a", Number), Field("c", Text)>>)
Promoting == Struct("Promoting", <<Field("a", Text), Embedded(Base)>>)
Ambiguous == Struct("Ambiguous", <<Field("b", Text), Embedded(Base), Embedded(Promoting)>>)
Node == Struct("Node", <<Field("a", Text), Pointer("b", Self)>>)

\* schemaForType has a schema for each of these, of which those of Anything and Self say nothing.
Types == {Text, Number, Anything, Point, Promoting, Ambiguous, Node, SliceOf(Point), Struct("Empty", <<>>)}

Resolved(T) == IF T = Self THEN Node ELSE T

Null == [kind |-> "null"]
Str == [kind |-> "string"]
Num == [kind |-> "number"]
Object(of) == [kind |-> "object", of |-> of]
Array(items) == [kind |-> "array", items |-> items]
Prose == [kind |-> "prose"]
Unbalanced == [kind |-> "unbalanced"]

\* Names of fields fold together as encoding/json compares them.
Fold(name) == IF name = "A" THEN "a" ELSE name

FieldKeys == {"a", "A", "b", "c", "z"}
Leaves == {Null, Str, Num}
Objects ==
    {Object(of) : of \in UNION {[S -> Leaves] : S \in {S \in SUBSET FieldKeys : Cardinality(S) <= 3}}}
        \cup {Object([a |-> Str, b |-> Object(of)]) : of \in {<<>>, [a |-> Null], [a |-> Str]}}
Wrapped == Object([z |-> Object([a |-> Str, b |-> Num])])
Good == Object([a |-> Str, b |-> Num])
Values == Leaves \cup Objects \cup {Wrapped}
Arrays == {Array(<<>>)} \cup {Array(<<Good, o>>) : o \in Objects}

-----------------------------------------------------------------------------
(* The schema: the fields of a struct that it names.                       *)

\* Of the fields with one name the shallowest counts, and none if there are several.
Dominant(found) ==
    {f \in found : \A g \in found : g.name = f.name /\ g # f => Len(g.path) > Len(f.path)}

\* A field as the schema has it: where it is, through how many embeddings.
At(i, field, path) ==
    [name |-> field.name, type |-> field.type, pointer |-> field.pointer, path |-> <<i>> \o path]

RECURSIVE SchemaForStructChain(_, _)
\* Embedded structs give their fields, but not one that is on the way already.
MergeEmbeddedSchema(T, chain) ==
    IF T.name \in chain THEN {} ELSE SchemaForStructChain(T, chain \cup {T.name})

SchemaForStructChain(T, chain) ==
    Dominant(UNION {
        LET field == T.fields[i] IN
        IF field.embedded THEN {At(i, f, f.path) : f \in MergeEmbeddedSchema(field.type, chain)}
        ELSE {At(i, field, <<>>)}
        : i \in DOMAIN T.fields})

JsonVisibleFields(T) == {f.name : f \in SchemaForStructChain(T, {T.name})}

\* The field a name stands for, by the same rule, but with names folded.
RECURSIVE StructFieldByJSONName(_, _)
StructFieldByJSONName(T, name) ==
    LET found == UNION {
            LET field == T.fields[i] IN
            IF field.embedded THEN {At(i, f, f.path) : f \in StructFieldByJSONName(field.type, name)}
            ELSE IF Fold(field.name) = Fold(name) THEN {At(i, field, <<>>)} ELSE {}
            : i \in DOMAIN T.fields}
    IN  {f \in found : \A g \in found \ {f} : Len(g.path) > Len(f.path)}

\* A slip: null passes for a scalar, and leaves it at zero.
PermitsNullAlways(T) == TRUE

SchemaPermitsNull(T) == T.kind = "any"

-----------------------------------------------------------------------------
(* Decoding and validation.                                                *)

\* encoding/json: all the fields of T however deep, of which the shallowest count.
RECURSIVE AllFields(_)
AllFields(T) ==
    UNION {LET field == T.fields[i] IN
           IF ~field.embedded THEN {At(i, field, <<>>)}
           ELSE {At(i, f, f.path) : f \in AllFields(field.type)}
           : i \in DOMAIN T.fields}

DecodedInto(T, key) == {f \in Dominant(AllFields(T)) : Fold(f.name) = Fold(key)}

\* json.Unmarshal: null fits everything, what has no field is ignored.
RECURSIVE Decodes(_, _)
Decodes(value, type) ==
    LET T == Resolved(type) IN
    \/ value.kind = "null" \/ T.kind = "any" \/ value.kind = T.kind
    \/ /\ T.kind = "struct" /\ value.kind = "object"
       /\ \A key \in DOMAIN value.of : \A f \in DecodedInto(T, key) : Decodes(value.of[key], f.type)
    \/ /\ T.kind = "slice" /\ value.kind = "array"
       /\ \A i \in DOMAIN value.items : Decodes(value.items[i], T.elem)

\* The keys of an object that stand for a name: itself, or else the only one that folds
\* to it, for the only field that does.
KeysFor(value, name, required) ==
    LET folded == {key \in DOMAIN value.of : Fold(key) = Fold(name)}
        alone == Cardinality(folded) = 1 /\ \A other \in required \ {name} : Fold(other) # Fold(name)
    IN  IF name \in DOMAIN value.of THEN {name} ELSE IF alone THEN folded ELSE {}

RECURSIVE ValidateFieldValue(_, _, _, _)
\* Every field the schema names is there, and no other; a struct inside itself is not
\* looked at, as its schema says nothing.
ValidateObjectRequiredFields(value, T, chain) ==
    LET required == JsonVisibleFields(T) IN
    T.name \notin chain =>
        /\ {Fold(key) : key \in DOMAIN value.of} \subseteq {Fold(name) : name \in required}
        /\ \A name \in required :
             LET keys == KeysFor(value, name, required) IN
             keys # {} /\ \A key \in keys, f \in StructFieldByJSONName(T, name) :
                ValidateFieldValue(value.of[key], f.type, f.pointer, chain \cup {T.name})

\* Null only where it is permitted, or for a pointer inside something.
ValidateFieldValue(value, type, pointer, chain) ==
    LET T == Resolved(type) IN
    CASE value.kind = "null" -> pointer \/ SchemaPermitsNull(T)
      [] T.kind = "struct" /\ value.kind = "object" -> ValidateObjectRequiredFields(value, T, chain)
      [] T.kind = "slice" /\ value.kind = "array" ->
            \A i \in DOMAIN value.items : ValidateFieldValue(value.items[i], T.elem, FALSE, chain)
      [] OTHER -> TRUE

\* A caller's own schema is not enforced.
UnmarshalCandidate(value) ==
    Decodes(value, target.type) /\ (target.callerSchema \/ ValidateFieldValue(value, target.type, FALSE, {}))

-----------------------------------------------------------------------------
(* Searching a reply.                                                      *)

IsValue(token) == token.kind \notin {"prose", "unbalanced"}
Structured(token) == token.kind \in {"object", "array"}

\* Objects and arrays, but not what is inside of them.
ExtractJSONCandidates == SelectSeq(reply, Structured)

\* Scalars, up to a bracket that nothing closes.
ExtractScalarJSONCandidates ==
    LET broken == {i \in DOMAIN reply : reply[i].kind = "unbalanced"}
        before == SubSeq(reply, 1, IF broken = {} THEN Len(reply) ELSE Min(broken) - 1)
    IN  SelectSeq(before, LAMBDA token : IsValue(token) /\ ~Structured(token))

\* The reply itself, then what is in it; of scalars only the null is checked.
ParseTypedForSchema ==
    LET direct == IF Len(reply) = 1 /\ IsValue(reply[1]) THEN reply ELSE <<>>
        candidates == SelectSeq(direct \o ExtractJSONCandidates, UnmarshalCandidate)
        taken(value) == /\ Decodes(value, target.type)
                        /\ value.kind = "null" => target.callerSchema \/ SchemaPermitsNull(target.type)
    IN  candidates \o SelectSeq(ExtractScalarJSONCandidates, taken)

-----------------------------------------------------------------------------
(* generateTyped.                                                          *)

Init ==
    /\ target \in [type : Types, callerSchema : {FALSE}] \cup [type : {Point}, callerSchema : {TRUE}]
    /\ repairs \in 0..MaxRepairs
    /\ asked = 0 /\ reply = <<>> /\ phase = "asking"

\* A value alone, in prose, or after something that is not the answer.
Replies ==
    {<<value>> : value \in Values \cup Arrays}
        \cup {<<first, value>> : first \in {Prose, Unbalanced, Null, Num, Wrapped}, value \in Values}

Generate ==
    /\ phase = "asking" /\ phase' = "parsing"
    /\ reply' \in Replies /\ asked' = asked + 1
    /\ UNCHANGED <<target, repairs>>

\* An error of the model, or no response, is not repaired.
GenerateFails ==
    /\ phase = "asking" /\ phase' = "error"
    /\ asked' = asked + 1 /\ UNCHANGED <<target, repairs, reply>>

Accept ==
    /\ phase = "parsing" /\ ParseTypedForSchema # <<>>
    /\ phase' = "returned" /\ UNCHANGED <<target, repairs, asked, reply>>

\* The model is shown what was rejected and why, if there are attempts left.
Reject ==
    /\ phase = "parsing" /\ ParseTypedForSchema = <<>>
    /\ IF asked <= repairs
       THEN phase' = "asking" /\ reply' = <<>>
       ELSE phase' = "invalid" /\ UNCHANGED reply
    /\ UNCHANGED <<target, repairs, asked>>

Next == Generate \/ GenerateFails \/ Accept \/ Reject

Spec == Init /\ [][Next]_vars

-----------------------------------------------------------------------------
(* Properties                                                              *)

\* Decoding the value leaves no field of the type unset, however deep, but where a
\* pointer is null or the type repeats itself; and ignores nothing in the value.
RECURSIVE Fills(_, _, _, _)
Fills(value, type, pointer, chain) ==
    LET T == Resolved(type) IN
    CASE value.kind = "null" -> pointer \/ T.kind = "any"
      [] T.kind = "struct" /\ T.name \notin chain ->
            /\ \A key \in DOMAIN value.of : DecodedInto(T, key) # {}
            /\ \A f \in Dominant(AllFields(T)) : \E key \in DOMAIN value.of :
                 f \in DecodedInto(T, key) /\ Fills(value.of[key], f.type, f.pointer, chain \cup {T.name})
      [] T.kind = "slice" -> \A i \in DOMAIN value.items : Fills(value.items[i], T.elem, FALSE, chain)
      [] OTHER -> TRUE

Fits(value) ==
    Decodes(value, target.type) /\ (target.callerSchema \/ Fills(value, target.type, FALSE, {}))

\* Two keys of an object may stand for one field, and encoding/json takes the last.
RepeatsNoKey(value) ==
    CASE value.kind = "object" -> ~({"a", "A"} \subseteq DOMAIN value.of)
      [] value.kind = "array" -> \A i \in DOMAIN value.items : ~({"a", "A"} \subseteq DOMAIN value.items[i].of)
      [] OTHER -> TRUE

\* What is returned is a value of the reply, not one inside another, and fills the type;
\* a reply is given up only when no value in it does.
TypedAnswersAreWhole ==
    /\ phase = "returned" =>
         Head(ParseTypedForSchema) \in Range(reply) /\ Fits(Head(ParseTypedForSchema))
    /\ phase = "invalid" =>
         /\ asked = repairs + 1
         /\ \A i \in DOMAIN reply : IsValue(reply[i]) /\ reply[1] # Unbalanced => ~(Fits(reply[i]) /\ RepeatsNoKey(reply[i]))
=============================================================================

---------------------------- MODULE TypeConvert ----------------------------
(***************************************************************************)
(* The datatypes of the connector (rest_vol_datatype.c): the document that *)
(* is sent for a type, the type that is made of a document, and whether    *)
(* and how two types are converted into each other.                        *)
(*                                                                         *)
(* A type is a record with a class and what HDF5 keeps for that class:     *)
(*   integer   size, order, signed            float  size, order           *)
(*   string    length (Variable if it varies), cset, pad                   *)
(*   compound  size, fields: a sequence of [name, offset, type]            *)
(*   enum      base, members: a sequence of [name, value]                  *)
(*   array     base, dims                     reference  to                *)
(*   opaque, bitfield, vlen, time             (size only)                  *)
(* A document has the same shape, with the name of a number's type spelled *)
(* out ([letter, bits, order]) and without offsets.  Refused stands for    *)
(* FAIL.  Members whose type is committed are left out.                    *)
(*                                                                         *)
(* Sizes are in bytes.  A byte is scaled down to one bit, so an eight-byte *)
(* integer has 2^8 values: what matters here is which bytes of a value are *)
(* looked at, in which order, and where its sign is.                       *)
(***************************************************************************)
EXTENDS Integers, Sequences, SequencesExt

Refused  == [class |-> "refused"]
Variable == 0
LongLong == 8                       \* H5_SIZEOF_LONG_LONG
PtrSize  == 8                       \* a char * or an hvl_t
RefSize  == 8                       \* a reference in memory

\* H5Tget_size.
RECURSIVE Size(_)
Size(t) ==
    CASE t.class = "string"    -> IF t.length = Variable THEN PtrSize ELSE t.length
      [] t.class = "enum"      -> t.base.size
      [] t.class = "array"     -> FoldLeft(LAMBDA n, d : n * d, Size(t.base), t.dims)
      [] t.class = "reference" -> RefSize
      [] OTHER                 -> t.size

Numbers     == {"integer", "float"}
Unsupported == {"opaque", "bitfield", "vlen", "time"}

(***************************************************************************)
(* The values of an enumeration                                            *)
(***************************************************************************)
Digits(v, n) == [k \in 1..n |-> ((v % (2^n)) \div (2^(k - 1))) % 2]
Number(ds)   == FoldLeft(LAMBDA n, d : 2 * n + d, 0, Reverse(ds))

\* The bytes of value v of an integer type, as they lie in memory.
InMemory(v, t) == IF t.order = "LE" THEN Digits(v, t.size)
                  ELSE Reverse(Digits(v, t.size))

\* Faulty variant: the word is not cleared between two members.
EnumValueUncleared(v, base) ==
    LET word == InMemory(v, base) \o [k \in 1..(LongLong - base.size) |-> 1]
    IN  Number(word)

\* What is printed for a member: its bytes were copied to the front of a
\* zeroed long long, which is read in the order of the machine (LE).
EnumValue(v, base) ==
    LET word == InMemory(v, base) \o [k \in 1..(LongLong - base.size) |-> 0]
        n    == Number(word)
    IN  IF base.signed /\ n >= 2^(LongLong - 1) THEN n - 2^LongLong ELSE n

\* H5Tconvert from long long to the base type: what does not fit is clipped.
Lowest(t)  == IF t.signed THEN -(2^(t.size - 1)) ELSE 0
Highest(t) == IF t.signed THEN 2^(t.size - 1) - 1 ELSE 2^t.size - 1
Clip(n, t) == IF n < Lowest(t) THEN Lowest(t) ELSE IF n > Highest(t) THEN Highest(t) ELSE n

(***************************************************************************)
(* RV_convert_datatype_to_JSON                                             *)
(***************************************************************************)

\* RV_convert_predefined_datatype_to_string: "H5T_STD_I32LE" and the like.
\* Whatever is not little-endian is called big-endian.
PredefinedName(t) ==
    [letter |-> IF t.class = "float" THEN "F" ELSE IF t.signed THEN "I" ELSE "U",
     bits   |-> t.size * 8,
     order  |-> IF t.order = "LE" THEN "LE" ELSE "BE"]

EncodeNumber(t) == [class |-> t.class, base |-> PredefinedName(t)]

\* Every string is sent as ASCII, with the one padding that is supported.
EncodeString(t) == [class |-> "string", length |-> t.length, cset |-> "ASCII",
                    pad |-> IF t.length = Variable THEN "NULLTERM" ELSE "NULLPAD"]

EncodeEnum(t) ==
    [class |-> "enum", base |-> EncodeNumber(t.base),
     mapping |-> [i \in DOMAIN t.members |->
                    [name |-> t.members[i].name,
                     value |-> EnumValue(t.members[i].value, t.base)]]]

EncodeReference(t) == [class |-> "reference",
                       base |-> IF t.to = "object" THEN "object" ELSE "region"]

RECURSIVE Encode(_)
EncodeArray(t) ==
    LET base == Encode(t.base)
    IN  IF base = Refused THEN Refused
        ELSE [class |-> "array", base |-> base, dims |-> t.dims]

\* The offsets of the members are not sent.
EncodeCompound(t) ==
    LET of == [i \in DOMAIN t.fields |-> Encode(t.fields[i].type)]
    IN  IF \E i \in DOMAIN of : of[i] = Refused THEN Refused
        ELSE [class |-> "compound",
              fields |-> [i \in DOMAIN of |-> [name |-> t.fields[i].name, type |-> of[i]]]]

Encode(t) == CASE t.class \in Numbers     -> EncodeNumber(t)
               [] t.class = "string"      -> EncodeString(t)
               [] t.class = "compound"    -> EncodeCompound(t)
               [] t.class = "enum"        -> EncodeEnum(t)
               [] t.class = "array"       -> EncodeArray(t)
               [] t.class = "reference"   -> EncodeReference(t)
               [] t.class \in Unsupported -> Refused

(***************************************************************************)
(* RV_convert_JSON_to_datatype                                             *)
(***************************************************************************)

\* The width is decided by the first digit of the number of bits, and the
\* order by the character behind the digits that width should have: it is
\* 'L' only when the number has no more digits than that.
DigitCount(n) == IF n < 10 THEN 1 ELSE IF n < 100 THEN 2 ELSE 3
FirstDigit(n) == n \div 10^(DigitCount(n) - 1)

NumberOf(class, name, width, digits) ==
    LET order == IF DigitCount(name.bits) = digits THEN name.order ELSE "BE"
    IN  IF class = "float" THEN [class |-> class, size |-> width, order |-> order]
        ELSE [class |-> class, size |-> width, order |-> order,
              signed |-> name.letter # "U"]

\* Faulty variant: a number of any width is taken for a 32-bit one.
DecodeIntegerAs32(d) == NumberOf("integer", d.base, 4, 2)

DecodeInteger(d) ==
    CASE FirstDigit(d.base.bits) = 8 -> NumberOf("integer", d.base, 1, 1)
      [] FirstDigit(d.base.bits) = 1 -> NumberOf("integer", d.base, 2, 2)
      [] FirstDigit(d.base.bits) = 3 -> NumberOf("integer", d.base, 4, 2)
      [] FirstDigit(d.base.bits) = 6 -> NumberOf("integer", d.base, 8, 2)
      [] OTHER -> Refused

DecodeFloat(d) ==
    CASE FirstDigit(d.base.bits) = 3 -> NumberOf("float", d.base, 4, 2)
      [] FirstDigit(d.base.bits) = 6 -> NumberOf("float", d.base, 8, 2)
      [] OTHER -> Refused

DecodeString(d) ==
    IF d.cset = "ASCII" /\ d.pad = IF d.length = Variable THEN "NULLTERM" ELSE "NULLPAD"
    THEN d ELSE Refused

\* A value that is no long long is no integer to the parser; two members
\* of one value cannot be inserted.
DecodeEnum(d) ==
    LET base == DecodeInteger(d.base)
        N    == DOMAIN d.mapping
        value(i) == Clip(d.mapping[i].value, base)
    IN  IF \/ base = Refused
           \/ \E i \in N : d.mapping[i].value >= 2^(LongLong - 1)
           \/ \E i, j \in N : i # j /\ value(i) = value(j)
        THEN Refused
        ELSE [class |-> "enum", base |-> base,
              members |-> [i \in N |-> [name |-> d.mapping[i].name, value |-> value(i)]]]

DecodeReference(d) == [class |-> "reference", to |-> d.base]

RECURSIVE Decode(_)
DecodeArray(d) ==
    LET base == Decode(d.base)
    IN  IF base = Refused THEN Refused
        ELSE [class |-> "array", base |-> base, dims |-> d.dims]

\* The members are laid out one behind the other.  The section of a member
\* is found by searching for "type", which a member of that name has twice.
DecodeCompound(d) ==
    LET N    == DOMAIN d.fields
        of   == [i \in N |-> Decode(d.fields[i].type)]
        offs[i \in 0..Len(d.fields)] == IF i = 0 THEN 0 ELSE offs[i - 1] + Size(of[i])
    IN  IF \E i \in N : of[i] = Refused \/ d.fields[i].name = "type" THEN Refused
        ELSE [class |-> "compound", size |-> offs[Len(d.fields)],
              fields |-> [i \in N |-> [name |-> d.fields[i].name,
                                       offset |-> offs[i - 1], type |-> of[i]]]]

Decode(d) == CASE d.class = "integer"   -> DecodeInteger(d)
               [] d.class = "float"     -> DecodeFloat(d)
               [] d.class = "string"    -> DecodeString(d)
               [] d.class = "compound"  -> DecodeCompound(d)
               [] d.class = "enum"      -> DecodeEnum(d)
               [] d.class = "array"     -> DecodeArray(d)
               [] d.class = "reference" -> DecodeReference(d)
               [] OTHER -> Refused

(***************************************************************************)
(* When and how two types are converted                                    *)
(***************************************************************************)

\* RV_detect_vl_vlstr_ref.
RECURSIVE HasVlenOrRef(_)
HasVlenOrRef(t) ==
    CASE t.class = "string"   -> t.length = Variable
      [] t.class = "compound" -> \E i \in DOMAIN t.fields : HasVlenOrRef(t.fields[i].type)
      [] t.class = "array"    -> HasVlenOrRef(t.base)
      [] OTHER -> t.class \in {"reference", "vlen"}

\* RV_need_tconv.
NeedTconv(src, dst) == src # dst \/ HasVlenOrRef(src)

\* RV_need_bkg for a destination in memory (its callers always pass FALSE
\* for dst_file): is there a background buffer, and must it be filled?
\* Only members with a match count; the first that is missing or must be
\* filled itself decides.
FieldNames(t)  == IF t.class = "compound" THEN {t.fields[i].name : i \in DOMAIN t.fields} ELSE {}
FieldType(t, name) == t.fields[CHOOSE i \in DOMAIN t.fields : t.fields[i].name = name].type

RECURSIVE NeedBkg(_, _)
\* Faulty variant: gaps between the members are not looked at.
CompoundBkgNoGaps(src, dst) ==
    [need |-> TRUE,
     fill |-> \E i \in DOMAIN dst.fields :
                \/ dst.fields[i].name \notin FieldNames(src)
                \/ NeedBkg(FieldType(src, dst.fields[i].name), dst.fields[i].type).fill]

CompoundBkg(src, dst) ==
    LET used == FoldLeft(LAMBDA n, f : n + Size(f.type), 0, dst.fields)
    IN  [need |-> TRUE,
         fill |-> \/ used # dst.size
                  \/ \E i \in DOMAIN dst.fields :
                       \/ dst.fields[i].name \notin FieldNames(src)
                       \/ NeedBkg(FieldType(src, dst.fields[i].name),
                                  dst.fields[i].type).fill]

NeedBkg(src, dst) == CASE dst.class = "compound" -> CompoundBkg(src, dst)
                       [] dst.class = "array"    -> NeedBkg(src.base, dst.base)
                       [] OTHER -> [need |-> FALSE, fill |-> FALSE]

\* RV_tconv_init: which buffers a conversion of one element uses, and how
\* large they are.  The caller's buffer is offered when reuse is not NULL.
TconvBuffers(src, dst, offered) ==
    LET large == IF Size(src) > Size(dst) THEN Size(src) ELSE Size(dst)
        reuse == IF ~ offered THEN "NONE"
                 ELSE IF Size(dst) >= Size(src) THEN "TCONV"
                 ELSE IF NeedBkg(src, dst).need THEN "BKG" ELSE "NONE"
    IN  [reuse |-> reuse,
         tconv |-> IF reuse = "TCONV" THEN 0 ELSE large,
         bkg   |-> IF NeedBkg(src, dst).need /\ reuse # "BKG" THEN Size(dst) ELSE 0]

(***************************************************************************)
(* What these are compared with                                            *)
(***************************************************************************)

\* The type a user may expect to find: the same members with the same
\* types, without the space between them, as plain padded ASCII strings.
RECURSIVE Expected(_)
Expected(t) ==
    CASE t.class = "string" -> EncodeString(t)
      [] t.class = "array"  -> [t EXCEPT !.base = Expected(@)]
      [] t.class = "compound" ->
           LET N  == DOMAIN t.fields
               of == [i \in N |-> Expected(t.fields[i].type)]
               before(i) == FoldLeft(LAMBDA n, x : n + Size(x), 0, SubSeq(of, 1, i - 1))
           IN  [class |-> "compound", size |-> before(Len(t.fields) + 1),
                fields |-> [i \in N |-> [name |-> t.fields[i].name,
                                         offset |-> before(i), type |-> of[i]]]]
      [] OTHER -> t

\* Types of which some part is read back as something else: a number of ten,
\* eleven or more than twelve bytes, and an enumeration of negative values
\* in less than eight bytes or of big-endian values.
RECURSIVE ReadBackWrong(_)
ReadBackWrong(t) ==
    CASE t.class = "integer"  -> t.size \in {10, 11} \cup 13..24
      [] t.class = "enum"     -> \/ ReadBackWrong(t.base)
                                 \/ t.base.order = "BE" /\ t.base.size > 1
                                 \/ /\ t.base.size < LongLong
                                    /\ \E i \in DOMAIN t.members : t.members[i].value < 0
      [] t.class = "array"    -> ReadBackWrong(t.base)
      [] t.class = "compound" -> \E i \in DOMAIN t.fields : ReadBackWrong(t.fields[i].type)
      [] OTHER -> FALSE

\* Types all parts of which a document can carry there and back.
RECURSIVE Faithful(_)
Faithful(t) ==
    CASE t.class = "integer"  -> t.size \in {1, 2, 4, 8}
      [] t.class = "float"    -> t.size \in {4, 8}
      [] t.class = "enum"     -> /\ Faithful(t.base) /\ ~ ReadBackWrong(t)
                                 /\ \A i \in DOMAIN t.members :
                                      t.members[i].value < 2^(LongLong - 1)
      [] t.class = "array"    -> Faithful(t.base)
      [] t.class = "compound" -> \A i \in DOMAIN t.fields :
                                    t.fields[i].name # "type" /\ Faithful(t.fields[i].type)
      [] OTHER -> t.class \in {"string", "reference"}

\* Types between which HDF5 converts (as far as the examples need it).
RECURSIVE Convertible(_, _)
Convertible(src, dst) ==
    CASE src.class = "compound" /\ dst.class = "compound" ->
           \A name \in FieldNames(src) \cap FieldNames(dst) :
              Convertible(FieldType(src, name), FieldType(dst, name))
      [] src.class = "array" /\ dst.class = "array" ->
           src.dims = dst.dims /\ Convertible(src.base, dst.base)
      [] OTHER -> src.class \in Numbers /\ dst.class \in Numbers

\* The bytes of an element of dst that a conversion from src stores.
RECURSIVE Stored(_, _)
Stored(src, dst) ==
    CASE dst.class = "compound" ->
           UNION {LET f == dst.fields[i]
                  IN  IF f.name \notin FieldNames(src) THEN {}
                      ELSE {f.offset + b : b \in Stored(FieldType(src, f.name), f.type)}
                  : i \in DOMAIN dst.fields}
      [] dst.class = "array" ->
           {e * Size(dst.base) + b : e \in 0..(Size(dst) \div Size(dst.base) - 1),
                                     b \in Stored(src.base, dst.base)}
      [] OTHER -> 0..(Size(dst) - 1)
=============================================================================

---------------------------- MODULE BikeMessages ------------------------------
(***************************************************************************)
(* The messages of src/libevent/bike.pb.cc.  Its fourteen classes are one  *)
(* program with fourteen tables: the fields of a class with their numbers  *)
(* and kinds, which its parser and serializer go through, the members that *)
(* it keeps them in, strings first, their has-bits, and its accessors.     *)
(*                                                                         *)
(* Bytes on the wire are a sequence of items, each a tag and its value.    *)
(* A number of 32 bits has Word values and one of 64 bits Word^2; a byte   *)
(* of a varint carries two bits of it.  A text is one byte: read as a      *)
(* message it is the tag of an item whose value is missing.                *)
(***************************************************************************)
EXTENDS Integers, FiniteSets, SequencesExt

CONSTANTS Word,      \* how many values an int32 has
          MaxCalls   \* bound: calls of one behaviour

VARIABLES type, a, b, calls

vars == <<type, a, b, calls>>

Field(num, kind) == [num |-> num, kind |-> kind]
Member(num, kind) == [num |-> num, kind |-> kind]
Internal(set_has, required, tested, zeroed) ==
  [set_has |-> set_has, required |-> required, tested |-> tested, zeroed |-> zeroed]

\* An item on the wire, and a text that is one byte.
Item(num, wt, n, bytes, cut) ==
  [num |-> num, wt |-> wt, n |-> n, bytes |-> bytes, cut |-> cut]
Text == <<Item(15, "varint", 0, <<>>, TRUE)>>

\* Fields by number.
mobile_request == <<Field(1, "string")>>
mobile_response == <<Field(1, "int32"), Field(2, "int32"), Field(3, "string")>>
login_request == <<Field(1, "string"), Field(2, "int32")>>
login_response == <<Field(1, "int32"), Field(2, "string")>>
recharge_request == <<Field(1, "string"), Field(2, "int32")>>
recharge_response == <<Field(1, "int32"), Field(2, "string"), Field(3, "int32")>>
account_balance_request == <<Field(1, "string")>>
account_balance_response == <<Field(1, "int32"), Field(2, "string"), Field(3, "int32")>>
list_account_records_request == <<Field(1, "string")>>
account_record == <<Field(1, "int32"), Field(2, "int32"), Field(3, "uint64")>>
list_account_records_response ==
  <<Field(1, "int32"), Field(2, "string"), Field(3, "records")>>
list_travel_records_request == <<Field(1, "string")>>
travel_record == <<Field(1, "uint64"), Field(2, "uint32"), Field(3, "uint32")>>
list_travel_records_response ==
  <<Field(1, "int32"), Field(2, "string"), Field(3, "double"), Field(4, "double"),
    Field(5, "double"), Field(6, "records")>>

\* Members by has-bit.
mobile_request_bits == <<1>>
mobile_response_bits == <<3, 1, 2>>
login_request_bits == <<1, 2>>
login_response_bits == <<2, 1>>
recharge_request_bits == <<1, 2>>
recharge_response_bits == <<2, 1, 3>>
account_balance_request_bits == <<1>>
account_balance_response_bits == <<2, 1, 3>>
list_account_records_request_bits == <<1>>
account_record_bits == <<1, 2, 3>>
list_account_records_response_bits == <<2, 1>>
list_travel_records_request_bits == <<1>>
travel_record_bits == <<1, 2, 3>>
list_travel_records_response_bits == <<2, 3, 4, 5, 1>>

\* The parser's bits by field, those that are required, those that Clear tests
\* before it zeroes the scalars, and from which scalar to which it does so.
mobile_request_internal == Internal(<<1>>, {1}, {}, <<>>)
mobile_response_internal == Internal(<<2, 3, 1>>, {2, 3}, {2, 3}, <<1, 2>>)
login_request_internal == Internal(<<1, 2>>, {1, 2}, {}, <<2, 2>>)
login_response_internal == Internal(<<2, 1>>, {2}, {}, <<1, 1>>)
recharge_request_internal == Internal(<<1, 2>>, {1, 2}, {}, <<2, 2>>)
recharge_response_internal == Internal(<<2, 1, 3>>, {2, 3}, {2, 3}, <<1, 3>>)
account_balance_request_internal == Internal(<<1>>, {1}, {}, <<>>)
account_balance_response_internal == Internal(<<2, 1, 3>>, {2, 3}, {2, 3}, <<1, 3>>)
list_account_records_request_internal == Internal(<<1>>, {1}, {}, <<>>)
account_record_internal == Internal(<<1, 2, 3>>, {1, 2, 3}, {1, 2, 3}, <<1, 3>>)
list_account_records_response_internal == Internal(<<2, 1, 0>>, {2}, {}, <<1, 1>>)
list_travel_records_request_internal == Internal(<<1>>, {1}, {}, <<>>)
travel_record_internal == Internal(<<1, 2, 3>>, {1, 2, 3}, {1, 2, 3}, <<1, 3>>)
list_travel_records_response_internal == Internal(<<5, 1, 2, 3, 4, 0>>, {2, 3, 4, 5}, {2, 3, 4, 5}, <<3, 1>>)

\* The members in memory, with the numbers of their fields and their types.
mobile_request_members == <<Member(1, "string")>>
mobile_response_members == <<Member(3, "string"), Member(1, "int32"), Member(2, "int32")>>
login_request_members == <<Member(1, "string"), Member(2, "int32")>>
login_response_members == <<Member(2, "string"), Member(1, "int32")>>
recharge_request_members == <<Member(1, "string"), Member(2, "int32")>>
recharge_response_members == <<Member(2, "string"), Member(1, "int32"), Member(3, "int32")>>
account_balance_request_members == <<Member(1, "string")>>
account_balance_response_members ==
  <<Member(2, "string"), Member(1, "int32"), Member(3, "int32")>>
list_account_records_request_members == <<Member(1, "string")>>
account_record_members == <<Member(1, "int32"), Member(2, "int32"), Member(3, "uint64")>>
list_account_records_response_members ==
  <<Member(3, "records"), Member(2, "string"), Member(1, "int32")>>
list_travel_records_request_members == <<Member(1, "string")>>
travel_record_members == <<Member(1, "uint64"), Member(2, "uint32"), Member(3, "uint32")>>
list_travel_records_response_members ==
  <<Member(6, "records"), Member(2, "string"), Member(3, "double"), Member(4, "double"),
    Member(5, "double"), Member(1, "int32")>>

Default(kind) == IF kind \in {"string", "records"} THEN <<>> ELSE 0
Samples(kind) ==
  CASE kind = "int32" -> {-1, 5}
    [] kind = "uint32" -> {9}
    [] kind = "uint64" -> {200}
    [] kind = "double" -> {1}
    [] kind = "string" -> {Text}

(***************************************************************************)
(* What the accessors of a field say of message m, and what m is after     *)
(* they were called.  bit is the has-bit that they set, clear and look at. *)
(* set and set_allocated with a string do the same, and so do clear,       *)
(* unsafe_arena_release and set_allocated without one.                     *)
(***************************************************************************)
SetField(m, n, bit, v) == [m EXCEPT !.has = @ \cup {bit}, !.val[n] = v]
ClearField(m, n, bit, kind) ==
  [m EXCEPT !.has = @ \ {bit}, !.val[n] = Default(kind)]
NumberField(m, n, bit, kind) ==
  [has |-> bit \in m.has, clear |-> ClearField(m, n, bit, kind),
   set |-> [v \in Samples(kind) \cup {Default(kind)} |-> SetField(m, n, bit, v)]]
StringField(m, n, bit) ==
  [has |-> bit \in m.has, clear |-> ClearField(m, n, bit, "string"),
   set |-> [v \in Samples("string") \cup {<<>>} |-> SetField(m, n, bit, v)],
   mutable |-> SetField(m, n, bit, m.val[n]),
   release |-> IF bit \notin m.has THEN m ELSE ClearField(m, n, bit, "string")]
RecordsField(m, n) ==
  [size |-> Len(m.val[n]), clear |-> [m EXCEPT !.val[n] = <<>>]]

mobile_request_accessors(m) == <<StringField(m, 1, 1)>>
mobile_response_accessors(m) ==
  <<NumberField(m, 1, 2, "int32"), NumberField(m, 2, 3, "int32"), StringField(m, 3, 1)>>
login_request_accessors(m) == <<StringField(m, 1, 1), NumberField(m, 2, 2, "int32")>>
login_response_accessors(m) == <<NumberField(m, 1, 2, "int32"), StringField(m, 2, 1)>>
recharge_request_accessors(m) == <<StringField(m, 1, 1), NumberField(m, 2, 2, "int32")>>
recharge_response_accessors(m) ==
  <<NumberField(m, 1, 2, "int32"), StringField(m, 2, 1), NumberField(m, 3, 3, "int32")>>
account_balance_request_accessors(m) == <<StringField(m, 1, 1)>>
account_balance_response_accessors(m) ==
  <<NumberField(m, 1, 2, "int32"), StringField(m, 2, 1), NumberField(m, 3, 3, "int32")>>
list_account_records_request_accessors(m) == <<StringField(m, 1, 1)>>
account_record_accessors(m) ==
  <<NumberField(m, 1, 1, "int32"), NumberField(m, 2, 2, "int32"),
    NumberField(m, 3, 3, "uint64")>>
list_account_records_response_accessors(m) ==
  <<NumberField(m, 1, 2, "int32"), StringField(m, 2, 1), RecordsField(m, 3)>>
list_travel_records_request_accessors(m) == <<StringField(m, 1, 1)>>
travel_record_accessors(m) ==
  <<NumberField(m, 1, 1, "uint64"), NumberField(m, 2, 2, "uint32"),
    NumberField(m, 3, 3, "uint32")>>
list_travel_records_response_accessors(m) ==
  <<NumberField(m, 1, 5, "int32"), StringField(m, 2, 1), NumberField(m, 3, 2, "double"),
    NumberField(m, 4, 3, "double"), NumberField(m, 5, 4, "double"), RecordsField(m, 6)>>

\* What the classes differ in.  A message with records has them as messages.
Class(name, fields, bits, internal, members, records) ==
  [name |-> name, fields |-> fields, bits |-> bits, internal |-> internal,
   members |-> members, records |-> records]
AccountRecord ==
  Class("account_record", account_record, account_record_bits,
         account_record_internal, account_record_members, <<>>)
TravelRecord ==
  Class("travel_record", travel_record, travel_record_bits,
         travel_record_internal, travel_record_members, <<>>)
Types ==
  {Class("mobile_request", mobile_request, mobile_request_bits,
         mobile_request_internal, mobile_request_members, <<>>),
   Class("mobile_response", mobile_response, mobile_response_bits,
         mobile_response_internal, mobile_response_members, <<>>),
   Class("login_request", login_request, login_request_bits,
         login_request_internal, login_request_members, <<>>),
   Class("login_response", login_response, login_response_bits,
         login_response_internal, login_response_members, <<>>),
   Class("recharge_request", recharge_request, recharge_request_bits,
         recharge_request_internal, recharge_request_members, <<>>),
   Class("recharge_response", recharge_response, recharge_response_bits,
         recharge_response_internal, recharge_response_members, <<>>),
   Class("account_balance_request", account_balance_request, account_balance_request_bits,
         account_balance_request_internal, account_balance_request_members, <<>>),
   Class("account_balance_response", account_balance_response, account_balance_response_bits,
         account_balance_response_internal, account_balance_response_members, <<>>),
   Class("list_account_records_request", list_account_records_request, list_account_records_request_bits,
         list_account_records_request_internal, list_account_records_request_members, <<>>),
   AccountRecord,
   Class("list_account_records_response", list_account_records_response, list_account_records_response_bits,
         list_account_records_response_internal, list_account_records_response_members, <<AccountRecord>>),
   Class("list_travel_records_request", list_travel_records_request, list_travel_records_request_bits,
         list_travel_records_request_internal, list_travel_records_request_members, <<>>),
   TravelRecord,
   Class("list_travel_records_response", list_travel_records_response, list_travel_records_response_bits,
         list_travel_records_response_internal, list_travel_records_response_members, <<TravelRecord>>)}

\* Each class has accessors of its own.
Accessors(t, m) ==
  CASE t.name = "mobile_request" -> mobile_request_accessors(m)
    [] t.name = "mobile_response" -> mobile_response_accessors(m)
    [] t.name = "login_request" -> login_request_accessors(m)
    [] t.name = "login_response" -> login_response_accessors(m)
    [] t.name = "recharge_request" -> recharge_request_accessors(m)
    [] t.name = "recharge_response" -> recharge_response_accessors(m)
    [] t.name = "account_balance_request" -> account_balance_request_accessors(m)
    [] t.name = "account_balance_response" -> account_balance_response_accessors(m)
    [] t.name = "list_account_records_request" -> list_account_records_request_accessors(m)
    [] t.name = "account_record" -> account_record_accessors(m)
    [] t.name = "list_account_records_response" -> list_account_records_response_accessors(m)
    [] t.name = "list_travel_records_request" -> list_travel_records_request_accessors(m)
    [] t.name = "travel_record" -> travel_record_accessors(m)
    [] t.name = "list_travel_records_response" -> list_travel_records_response_accessors(m)

Nums(t) == {t.fields[i].num : i \in DOMAIN t.fields}
Kind(t, n) == t.fields[n].kind
RecordOf(t) == t.records[1]
Singular(t) == Range(t.bits)
Bit(t, n) == CHOOSE i \in DOMAIN t.bits : t.bits[i] = n
Has(t, m, n) == n \in Singular(t) /\ Bit(t, n) \in m.has
has_field(t, m, n) == Accessors(t, m)[n].has
Place(t, n) == CHOOSE i \in DOMAIN t.members : t.members[i].num = n
Type(t, n) == t.members[Place(t, n)].kind

-------------------------------------------------------------------------------
(* A message in memory: has-bits, members, and the items that were read    *)
(* and belong to no field.                                                 *)

SharedCtor(t) ==
  [has |-> {}, val |-> [n \in Nums(t) |-> Default(Type(t, n))], unknown |-> <<>>]

\* The scalars lie together and are zeroed, copied and exchanged together.
InRange(t, n) ==
  LET ends == t.internal.zeroed
  IN  ends # <<>> /\ Place(t, n) \in Place(t, ends[1]) .. Place(t, ends[2])
Zeroed(t, m) == t.internal.tested = {} \/ t.internal.tested \cap m.has # {}
Cleared(t, m, n) ==
  \/ Type(t, n) = "records"
  \/ Type(t, n) = "string" /\ Has(t, m, n)
  \/ InRange(t, n) /\ Zeroed(t, m)
Clear(t, m) ==
  [has |-> {}, unknown |-> <<>>,
   val |-> [n \in Nums(t) |-> IF Cleared(t, m, n) THEN Default(Type(t, n)) ELSE m.val[n]]]
CopyCtor(t, from) ==
  [from EXCEPT !.val = [n \in Nums(t) |->
     IF Type(t, n) = "records" \/ InRange(t, n) \/ has_field(t, from, n) THEN @[n]
     ELSE Default(Type(t, n))]]

add_records(m, n, record) == [m EXCEPT !.val[n] = Append(@, record)]

MergeFrom(t, m, from) ==
  [has |-> m.has \cup from.has,
   unknown |-> m.unknown \o from.unknown,
   val |-> [n \in Nums(t) |->
              IF Type(t, n) = "records" THEN m.val[n] \o from.val[n]
              ELSE IF Has(t, from, n) THEN from.val[n] ELSE m.val[n]]]
CopyFrom(t, m, from) == MergeFrom(t, Clear(t, m), from)

InternalSwap(t, m, other) ==
  [has |-> other.has, unknown |-> other.unknown,
   val |-> [n \in Nums(t) |->
              IF Type(t, n) \in {"string", "records"} \/ InRange(t, n)
              THEN other.val[n] ELSE m.val[n]]]

\* Messages on one arena exchange their members, others are copied.
GenericSwap(t, m, other) ==
  LET temp == MergeFrom(t, SharedCtor(t), other)
  IN  [m |-> InternalSwap(t, m, temp), other |-> CopyFrom(t, other, m)]
Swapped(t, m, other, same_arena) ==
  IF same_arena
  THEN [m |-> InternalSwap(t, m, other), other |-> InternalSwap(t, other, m)]
  ELSE GenericSwap(t, m, other)
\* operator= of a message that is not needed any more.
Moved(t, m, from, same_arena) ==
  IF same_arena THEN Swapped(t, m, from, TRUE)
  ELSE [m |-> CopyFrom(t, m, from), other |-> from]

Complete(t, m) == t.internal.required \subseteq m.has
IsInitialized(t, m) ==
  /\ Complete(t, m)
  /\ t.records # <<>> =>
       \A n \in Nums(t) : Kind(t, n) = "records" =>
         \A i \in DOMAIN m.val[n] : Complete(RecordOf(t), m.val[n][i])

-------------------------------------------------------------------------------
(* Items on the wire.                                                      *)

WireType(kind) ==
  CASE kind \in {"int32", "uint32", "uint64"} -> "varint"
    [] kind = "double" -> "64bit"
    [] kind \in {"string", "records"} -> "bytes"

\* An int32 that is negative is sent with 64 bits.
Sent(t, n, v) ==
  CASE WireType(Kind(t, n)) = "bytes" -> Item(n, "bytes", 0, v, FALSE)
    [] Kind(t, n) = "int32" -> Item(n, "varint", v % (Word * Word), <<>>, FALSE)
    [] Kind(t, n) \in {"uint32", "uint64", "double"} ->
         Item(n, WireType(Kind(t, n)), v, <<>>, FALSE)
Flat(t, m) ==
  FlattenSeq([i \in DOMAIN t.fields |->
    IF Has(t, m, i) THEN <<Sent(t, i, m.val[i])>> ELSE <<>>]) \o m.unknown
_InternalSerialize(t, m) ==
  FlattenSeq([i \in DOMAIN t.fields |->
    IF Kind(t, i) = "records"
    THEN [k \in DOMAIN m.val[i] |-> Sent(t, i, Flat(RecordOf(t), m.val[i][k]))]
    ELSE IF Has(t, m, i) THEN <<Sent(t, i, m.val[i])>> ELSE <<>>]) \o m.unknown

\* What a field gets of the number that was sent.
Stored(kind, n) ==
  CASE kind = "int32" -> IF n % Word >= Word \div 2 THEN (n % Word) - Word ELSE n % Word
    [] kind = "uint32" -> n % Word
    [] kind \in {"uint64", "double"} -> n

\* A field of another type than its number says is kept as an unknown one.
Expected(t, item) ==
  item.num \in Nums(t) /\ WireType(Kind(t, item.num)) = item.wt
Parsing(m) == [m |-> m, bits |-> {}, ptr |-> TRUE, ended |-> FALSE]
Unusual(s, item) ==
  IF item.wt = "end" THEN [s EXCEPT !.ended = TRUE]
  ELSE [s EXCEPT !.m.unknown =
                   IF item.cut /\ item.wt # "bytes" THEN @
                   ELSE Append(@, [item EXCEPT !.cut = FALSE]),
                 !.ptr = ~item.cut]
\* A string's bit is set at once, a scalar's when the parser returns.
ParseField(t, s, item) ==
  IF Kind(t, item.num) = "string"
  THEN [s EXCEPT !.m = [Accessors(t, @)[item.num].mutable EXCEPT !.val[item.num] = item.bytes],
                 !.ptr = ~item.cut]
  ELSE [s EXCEPT !.m.val[item.num] = Stored(Kind(t, item.num), item.n),
                 !.bits = @ \cup {t.internal.set_has[item.num]}, !.ptr = ~item.cut]
ParseItem(t, s, item, ParseRecord(_)) ==
  IF ~s.ptr \/ s.ended THEN s
  ELSE IF ~Expected(t, item) THEN Unusual(s, item)
  ELSE IF Kind(t, item.num) # "records" THEN ParseField(t, s, item)
  ELSE LET inner == ParseRecord(item.bytes)
       IN  [s EXCEPT !.m = add_records(@, item.num, inner.m),
                     !.ptr = ~item.cut /\ inner.ptr /\ ~inner.ended]
\* The bits are stored on the way out, after a failure too.
WithBits(s) == [s EXCEPT !.m.has = @ \cup s.bits]
ParseFlat(t, m, wire) ==
  WithBits(FoldLeft(LAMBDA s, item : ParseItem(t, s, item, LAMBDA w : Parsing(m)),
                    Parsing(m), wire))
_InternalParse(t, m, wire) ==
  LET ParseRecord(w) == ParseFlat(RecordOf(t), SharedCtor(RecordOf(t)), w)
  IN  WithBits(FoldLeft(LAMBDA s, item : ParseItem(t, s, item, ParseRecord),
                        Parsing(m), wire))
Accepted(s) == s.ptr /\ ~s.ended

-------------------------------------------------------------------------------
(* Sizes, computed from the members and from the items.                    *)

VarintSize(n) == IF n < 4 THEN 1 ELSE IF n < 16 THEN 2 ELSE IF n < 64 THEN 3 ELSE 4
Delimited(size) == VarintSize(size) + size
Total(sizes) == FoldLeft(LAMBDA x, y : x + y, 0, sizes)
SumOver(S, size(_)) == FoldLeft(LAMBDA x, n : x + size(n), 0, SetToSeq(S))

InnerItemSize(item) ==
  IF item.cut THEN 1
  ELSE 1 + (IF item.wt = "64bit" THEN 8 ELSE VarintSize(item.n))
InnerSize(wire) == Total([i \in DOMAIN wire |-> InnerItemSize(wire[i])])
ItemSize(item) ==
  IF item.wt = "bytes" THEN 1 + Delimited(InnerSize(item.bytes)) ELSE InnerItemSize(item)
WireSize(wire) == Total([i \in DOMAIN wire |-> ItemSize(wire[i])])

MemberSize(t, m, n) ==
  CASE Kind(t, n) = "string" -> 1 + Delimited(InnerSize(m.val[n]))
    [] Kind(t, n) = "double" -> 1 + 8
    [] Kind(t, n) = "int32" -> 1 + (IF m.val[n] < 0 THEN 4 ELSE VarintSize(m.val[n]))
    [] Kind(t, n) \in {"uint32", "uint64"} -> 1 + VarintSize(m.val[n])
FlatByteSize(t, m) ==
  LET Size(n) == MemberSize(t, m, n)
  IN  SumOver({n \in Singular(t) : Has(t, m, n)}, Size) + WireSize(m.unknown)
RecordsSize(t, records) ==
  Len(records)
    + Total([i \in DOMAIN records |-> Delimited(FlatByteSize(RecordOf(t), records[i]))])
ByteSizeLong(t, m) ==
  LET Size(n) == RecordsSize(t, m.val[n])
  IN  FlatByteSize(t, m) + SumOver(Nums(t) \ Singular(t), Size)

-------------------------------------------------------------------------------
(* Two messages of one type, and what a peer may send for them.            *)

Sample(t) ==
  [SharedCtor(t) EXCEPT
     !.has = DOMAIN t.bits,
     !.val = [n \in Nums(t) |->
                IF Type(t, n) = "records" THEN @[n]
                ELSE CHOOSE v \in Samples(Type(t, n)) : TRUE]]
Partial(t) ==
  LET f == Accessors(t, SharedCtor(t))[1] IN f.set[CHOOSE v \in Samples(Type(t, 1)) : TRUE]
Full(t) ==
  IF t.records = <<>> THEN Sample(t)
  ELSE [Sample(t) EXCEPT !.val = [n \in Nums(t) |->
          IF Kind(t, n) = "records" THEN <<Sample(RecordOf(t)), Partial(RecordOf(t))>> ELSE @[n]]]

\* A wire that ends after item k, or within it.
Upto(wire, k) == SubSeq(wire, 1, k)
Within(wire, k, n) ==
  Upto(wire, k - 1) \o <<[wire[k] EXCEPT !.cut = TRUE, !.n = n, !.bytes = <<>>]>>
Wires(t, m) ==
  LET wire == _InternalSerialize(t, m)
  IN  {wire, wire \o <<Item(1, "varint", Word + 5, <<>>, FALSE)>>,
       <<Item(2, "end", 0, <<>>, FALSE)>> \o wire}
      \cup {Within(wire, k, n) : k \in DOMAIN wire, n \in {0, 1}}
      \cup {_InternalSerialize(u, Full(u)) : u \in Types}

Init ==
  /\ type \in Types
  /\ a \in {SharedCtor(type), Full(type)}
  /\ b \in {SharedCtor(type), Full(type)}
  /\ calls = 0

Called ==
  /\ calls < MaxCalls
  /\ calls' = calls + 1
  /\ UNCHANGED type
OnField ==
  \E n \in Singular(type) :
    LET f == Accessors(type, a)[n]
    IN  \/ a' \in Range(f.set)
        \/ a' = f.clear
        \/ Type(type, n) = "string" /\ a' \in {f.mutable, f.release}
OnRecords ==
  \E n \in Nums(type) \ Singular(type) :
    \/ a' = add_records(a, n, Sample(RecordOf(type)))
    \/ a' = add_records(a, n, Partial(RecordOf(type)))
    \/ \E i \in DOMAIN a.val[n] : a' = [a EXCEPT !.val[n][i] = Partial(RecordOf(type))]
    \/ a' = Accessors(type, a)[n].clear
Use ==
  /\ Called
  /\ OnField \/ OnRecords \/ a' = Clear(type, a) \/ a' = MergeFrom(type, a, b)
       \/ a' = CopyFrom(type, a, b) \/ a' = CopyCtor(type, b)
  /\ UNCHANGED b
Swap ==
  /\ Called
  /\ \E same_arena \in BOOLEAN :
       \E after \in {Swapped(type, a, b, same_arena), Moved(type, a, b, same_arena)} :
         a' = after.m /\ b' = after.other
\* ParseFromString clears the message, MergeFromString does not.
Receive ==
  /\ Called
  /\ \E wire \in Wires(type, b), old \in {a, Clear(type, a)} :
       a' = _InternalParse(type, old, wire).m
  /\ UNCHANGED b

Next == Use \/ Swap \/ Receive

Spec == Init /\ [][Next]_vars

-------------------------------------------------------------------------------
(* A member whose bit is not set holds its default: Clear and the copy     *)
(* constructor, which look at fewer bits than there are, rely on it.       *)
AbsentIsDefault ==
  \A n \in Singular(type) : ~has_field(type, a, n) => a.val[n] = Default(Kind(type, n))

(* What is serialized and parsed again is the same message, with its       *)
(* unknown fields, and as long as ByteSizeLong says.                       *)
RoundTrip ==
  LET wire == _InternalSerialize(type, a)
      again == _InternalParse(type, SharedCtor(type), wire)
  IN  Accepted(again) /\ again.m = a /\ ByteSizeLong(type, a) = WireSize(wire)

(* Parsing one message after another merges them.                          *)
ConcatenationMerges ==
  LET both == _InternalSerialize(type, a) \o _InternalSerialize(type, b)
  IN  _InternalParse(type, SharedCtor(type), both).m = MergeFrom(type, a, b)

(* A wire that ends within an item is refused; one that ends after an item *)
(* is taken only if nothing that is required is missing or different.      *)
CutIsNoticed ==
  LET wire == _InternalSerialize(type, a)
  IN  \A k \in DOMAIN wire :
        LET cut == _InternalParse(type, SharedCtor(type), Within(wire, k, 1))
            short == _InternalParse(type, SharedCtor(type), Upto(wire, k)).m
        IN  /\ ~Accepted(cut)
            /\ IsInitialized(type, short) =>
                 \A i \in type.internal.required :
                   short.val[type.bits[i]] = a.val[type.bits[i]]

(* A program with other fields under some numbers hands on a message it    *)
(* does not know without loss, unless it takes a field for another kind.   *)
SameOrUnknown(u) ==
  \A n \in Nums(type) \cap Nums(u) :
    \/ Kind(type, n) = Kind(u, n)
    \/ WireType(Kind(type, n)) # WireType(Kind(u, n))
PassedOn ==
  a.unknown = <<>> =>
    \A u \in {v \in Types : SameOrUnknown(v)} :
      LET there == _InternalParse(u, SharedCtor(u), _InternalSerialize(type, a))
      IN  /\ Accepted(there)
          /\ _InternalParse(type, SharedCtor(type), _InternalSerialize(u, there.m)).m = a

(* A copy is the same message, and messages are exchanged whole whether or *)
(* not they share an arena.                                                *)
Exchanged ==
  /\ CopyCtor(type, a) = a
  /\ \A same_arena \in BOOLEAN :
       /\ Swapped(type, a, b, same_arena) = [m |-> b, other |-> a]
       /\ Moved(type, a, b, same_arena).m = b

MessagesSound ==
  /\ Exchanged
  /\ AbsentIsDefault /\ RoundTrip /\ ConcatenationMerges /\ CutIsNoticed /\ PassedOn
===============================================================================

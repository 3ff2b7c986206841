------------------------------ MODULE WireSpec ------------------------------
(***************************************************************************)
(* Wire specifications and the three ways this code reads a field of a     *)
(* header: read_field, compiled from the spec (wire_spec.hpp);             *)
(* read_field_runtime, from the FieldRef the rule engine's catalog holds   *)
(* (dpar.hpp); and the column getters of a be<>/bits<> overlay struct      *)
(* (soatins).                                                              *)
(*                                                                         *)
(* A word is the set of its one bits, bit 0 the least significant: words   *)
(* of 64 bits are beyond TLC's integers.  A number is its two's complement *)
(* in a word.  A PDU is a sequence of bytes.                               *)
(***************************************************************************)
EXTENDS Integers, Sequences, SequencesExt, FiniteSetsExt

Byte == SUBSET (0..7)

(* v << 8 | byte in a word of width bits, v >> shift and v & mask. *)
ShiftIn(v, byte, width) == ({b + 8 : b \in v} \cup byte) \cap (0..(width - 1))
ShiftMask(v, shift, width) == {b - shift : b \in v} \cap (0..(width - 1))

(* static_cast to an integer type of width bits, as the number it yields: a *)
(* signed one is continued to the left with copies of its sign.             *)
Cast(v, width, signed) ==
  (v \cap (0..(width - 1))) \cup (IF signed /\ (width - 1) \in v THEN width..63 ELSE {})

(* Memory behind the PDU holds something. *)
ByteAt(pdu, i) == IF i < Len(pdu) THEN pdu[i + 1] ELSE {}

(* The bytes of an n-byte unit from the most significant down. *)
Significance(n, order) == [k \in 1..n |-> IF order = "big" THEN k - 1 ELSE n - k]

-----------------------------------------------------------------------------
(* Fields and specs.  A tag is the list of the names it was put together    *)
(* from.                                                                    *)

named_field(tag, offset, size, order, signed) ==
  [kind |-> "scalar", tag |-> <<tag>>, offset |-> offset, size |-> size,
   bit_offset |-> 0, width |-> 8 * size, order |-> order, signed |-> signed]

named_bit_field(tag, offset, size, bit_offset, width, order) ==
  [kind |-> "bits", tag |-> <<tag>>, offset |-> offset, size |-> size,
   bit_offset |-> bit_offset, width |-> width, order |-> order, signed |-> FALSE]

named_bytes_field(tag, offset, n) ==
  [kind |-> "bytes", tag |-> <<tag>>, offset |-> offset, size |-> n,
   bit_offset |-> 0, width |-> 8 * n, order |-> "big", signed |-> FALSE]

(* A sub-spec spliced in: its fields shifted, its tags prefixed. *)
embed(prefix, offset, spec) ==
  [i \in 1..Len(spec) |-> [spec[i] EXCEPT !.tag = prefix \o @, !.offset = offset + @]]

FieldsOf(spec) == {spec[i] : i \in 1..Len(spec)}

EndOffset(f) == f.offset + f.size

spec_size(spec) == Max({EndOffset(f) : f \in FieldsOf(spec)})

(* The type of a field's column. *)
uint_for_width(width) == Min({w \in {8, 16, 32, 64} : w >= width})

-----------------------------------------------------------------------------
(* wire_spec.hpp *)

read_scalar_at(pdu, off, n, order, signed) ==
  Cast(FoldLeft(LAMBDA v, i : ShiftIn(v, ByteAt(pdu, off + i), 64), {}, Significance(n, order)),
       8 * n, signed)

(* Mutant: bit offsets count from the low bit in every unit. *)
BitShift_LsbFirst(f) == f.bit_offset

(* Bit offsets count from the high bit of a big-endian unit, from the low   *)
(* bit of a little-endian one.                                              *)
BitShift(f) ==
  IF f.order = "big" THEN 8 * f.size - f.width - f.bit_offset ELSE f.bit_offset

read_field(pdu, f) ==
  CASE f.kind = "bytes" -> [i \in 1..f.size |-> ByteAt(pdu, f.offset + i - 1)]
    [] f.kind = "scalar" -> read_scalar_at(pdu, f.offset, f.size, f.order, f.signed)
    [] f.kind = "bits" ->
         ShiftMask(read_scalar_at(pdu, f.offset, f.size, f.order, FALSE), BitShift(f), f.width)

-----------------------------------------------------------------------------
(* dpar.hpp: the catalog and its reader *)

(* Mutant: the width of a bit field's unit is taken for its own. *)
field_to_ref_UnitWidth(f) ==
  [offset |-> f.offset, byte_width |-> f.size, big_endian |-> f.order = "big",
   is_bitfield |-> f.kind = "bits", bit_offset |-> f.bit_offset, bit_width |-> 8 * f.size]

field_to_ref(f) ==
  [offset |-> f.offset, byte_width |-> f.size, big_endian |-> f.order = "big",
   is_bitfield |-> f.kind = "bits", bit_offset |-> f.bit_offset, bit_width |-> f.width]

(* Every field of every node in turn; byte arrays are no predicate targets. *)
add_node_catalog(node, spec) ==
  LET targets == SelectSeq(spec, LAMBDA f : f.kind # "bytes")
  IN  [i \in 1..Len(targets) |->
         [node |-> node, field |-> targets[i].tag, ref |-> field_to_ref(targets[i])]]

build_field_catalog(names, specs) ==
  FoldLeft(LAMBDA cat, node : cat \o add_node_catalog(node, specs[node]), <<>>, names)

(* The first entry of that name. *)
find_field(cat, node, tag) ==
  cat[Min({i \in 1..Len(cat) : cat[i].node = node /\ cat[i].field = tag})]

(* The result is unsigned whatever the type of the field. *)
read_field_runtime(pdu, ref) ==
  LET order == IF ref.big_endian THEN "big" ELSE "little"
      v == FoldLeft(LAMBDA w, i : ShiftIn(w, ByteAt(pdu, ref.offset + i), 64), {},
                    Significance(ref.byte_width, order))
      shift == IF ref.big_endian THEN ref.byte_width * 8 - ref.bit_width - ref.bit_offset
               ELSE ref.bit_offset
  IN  IF ref.is_bitfield THEN ShiftMask(v, shift, ref.bit_width) ELSE v

-----------------------------------------------------------------------------
(* soatins: a struct of packed members laid over the bytes.  A bits member  *)
(* is a word cut into named fields from its high bit down; a member that is *)
(* not described has no column.                                             *)

field(tag, width) == [tag |-> tag, width |-> width]
Member(kind, size, signed, fields) ==
  [kind |-> kind, size |-> size, signed |-> signed, fields |-> fields]

member(tag, size) == Member("word", size, FALSE, <<field(tag, 8 * size)>>)
signed_member(tag, size) == Member("word", size, TRUE, <<field(tag, 8 * size)>>)
array(tag, n) == Member("array", n, FALSE, <<field(tag, 8 * n)>>)
undescribed(size) == Member("word", size, FALSE, <<>>)
bits(size, fields) == Member("bits", size, FALSE, fields)

(* Where member k of the struct lies. *)
MemberOffset(struct, k) == FoldLeft(LAMBDA a, x : a + x.size, 0, SubSeq(struct, 1, k - 1))

(* be<T>::host; a single byte is its own host value. *)
host(pdu, off, n) ==
  FoldLeft(LAMBDA v, i : ShiftIn(v, ByteAt(pdu, off + i), 8 * n), {}, Significance(n, "big"))

shift_at(x, j) ==
  8 * x.size - FoldLeft(LAMBDA a, f : a + f.width, 0, SubSeq(x.fields, 1, j))

(* plain_col::get and bits_col::get *)
ColumnValue(pdu, struct, k, j) ==
  LET x == struct[k]
      off == MemberOffset(struct, k)
  IN  IF x.kind = "array" THEN [i \in 1..x.size |-> ByteAt(pdu, off + i - 1)]
      ELSE IF x.kind = "word" THEN Cast(host(pdu, off, x.size), 8 * x.size, x.signed)
      ELSE ShiftMask(host(pdu, off, x.size), shift_at(x, j), x.fields[j].width)

OverlayColumns(pdu, struct) ==
  UNION {{[tag |-> <<struct[k].fields[j].tag>>, value |-> ColumnValue(pdu, struct, k, j)]
            : j \in 1..Len(struct[k].fields)} : k \in 1..Len(struct)}
=============================================================================

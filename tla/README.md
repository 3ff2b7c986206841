# Verification project for nanotins and soatins

nanotins reads packet captures (pcap and pcapng), walks the packets' headers and
writes what it finds to column tables; soatins is the column library underneath.
Both are header-only C++. This directory models them in TLA+, checks the models
with TLC and proves some of what was checked with TLAPS.

Source paths below are relative to the repository. `N/` stands for
`nanotins/include/nanotins/`, `S/` for `soatins/include/soatins/`.

## 1. Inventory

| Part | Source | State | Operations |
|---|---|---|---|
| capture scanner (phase A) | `N/pcap_blocks.hpp` | `ScanState`: format, byte order, whether the format is known; the list of `BlockRef`s | `scan_window`, `scan_blocks` |
| block parser (phase B) | `N/pcap_blocks.hpp` | the option cursor, the view being filled, the pre-sized columns | `parse_shb`, `parse_idb`, `parse_epb`, `next_option`, `parse_epbs_bulk` |
| packet graph and walk | `N/spec_dag.hpp` | offset, node and step counter of one walk | `walk<Graph>`, `dispatch`, one `advance` and `next` per node |
| layered packet decoder | `N/protocol_decode.hpp` | offset and the layer reached | `walk_packet`, `decode_l2`, `decode_l3`, `decode_l4`, `count_packet`, `scatter_packet` |
| serial decoder | `N/dag_decode.hpp` | one table per graph node | `dag_decode_packet` |
| bulk decoders | `N/dag_bulk.hpp`, `N/protocol_decode_bulk.hpp`, `N/*_children_bulk.hpp`, `N/someip_sd_bulk.hpp` | counts and write bases per packet, the tables, a cursor per task | `dag_decode_bulk`, `decode_window`, `ipv4_children_bulk`, `ipv6_children_bulk`, `someip_sd_bulk` |
| executor | `N/bulk.hpp` | the index ranges of the running tasks | `bulk_for_each`, `serial_for_each` |
| TLV cursors | `N/tlv.hpp`, `N/someip_tlv.hpp` | the position `p` in a region | `next`, `tlv_count`, `someip_tlv_count`, `repeat_at` |
| header children | `N/ipv4_children.hpp`, `N/ipv6_children.hpp`, `N/someip_sd.hpp` | position in the header, rows per child table | `for_each_*`, count, scatter and serial emission |
| rule engine (DPAR) | `N/dpar.hpp`, `N/dpar_palette.hpp` | compiled rules, per-rule and total counters, output tables | `load_rules`, `run` |
| column sink | `S/sink.hpp`, `S/reflect.hpp` | a chunk of N slots and its fill counter | `push`, `finish`, `flush_chunk` |
| wire specs and field tables | `N/wire_spec.hpp`, `N/wire_spec_soa.hpp`, `N/protocol_specs*.hpp` | the columns of a header's table and its fill counter | `read_field`, `spec_size`, `embed`, `append`, `clear` |
| field catalog | `N/dpar.hpp` | the catalog of the rule engine | `build_l2l3_catalog`, `find_field`, `read_field_runtime` |
| overlay structs, byte order, bit fields, reflection | `N/protocols.hpp`, `N/gptp.hpp`, `S/endian.hpp`, `S/bits.hpp`, `S/reflect.hpp` | none | `host`, `bits::get`, the column getters |
| Arrow export | `S/arrow_glue.hpp`, `N/dpar_arrow.hpp`, `N/wire_spec_soa.hpp` | a schema and an array owned while they are built | `to_arrow` (two), `to_arrow_spec`, `table_to_arrow` |
| tools | `examples/` | the interface table of a section, the packet counter | the `main` programs of `pcapng2json`, `dpar`, `lldp`; `lldp_cursor`, `LldpKind::emit` |

How they interact. A driver hands bytes to phase A, which lists block references
and says how many bytes it consumed; the driver slides its window. Phase B turns
references into views and columns. Each packet's bytes then go through a walk,
either one packet at a time into the serial tables, or a batch at a time through
the bulk decoders, which run the same walk twice (count, then scatter) on a pool
of threads that share the output columns without locks. The children of a header
(options, segments, SD entries) are found by one traversal per kind, used in the
same two passes. The rule engine runs the graph walk, tests predicates on the
headers seen and starts a TLV parser on a region of the packet. Finished rows may
be pushed through a column sink, whose callback is the user's, or exported as an
Arrow record batch. The tools of `examples/` put the parts together: a capture read
whole, scanned, parsed, and each packet handed to a walk or to the engine.

What is hard:

* **Concurrency**: tasks of the scatter pass write the same columns; only the
  prefix sum keeps them apart.
* **Resumption**: a block cut by the end of a window is read again in the next
  call, with the byte order of its section carried over.
* **Lengths from the wire**: every length, count and offset comes from the
  packet; truncated captures and over-long claims are ordinary input.
* **Word arithmetic**: 32-bit sums in phase B and in the scan; 8-bit indices in
  the children.
* **One traversal, many uses**: count, scatter and serial passes, three
  hand-written packet walks, and three readers of the same bit fields must agree.
* **Partial failure**: a flush that fails, a rules text that does not compile, a
  block that does not parse in the middle of a bulk call, a library call that fails
  with half a record batch built.

What makes each part correct is stated with its module in section 3; the hazards
at their lines are in `PROJECT.json`.

## 2. Plan

Done, in this order: `SerialDecode` and `BulkDecode` (the concurrent core and what
it promises), `ScanWindow`, `ColumnSink`, `TlvCursor`, `Dpar`, `PacketGraph` and
`PacketWalk`, `BlockParse`, `ChildRecords`; then the child decoders in `BulkDecode`,
LLDP in `TlvCursor`, the sign and saturation of operands in `Dpar`, `PacketStream`
and `CaptureTool` (the tools as a composition over `ScanWindow`), `WireSpec`,
`ProtocolSpecs` and `SpecTable`, `ArrowExport`.

Then the proofs: type correctness and the safety of `TlvCursor`, `PacketWalk`,
`BlockParse` and `ColumnSink`; the slots of `BulkDecode`; the scan; the Arrow export;
the rule engine; that the three packet walks agree; that the three child traversals
agree; and that `BulkDecode` implements `SerialDecode`.

What is left stays with TLC: `SpecTable`, `CaptureTool` and liveness (section 6 says
why).

## 3. Modules

Every module's `map` entries give the lines each definition stands for.

### SerialDecode, BulkDecode

`SerialDecode` is the promise: a call appends, for each packet in order and each
row of its walk in order, one row to that row's table (two recursive functions, over
the packets and over the rows of one). `BulkDecode` is the code: `BeginWindow`/`BeginBulk` start a call, `CountPacket` and `CountJoin` are
the count pass of `decode_window`, `ScanStep` and `ScanEnd` the exclusive sum and
the resize, `StartPacket`, `EmitPdu`, `EndPacket` and `ScatterJoin` the scatter
pass. `mode` says which decoder fills the tables: `decode_window`,
`dag_decode_bulk`, or one of the three child decoders, which count in the loop of
the scan as `dag_decode_bulk` does and emit the records inside the headers. A task
step is one packet counted or one row written, so tasks interleave
where they touch shared memory. `bulk_for_each` appears as the ranges `TaskStart`,
`TaskEnd`; the thread pool behind it is external. A walk is given as a sequence of
nodes, and a row is the packet and the position in its walk. Counters are unsigned
modulo `Mod`. `TypeOK` has a part of its own for the tasks (`TaskRange`): while a pass
runs, a task's index is in the range `bulk_for_each` gave it. A write to a slot outside the column would be undefined behaviour;
`ScatterExact` says it never happens, that every slot written was fresh, that between
calls no slot is blank and each table holds, in packet order, exactly the rows of the
call behind those of earlier calls, and that the trailer of every packet is set, as long
as the sums stay below `Mod`.

### ScanWindow

One step per block of `scan_window`'s loop, one action per outcome of the format
detection. The driver is external: its comment in the code prescribes that the
window starts at the bytes not consumed, that more bytes are appended, and that
the last call says `at_eof`. `scan_blocks` is the case of a single such call. A
header read in the wrong byte order comes back byte-swapped. A capture is what its
writer laid out (`WellFormed`): blocks that follow one another without overlap, the
records of a pcap behind its header, a byte order that only a section header changes.
Lengths that are too small, tails that are cut and files of no known format are
captures too. Blocks are at most `MaxBlock` (2^31 - 1) bytes, which leaves out the pcap
record of 4 GB whose length a `BlockRef` cannot hold (`N/pcap_blocks.hpp:255`).

### BlockParse

One action per parser and outcome: refuse, fill the view, then one `NextOption`
per option, then the row of the bulk loop. Words are numbers below `W` and wrap.
The caplen of an EPB is not compared with its block's length by the code: the
payload range a view carries may leave the block (recorded as a hazard), and for
the four caplen values from `W - 35` to `W - 32` the sum `28 + pad4(caplen) + 4`
wraps to 0 and passes the check. `ParseInside` leaves that band out by name
(`OptOffWraps`).

### PacketGraph, PacketWalk

`PacketGraph` is `L2L3Graph`: sizes, edges, `advance` and `next` of all seventeen
nodes. `PacketWalk` runs three walkers over the same packet, one after the other:
the graph walk, `walk_packet`, and the staged `decode_l2/l3/l4` under a driver that
passes on what each stage consumed (that driver is external). A header's fields are
chosen when first read and remembered, so all three see the same bytes. The
variable `off` of a walker doubles as the `consumed` it returns. An authentication
header with payload length 0 advances by less than its fixed fields take;
`NoOverlap`, a part of `PdusApart`, names that exception. `DagAgrees`, a part of
`WalksAgree`, says that the headers `walk_packet` reports are the first visits of the
graph walk, that the visits behind them are of nodes it has no column for, and that the
payload begins where the graph walk leaves the last of them.

### TlvCursor

One action per path through `next()` of `tlv_cursor` in its three conventions, of
`someip_tlv_cursor`, and of the `lldp_cursor` of `examples/lldp` with the loop body of
`LldpKind::emit`, over real bytes; `reads` records the offsets dereferenced. For LLDP
these include the copy of the value's head and the typed columns, of which the
management address carries a length of its own inside the value. The caller may call
again after `false`.

### ChildRecords

The traversals `for_each_ipv4_opt`, `for_each_opt`, `for_each_srh_child` and
`for_each_sd_child` over one header, visited by the count pass, the scatter pass
and a decoder that sees the packet uncut. Records are revealed when first read and
remembered. A row is its table, place, length and index, and for SD endpoint
options the last byte read; the other columns are data and left out. A child has to lie
in the bytes its visit may see, in its header, and in the array of the header it
belongs to (`Claimed`). The endpoint columns of an SD option are the exception:
`sd_decode_endpoint` reads them from a fixed place, so those of an option too short to
hold them come from behind the option. For these `ChildrenInside` asks only that they
are in the packet, and `CutIsPrefix` leaves them out where the cut is in front of
them.

### Dpar

`load_rules` is one action, with every error a line can have; `run` takes one step
per rule. A rules text is given by its tokens, a packet by the headers of its walk
and the records a parser would find. `AllMatch` says which rows a packet gives without
the operators of the loop: a rule's parser starts at the innermost PDU of its anchor
(`Innermost`), and every rule whose predicates the packet meets has its rows, in rule
order. Where the region of such a rule is not in the packet it asks for no rows, and
leaves open whether the packet counts as matched. Operands are words of `WordBits` bits and
take a sign and saturate as `strtoull` does; `text` is the text of the rules in
force. `RulesMeanText` compares each rule in force with the number written in its
text. It leaves out, by name (`Distinct`), exactly the operands that the loader takes
for another number without an error: numbers outside the word for a field as wide as
the word, and negative ones whose two's complement fits a narrower field. On these the
code and its comment differ (section 4). The `resize` of the per-rule
counters at the head of `dpar_match` never changes anything after `load_rules`, and
is left out.

### ColumnSink

`Push`, `Finish`, and the flush as a callback that reads the chunk row by row and
then succeeds or fails. `push` has no guard: it stores at the fill counter and looks at
the capacity afterwards, so a push to a chunk whose flush failed would store past the
arrays. The producer is external and sees return values only: after a `push` that
returned false it pushes no more until a `finish` has returned true (`MayPush`,
`refused`). `SinkTypeOK` says that this is enough, `size` never passes `N`; it fails
when a failed flush is not reported (the mutant `FlushFail_Silent`). A producer who
ignores the result of `push` is not modelled.

### PacketStream, CaptureTool

`PacketStream` is what a user of a tool may rely on: if the capture is readable, all
its packets are reported, numbered in order, each with the link type of its own
interface, and the exit code is 0; otherwise nothing is reported and the tool fails.
`CaptureTool` is the code of the three tools: opening the files, loading rules, the
single `scan_blocks` call (the actions of `ScanWindow`, one block a step), and the
loop over the references with the interface table of `pcapng2json` (`NextSection`,
`NextInterface`) and the numbering (`SkipPacket`, `HandlePacket`). The refinement
reads the packets off the file alone: which blocks there are, which section each is
in, and how many interfaces the section has described before it. An interface block
phase B refuses is not counted there, as in the code. What the tools print
for a packet is a function of the bytes and the link type handed on, and a line is
those.

### WireSpec, ProtocolSpecs, SpecTable

`WireSpec` has the three readers of a header field: `read_field` (compiled from a
spec), `read_field_runtime` (from the rule engine's catalog) and the column getters
of an overlay struct. A word is the set of its one bits, since TLC's integers end at
32 bits. `ProtocolSpecs` has every field of the specs and of the overlay structs, and
`SpecTable` the table `spec_soa` a header's rows go to. `ColumnsExact` compares each
column with the bits a header's diagram gives the field (`WireValue`, stated bit by
bit), `ReadersAgree` the readers with each other. That the sizes `PacketGraph` works
with are those of these specs is an assumption TLC evaluates (`SizesAgree`). Two fields
of the gPTP headers are signed (`log_message_interval`, `current_utc_offset`): their
columns and getters extend the sign (`Cast`) and `ColumnsExact` expects it, while
`read_field_runtime` returns an unsigned word; for these `ReadersAgree` asks of the rule
engine only the bits of the field.

### ArrowExport

One call of `table_to_arrow`, of `to_arrow` for a fixed `soa`, or of `to_arrow_spec`,
each a sequence of library calls that may fail. `own` counts what an object holds: an
initialisation adds one and a release takes one off, so that building over something
held, or releasing twice, leaves `0..1` (`TypeOK`).
Two details differ between the three and are kept: `to_arrow` leaves the columns
behind a failed one alone while the fold of `to_arrow_spec` sets their lengths, and
only the row-by-row path packs booleans into bits. A failure of the first schema call
releases nothing; what the schema holds then is the library's doing, and the
property leaves it out.

## 4. Runs

Deadlock is checked except where the modelled call or caller may simply stop.

| Run | What it shows | Bounds, and why they are enough |
|---|---|---|
| `bulk_decode` | In every mode no two tasks write one slot, every slot written was fresh, between calls the tables hold the rows of the call and no blanks, and trailers of all packets are set (`ScatterExact`); rows of earlier calls stay; between calls the tables equal the serial decoder's (refinement); every call returns. | Four packets over several calls, up to three a call, two tasks: an uneven split, an empty batch, a packet without rows, a packet with two rows in one table, one past the window. |
| `scan_window` | References tile the capture and name its blocks in their byte order (`RefsExact`); the verdict depends on the capture, not on the cuts; the scan ends. | Eleven captures with real sizes, delivered in every split: two sections of opposite byte order, a bad length, tails cut in a header and in a body, an empty last record, files too short. |
| `column_sink` | No push stores past the chunk, as long as the producer stops at a push that failed; every row drained once, in order; everything is drained in the end. | Seven rows, chunks of three, two failures: two full chunks and a partial one, failures in any. |
| `block_parse` | Phase B reads stay in the block and options end at its trailer (`ParseInside`); record payloads are in the file, flags are the block's own, the bulk loop leaves a prefix (`RowsExact`); every call returns. | `W` = 96: every length at and around each minimum, every way the option offset can wrap, two references in bulk. |
| `tlv_cursor` | No read past the region or past the record's own bytes, and records tile the region (`RecordsSafe`); exhausted stays exhausted; the loop ends. | All regions of up to six bytes over alphabets with the pad types, lengths below, at and above what fits, six wire types; LLDP frames of up to nine bytes, long enough for the interface number of a management address. |
| `packet_walk` | Headers are in the capture and do not overlap (`PdusApart`); the three walks agree where they claim to (`WalksAgree`); all end. | Seventeen sizes at and next to header ends; every field value the dispatch tells apart; five steps, enough for the step bound to cut tags and extension headers. |
| `child_records` | Children lie in the capture, in the header and in their array of it (endpoint columns only in the capture), are disjoint and in order, and a cut capture yields a prefix of the whole (`ChildrenExact`); the scatter pass fills exactly what was counted; every pass ends. | Fourteen cuts at every boundary of the regions; headers claiming too little, enough and too much; records that are malformed, that fit and that do not. |
| `dpar` | Counters agree with the tables across reloads, the total and each rule's own; rows lie in their packet; the rows of a packet are those of every rule that matches, in rule order and parser order; a rule in force compares with the number of its text, for the operands the loader does not change. | Twelve texts, of which some do not compile; five packets, three loads and three runs in any order; words of four bits, so that operands wider than the word, negative ones, and ones that would wrap to a valid port all occur. |
| `capture_tool` | The tools implement `PacketStream`. | Every pcapng of a section header and three more blocks out of eight kinds, and of four more out of four: two sections of either byte order, interfaces before, between and after, blocks phase B refuses; pcaps of both orders, cut, bare and unknown files. A table that is not reset needs two sections, an interface in the first and a packet in the second: four blocks. |
| `spec_table` | Every column of every header holds its own bits, after a clear too, signed ones with their sign; the overlay structs read the same values and the rule engine the same bits. | A reader only selects bits, so PDUs that give every bit position a signature of its own (ten patterns and their complements) tell any two readers apart; tables of two rows, so that one is stale after a clear. |
| `arrow_export` | The caller gets the whole batch, or an error and nothing to release. | Up to three rows of a scalar and a boolean column; every library call may fail at every row and column; tables empty, partly filled and full. |

### What the code does otherwise than it says

The run `dpar_failed_load` checks one sentence of the repository and finds it
violated: `N/dpar_palette.hpp:166` says that after a failed load the engine keeps zero
rules; the code leaves those of an earlier load in force.

Other sentences that the code does not keep to the letter were met while modelling.
They have no run. The property that comes near each is stated so that it neither
affirms the sentence nor passes for it, and its comment says so:

* `N/dpar.hpp:199` says `matched` counts the packets whose predicates all passed, and
  `:519` that each rule whose predicates pass fires; `dpar_match` (`:562`) leaves out
  a rule whose region does not resolve. `AllMatch` says nothing of the count there.
* `N/dpar.hpp:289` says an operand must fit the field's width; `parse_u64` (`:253`)
  saturates and takes a sign, so that some operands that do not fit compile to another
  number. `RulesMeanText` leaves out exactly those.
* `N/dpar.hpp:51` says `read_field_runtime` mirrors `read_field` exactly; for the two
  signed columns it returns 255 where the column holds -1. `ReadersAgree` compares
  their bits.
* `N/spec_dag.hpp:7` says the graph's traversal is identical to `walk_packet`'s; the
  graph goes through IPv6 extension headers and `walk_packet` does not. `WalksAgree`
  compares them on the packets without.
* `N/someip_sd.hpp:138` says reads are clamped to the packet and to the SD region's own
  lengths; an endpoint's address and port are clamped to the packet only.
  `ChildrenInside` asks the second half of the records, not of the endpoints.
* `S/arrow_glue.hpp:172` says booleans are excluded from fixed columns; nothing
  enforces it, and copied in one piece they would be bytes where Arrow reads bits.
  `BatchOfRows` leaves boolean columns of the two bulk exports out.
* `N/wire_spec.hpp:82` says bit offsets count from the most significant bit; in a
  little-endian unit `read_field` (`:214`) counts them from the least significant one.
  No spec of the repository has such a field, and `ColumnsExact` covers none:
  `LittleSpec` has whole little-endian fields only.
* `examples/pcapng2json/pcapng2json.hpp:88` says the table holds the link type of each
  interface; an interface block phase B refuses is left out of it, and the later
  interfaces of the section move down by one. `ImplementsStream` takes that over.

Limits of word sizes without a run of their own: a column that reaches 2^32 rows makes
the scan's sum wrap, and the resize then drops rows (`N/dag_bulk.hpp:161`; `RowsKept`
fails when `Mod` is set to 4). An operand too wide for 64 bits is saturated and
accepted for a 64-bit field, and a negative one is taken modulo 2^64
(`N/dpar.hpp:253`). The index columns of SD entries and options hold the order modulo
256 (`N/someip_sd.hpp:192`). The caplen of an enhanced packet block is not compared
with the block's length (`N/pcap_blocks.hpp:387`), and the tools hand it on as it is.

## 5. Fairness

Liveness rests on weak fairness of the steps of a running call: the code has no
locks, waits or blocking reads, so the thread that runs a loop takes its next step.
`BulkDecode` adds weak fairness per task, which is what a thread pool gives that
`sync_wait` joins; nothing obliges a caller to call again. `CaptureTool` is one thread
that runs until it exits, which is all the liveness of `PacketStream` needs. `ScanWindow` needs
strong fairness of the driver's delivery and of its final call with `at_eof`: the
driver may make any number of calls in between, and the comment on `scan_window`
makes the final call its duty. `ColumnSink` assumes that the callback returns, that
it fails finitely often, and that the producer repeats `finish()` after a failure.

## 6. Proofs

The theorems hold for every value of the constants, under the named assumptions of
the modules: types and ranges of the parameters; what a packet's walk is, for
`BulkDecode`; what a scan can produce, for `BlockParse`; `WellFormed` captures, for
`ScanWindow`; for `Dpar`, that a text consists of lines, that offsets and lengths in a
packet are numbers, and that a parser's record takes at least one byte (every cursor of
the palette moves on by at least a tag; without it the loop would not end). TLC
evaluates each assumption on the constants of the runs.

| Module | Theorems | Inductive invariant, and what it adds |
|---|---|---|
| `BulkDecode_proofs` | `BulkTypeOK`, `BulkScatterExact`, `BulkRowsKept`, `BulkImplementsSerial` | see below |
| `ScanWindow_proofs` | `ScanTypeOK`, `ScanRefsExact`, `ScanVerdict` | see below |
| `Dpar_proofs` | `DparTypeOK`, `DparRowsAccounted`, `DparRowsInsidePacket`, `DparAllMatch`, `DparRulesMeanText` | see below |
| `ChildRecords_proofs` | `ChildTypeOK`, `ChildCountsExact`, `ChildChildrenExact` | see below |
| `Soa_proofs` | `ExportTypeOK`, `ExportBatchOrNothing`, about `ArrowExport` | What is held at each place in the code (`Held`), how the calls so far came out (`Outcome`), and how far each column has been built (`Built`): in the row loop the columns in front of the current one are a row ahead, in the column loop they are whole. |
| `Soa_proofs` | `SinkTypeCorrect`, `SinkExactlyOnce`, about `ColumnSink` | What the callback has taken so far is a prefix of the chunk, and a flush from `push` finds it full; the chunk has room unless `push` is flushing it or has said that it could not (`RoomLeft`). |
| `TlvCursor_proofs` | `CursorSafe`, `CursorExhausted`, `CursorTypeOK` | `Dead`: once `next` has returned false, the bytes at the cursor are such that it will again. |
| `PacketWalk_proofs` | `WalkSafe`, `WalkTypeOK`, `WalksSame` | `Ahead`: the walk's offset is past the extent of every header reported (of an authentication header, its first eight bytes). For `WalksSame` see below. |
| `BlockParse_proofs` | `ParseSafe`, `ParseTypeOK`, `ParseRowsExact` | What an open option cursor covers (`OpenInv`, `CursorInv`), whose flags the view holds (`FlagsInv`), what the rows so far are (`RowsInv`). The arithmetic is in `PadFacts` and `OptOffInBlock`: for which caplen values the wrapped sum stays in the block. |

**The slots of the bulk decoders.** Types (`TInv`) already need more than types: that a
task's index names a packet of the batch follows from the ranges of `bulk_for_each`,
whose cover and order come from division lemmas (`TaskRangesCover`,
`TaskRangesOrdered`). `SInv` then gives every row a place: `Counted` says what the count
pass has found, `Layout` that the base of a packet is the end of the one before it,
`PastEnd` where the column ends, `Cursors` that a task's cursor stands at the slot of the row
it writes next, `Pending` that the slots of rows not yet written are still blank. Two
tasks have different packets, the slots of different packets lie apart, and so do the
writes. `RInv` adds what is in the slots: a row passed is where its packet and position
put it (`Written`), which at the join is every row (`RowsComplete`). Both theorems have
the hypothesis `NoWrap`, `MaxPackets * MaxWalk < Mod`: the code's counters are 32 bits
wide and it does not check them, and beyond that number of rows the property fails
(section 4). In the code `Mod` is 2^32: the number of
packets of a run times the longest walk has to stay below it.

**The bulk decoders implement the serial one.** The abstract state is what a caller may
look at: the tables up to `CommittedSize`, and the packets decoded. Every step of a call
is a stutter of it except the last, which is one `Decode` of `SerialDecode`. `Exact` adds
to the layout where each packet's rows begin and end in terms of the walks alone
(`Mark`), so that at the join the new part of a table is known slot by slot.
`SerialPacket` and `SerialBatch` say the same of the recursive functions of the serial
decoder: after so many rows of so many packets it has so many rows in a table, and these.
The two sequences then have equal lengths and equal elements. `SerialDecode` has no
fairness, so `BulkImplementsSerial` is the whole refinement, under `NoWrap`.

**The three packet walks.** They run one after the other over bytes that are chosen when
first read. What they report has to be tied to the bytes and not to the run: `Follow` says,
from the header at an offset alone, which header the graph puts behind it and where. A
walk's headers are a path of `Follow` (`DagPath`, `LayeredPaths`), where it stands in its
code is a function of the header reported last (`Stands`), and when it has ended it could
not go on (`Ended`). `Followed` then compares: while a walk runs, what it has reported is
a prefix of what the one before it reported. Ending adds that it is all of it.

**The children of a header.** Again three traversals over the same bytes, of which the
first keeps only counts. `FixedCount` gives the number of segments or entries from the
header and the captured size; `Accepts` and `Stops` say which of the records read so far
a visit with a given number of bytes takes and where it ends. The records of all visits
form one `Chain`: each begins where the one before it ends, so the next position read is
the next record of the chain or a new one behind it (`NextRead`). `Found` says of each
visit that what it counted or wrote is `FixedCount` children and a prefix of the chain.
From that, `AcceptsBound`: a visit accepts no more records than where any visit of the
same bytes stops, so count and scatter end with the same number; and a record that fits
a cut capture fits the whole packet, so the rows of the one are a prefix of the other's.

**The scan.** `RefsExact` and `VerdictOfFile` are about the file, while `scan_window` sees
only its window. The invariant connects them: the position reached (`At`) is the start
of a block of the file whenever one can start there, and its byte order is the one the
carried state remembers (`OnBlock`, `Known`); all blocks in front of it are whole
(`Behind`); a call with `at_eof` has everything (`AtEof`). The verdict follows because
the first block that is not whole is the same for every way of cutting the file.

**The rule engine.** `DInv` says that the rules in force are those of the text that
compiled last (`InForce`), that every row is of a packet that was run (`RowsKnown`),
and what the tables hold after the first `ri` rules of a packet (`MatchedUpTo(ri)`), from
which `AllMatch` follows once `ri` has reached the last, because the PDU `LastPdu` finds
is the innermost one (`InnermostIsLast`, `FiresIff`). The counters are cardinalities, and the rows
of a rule that fires are a product of its table and an interval of new places, disjoint
from the old ones (`NewRowsAre`, `RowsSinceStep`). `DparRulesMeanText` rests on
`OperandMeans`: an operand of `Distinct` that passed the loader's
checks is the number written.

Some of these facts need induction over data. The library's induction theorems take a
predicate as a parameter, so the proofs go through sets: `LeastNat` (every non-empty set of
numbers has a least element, from `WFMin` and `NatLessThanWellFounded`) gives `Upward` and
`Downward`, with which the recursive functions of `Dpar` (`Pow2`, `RuleLines`,
`RecordsFrom`) and of `SerialDecode` are shown to exist and to return what they should.

The invariants were checked with TLC on the models of the runs before they were proved.

Only model-checked:

* All liveness: it needs fairness and `ENABLED`.
* `ColumnsExact` and `ReadersAgree` of `SpecTable`: a field's value is a fold over the
  layout of its header (`FoldLeft` of `WireSpec`), and a fold takes an operator the
  provers cannot instantiate.
* `ImplementsStream`: `PacketStream` promises that a readable capture is reported, which
  is liveness. Its safety part needs the invariant of `ScanWindow_proofs` for the
  instance of the scan inside `CaptureTool`, and is not proved.
* The types of `SpecTable` and `CaptureTool`, which say little without these.

## 7. Not modelled

* What the templates of soatins and of `N/wire_spec.hpp` do at compile time: deriving
  column types, checking widths. `struct_view` is `read_field` under another name.
* The text of JSON lines and of statistics, and `map_arrow_type`, a table of names.
* `OddTlvKind` of `examples/dpar`, a sample of how to add a parser: it walks the
  members of `someip_tlv_cursor`, which is modelled, and reads an array inside them.
* Errors of `fread`: the tools do not look for them and take a short read for the end
  of the file.
* Column values other than those a property tells apart; in `ChildRecords` and
  `BulkDecode` a row is its place.
* stdexec and nanoarrow, which are external; GPU execution, which the repository
  prepares for and does not contain.

## 8. Running

    tlc -workers 2 -config MCBulkDecode.cfg MCBulkDecode
    tlapm BulkDecode_proofs.tla

`PROJECT.json` lists every run with its module, configuration and properties, and
for each property a mutant: a definition changed the way a plausible bug would
change it, defined in the module just before the one it replaces, under which the
property fails.

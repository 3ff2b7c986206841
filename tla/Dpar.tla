-------------------------------- MODULE Dpar --------------------------------
(***************************************************************************)
(* The rule engine: dpar_engine (dpar_palette.hpp) with compile_rules,     *)
(* dpar_match and resolve_region (dpar.hpp).  load_rules is one action;    *)
(* run goes through the rules one step each, as its loop does.             *)
(*                                                                         *)
(* A rules text is a sequence of lines, a line the tokens it consists of:  *)
(*   blank  a blank line or a comment                                      *)
(*   preds  its predicates, [short, lhs, op, numeral, value]: short when   *)
(*          the line ends inside it, lhs a "node.field" or something else, *)
(*          value the integer written, sign included, if it is a numeral   *)
(*   tail   the tokens behind them, <<"=>", parser, region>> when complete *)
(*                                                                         *)
(* A packet is its captured size, the walk of the graph over it (node,     *)
(* offset and field values of every PDU) and records[kind][a], the length  *)
(* of the record a parser of that kind finds at offset a.                  *)
(***************************************************************************)
EXTENDS Integers, Sequences, FiniteSets, Functions, FiniteSetsExt

CONSTANTS
  Catalog,    \* Catalog["node.field"] = [node, bits]
  Kinds,      \* the parser names of the palette
  Texts,      \* rules texts a caller may load
  Packets,    \* packets a caller may run
  MaxPreds,   \* kMaxPredicates (6 in the code)
  WordBits,   \* bits of the integers operands are parsed to (64)
  MaxRuns,    \* bound: packets run over a behaviour
  MaxLoads    \* bound: load_rules calls over a behaviour

PredText == [short : BOOLEAN, lhs : STRING, op : STRING, numeral : BOOLEAN, value : Int]
LineText == [blank : BOOLEAN, preds : Seq(PredText), tail : Seq(STRING)]

(* A parser's record takes at least one byte. *)
ASSUME DparAssumption ==
  /\ MaxPreds \in Nat
  /\ WordBits \in Nat
  /\ \A f \in DOMAIN Catalog : Catalog[f].bits \in 1..WordBits
  /\ \A t \in Texts : t \in Seq(LineText)
  /\ \A p \in Packets :
       /\ p.size \in Nat
       /\ p.walk \in Seq(Range(p.walk))
       /\ \A j \in 1..Len(p.walk) :
            p.walk[j].off \in Nat /\ p.walk[j].data_offset \in Nat /\ p.walk[j].length \in Nat
       /\ \A kd \in Kinds : \A a \in DOMAIN p.records[kd] :
            a \in Nat /\ p.records[kd][a] \in Nat \ {0}

Ops == {"==", "<", ">", "<=", ">="}

(* The node each region is measured from. *)
Anchor ==
  [eth_payload |-> "eth", vlan_payload |-> "vlan", udp_payload |-> "udp",
   tcp_payload |-> "tcp", someip_payload |-> "someip"]

VARIABLES
  rules,     \* rules_
  stats,     \* the counters of EngineStats
  perRule,   \* stats.per_rule
  tables,    \* palette.tables: the rows of each kind
  phase,     \* "idle", or "rules" inside run()
  pkt,       \* the packet of the running (or last) run()
  ri,        \* rules evaluated for it so far
  any,       \* whether one of them has fired
  runs,      \* history: the packets run, in order; packet_id is the index
  text,      \* history: the text the rules in force come from
  loaded,    \* whether the last load_rules compiled
  loads,     \* load_rules calls so far
  marks      \* history: the tables' sizes at the last reset of perRule

engineVars == <<rules, stats, perRule, tables>>
runVars == <<phase, pkt, ri, any, runs>>
loadVars == <<text, loaded, loads, marks>>
vars == <<engineVars, runVars, loadVars>>

-----------------------------------------------------------------------------
(* compile_rules *)

(* Powers of two, up to the first number a word does not hold. *)
Pow2[k \in 0..WordBits] == IF k = 0 THEN 1 ELSE 2 * Pow2[k - 1]
Word == Pow2[WordBits]

(* Mutant: the digits overflow the word silently. *)
parse_u64_Wraps(value) == value % Word

(* strtoull: digits wider than the word give all ones, whatever the sign;   *)
(* otherwise a minus sign negates within the word.                          *)
parse_u64(value) ==
  IF value \in -(Word - 1)..(Word - 1) THEN value % Word ELSE Word - 1

If(cond, message) == IF cond THEN {message} ELSE {}

(* Each predicate is checked on its own, its field against its operand. *)
PredErrors(p) ==
  If(p.short, "expected predicate") \cup
  (IF p.short THEN {} ELSE
     If(p.op \notin Ops, "unknown comparator") \cup
     If(~p.numeral, "not an integer") \cup
     If(p.lhs \notin DOMAIN Catalog, "unknown field") \cup
     If(/\ p.lhs \in DOMAIN Catalog
        /\ Catalog[p.lhs].bits < WordBits
        /\ parse_u64(p.value) >= Pow2[Catalog[p.lhs].bits], "operand overflows"))

HasAnchor(region) == \E f \in DOMAIN Catalog : Catalog[f].node = Anchor[region]

TailErrors(tail) ==
  IF Len(tail) = 0 \/ Head(tail) # "=>" THEN {"expected =>"}
  ELSE If(Len(tail) < 2, "expected a parser") \cup
       If(Len(tail) >= 2 /\ tail[2] \notin Kinds, "unknown parser") \cup
       If(Len(tail) < 3, "expected a region") \cup
       If(Len(tail) >= 3 /\ tail[3] \notin DOMAIN Anchor, "unknown region") \cup
       If(Len(tail) >= 3 /\ tail[3] \in DOMAIN Anchor /\ ~HasAnchor(tail[3]), "no anchor")

LineErrors(line) ==
  (UNION {PredErrors(line.preds[i]) : i \in 1..Len(line.preds)}) \cup
  If(Len(line.preds) = 0, "expected predicate") \cup
  If(Len(line.preds) > MaxPreds, "too many predicates") \cup
  TailErrors(line.tail)

(* rule_id is the rule's ordinal among the lines that hold rules. *)
RuleOf(line, id) ==
  [preds |-> [i \in 1..Len(line.preds) |->
                [field |-> line.preds[i].lhs, op |-> line.preds[i].op,
                 operand |-> parse_u64(line.preds[i].value)]],
   kind |-> line.tail[2],
   region |-> line.tail[3],
   rule_id |-> id]

(* The lines that hold rules, in the order of the text. *)
RuleLines(lines) ==
  LET upTo[k \in 0..Len(lines)] ==
        IF k = 0 THEN <<>>
        ELSE IF lines[k].blank THEN upTo[k - 1]
        ELSE Append(upTo[k - 1], lines[k])
  IN  upTo[Len(lines)]

(* Mutant: rule_id is the line number, blank lines included. *)
compile_rules_LineNumbers(lines) ==
  LET numbers == SelectSeq([i \in 1..Len(lines) |-> i], LAMBDA i : ~lines[i].blank)
      ok == \A i \in 1..Len(numbers) : LineErrors(lines[numbers[i]]) = {}
  IN  [ok |-> ok,
       rules |-> IF ok THEN [i \in 1..Len(numbers) |->
                               RuleOf(lines[numbers[i]], numbers[i] - 1)]
                 ELSE <<>>]

(* All problems are collected; any problem means no rules. *)
compile_rules(lines) ==
  LET ruleLines == RuleLines(lines)
      ok == \A i \in 1..Len(ruleLines) : LineErrors(ruleLines[i]) = {}
  IN  [ok |-> ok,
       rules |-> IF ok THEN [i \in 1..Len(ruleLines) |-> RuleOf(ruleLines[i], i - 1)]
                 ELSE <<>>]

-----------------------------------------------------------------------------
(* dpar_match *)

(* The visitor keeps the offset of the last PDU of each node. *)
Present(n) == \E j \in 1..Len(pkt.walk) : pkt.walk[j].node = n

(* Mutant: the first PDU of a node is kept. *)
LastPdu_First(n) == pkt.walk[Min({j \in 1..Len(pkt.walk) : pkt.walk[j].node = n})]

LastPdu(n) == pkt.walk[Max({j \in 1..Len(pkt.walk) : pkt.walk[j].node = n})]

cmp_apply(v, op, o) ==
  \/ op = "==" /\ v = o
  \/ op = "<" /\ v < o
  \/ op = ">" /\ v > o
  \/ op = "<=" /\ v <= o
  \/ op = ">=" /\ v >= o

(* A missing layer makes a predicate false. *)
PredHolds(pr) ==
  LET n == Catalog[pr.field].node
  IN  Present(n) /\ cmp_apply(LastPdu(n).fields[pr.field], pr.op, pr.operand)

PredsHold(rule) == \A i \in 1..Len(rule.preds) : PredHolds(rule.preds[i])

(* resolve_region: where the region of an anchor PDU starts and ends. *)
AnchorPdu(region) == LastPdu(Anchor[region])

RegionBegin(region, pdu) ==
  pdu.off + (CASE region = "eth_payload" -> 14
               [] region = "vlan_payload" -> 4
               [] region = "udp_payload" -> 8
               [] region = "tcp_payload" -> Max({20, pdu.data_offset * 4})
               [] region = "someip_payload" -> 16)

(* Mutant: a SOME/IP length that reaches past the capture is believed. *)
RegionEnd_Unclamped(region, pdu) ==
  IF region # "someip_payload" THEN pkt.size
  ELSE Max({pdu.off + 8 + pdu.length, RegionBegin(region, pdu)})

(* A SOME/IP message may end before the capture; never before it begins. *)
RegionEnd(region, pdu) ==
  IF region # "someip_payload" THEN pkt.size
  ELSE Max({Min({pdu.off + 8 + pdu.length, pkt.size}), RegionBegin(region, pdu)})

RegionResolves(region) ==
  Present(Anchor[region]) /\ RegionBegin(region, AnchorPdu(region)) <= pkt.size

(* The palette's parser runs its cursor over [b, e): a record that does not *)
(* fit ends it.                                                             *)
RecordsFrom(at, e) ==
  LET from[a \in 0..e] ==
        IF a \in DOMAIN at /\ a + at[a] <= e
        THEN <<[at |-> a, len |-> at[a]]>> \o from[a + at[a]]
        ELSE <<>>
  IN  from

ParserRecords(kind, b, e) == RecordsFrom(pkt.records[kind], e)[b]

(* The rows of a rule whose region is measured from a PDU. *)
RowsFrom(rule, pdu) ==
  LET recs == ParserRecords(rule.kind, RegionBegin(rule.region, pdu), RegionEnd(rule.region, pdu))
  IN  [i \in 1..Len(recs) |->
         [packet_id |-> Len(runs), rule_id |-> rule.rule_id, index |-> i - 1,
          at |-> recs[i].at, len |-> recs[i].len]]

Emitted(rule) == RowsFrom(rule, AnchorPdu(rule.region))

Fires(rule) == PredsHold(rule) /\ RegionResolves(rule.region)

-----------------------------------------------------------------------------
NoStat == [matched |-> 0, rows_emitted |-> 0]
NoStats == [packets_seen |-> 0, packets_matched_any |-> 0,
            rules_evaluated |-> 0, rows_emitted |-> 0]

Init ==
  /\ rules = <<>>
  /\ stats = NoStats
  /\ perRule = <<>>
  /\ tables = [kd \in Kinds |-> <<>>]
  /\ phase = "idle"
  /\ pkt \in Packets
  /\ ri = 0
  /\ any = FALSE
  /\ runs = <<>>
  /\ text = <<>>
  /\ loaded = TRUE
  /\ loads = 0
  /\ marks = [kd \in Kinds |-> 0]

Sizes == [kd \in Kinds |-> Len(tables[kd])]

(* Mutant: the counters of the rules before are kept. *)
LoadOk_KeepsStats(t) ==
  /\ compile_rules(t).ok
  /\ rules' = compile_rules(t).rules
  /\ text' = t
  /\ perRule' = [i \in 1..Len(rules') |->
                   IF i <= Len(perRule) THEN perRule[i] ELSE NoStat]
  /\ marks' = Sizes
  /\ loaded' = TRUE

(* The text compiled: its rules replace the old ones, their counters start  *)
(* at zero; the totals and the tables stay.                                 *)
LoadOk(t) ==
  /\ compile_rules(t).ok
  /\ rules' = compile_rules(t).rules
  /\ text' = t
  /\ perRule' = [i \in 1..Len(rules') |-> NoStat]
  /\ marks' = Sizes
  /\ loaded' = TRUE

(* It did not: the caller gets the errors, the engine stays as it is. *)
LoadError(t) ==
  /\ ~compile_rules(t).ok
  /\ loaded' = FALSE
  /\ UNCHANGED <<rules, text, perRule, marks>>

load_rules(t) ==
  /\ phase = "idle"
  /\ loads < MaxLoads
  /\ loads' = loads + 1
  /\ LoadOk(t) \/ LoadError(t)
  /\ UNCHANGED <<stats, tables, runVars>>

(* run() without rules is one branch and no more. *)
RunEmpty(p) ==
  /\ phase = "idle"
  /\ rules = <<>>
  /\ Len(runs) < MaxRuns
  /\ runs' = Append(runs, p)
  /\ pkt' = p
  /\ UNCHANGED <<engineVars, phase, ri, any, loadVars>>

(* run(): walk the packet, count it, start on the rules. *)
RunBegin(p) ==
  /\ phase = "idle"
  /\ rules # <<>>
  /\ Len(runs) < MaxRuns
  /\ runs' = Append(runs, p)
  /\ pkt' = p
  /\ stats' = [stats EXCEPT !.packets_seen = @ + 1]
  /\ phase' = "rules"
  /\ ri' = 0
  /\ any' = FALSE
  /\ UNCHANGED <<rules, perRule, tables, loadVars>>

(* The next rule does not fire. *)
RulePass ==
  /\ phase = "rules"
  /\ ri < Len(rules)
  /\ ~Fires(rules[ri + 1])
  /\ stats' = [stats EXCEPT !.rules_evaluated = @ + 1]
  /\ ri' = ri + 1
  /\ UNCHANGED <<rules, perRule, tables, phase, pkt, any, runs, loadVars>>

(* It fires: its parser appends rows, its counters and the totals follow. *)
RuleFire ==
  /\ phase = "rules"
  /\ ri < Len(rules)
  /\ Fires(rules[ri + 1])
  /\ LET rule == rules[ri + 1]
         rows == Emitted(rule)
     IN  /\ tables' = [tables EXCEPT ![rule.kind] = @ \o rows]
         /\ perRule' = [perRule EXCEPT ![rule.rule_id + 1] =
                          [matched |-> @.matched + 1,
                           rows_emitted |-> @.rows_emitted + Len(rows)]]
         /\ stats' = [stats EXCEPT !.rules_evaluated = @ + 1,
                                   !.rows_emitted = @ + Len(rows)]
  /\ any' = TRUE
  /\ ri' = ri + 1
  /\ UNCHANGED <<rules, phase, pkt, runs, loadVars>>

RunEnd ==
  /\ phase = "rules"
  /\ ri = Len(rules)
  /\ stats' = IF any THEN [stats EXCEPT !.packets_matched_any = @ + 1] ELSE stats
  /\ phase' = "idle"
  /\ UNCHANGED <<rules, perRule, tables, pkt, ri, any, runs, loadVars>>

Run == RulePass \/ RuleFire \/ RunEnd

Next ==
  \/ \E t \in Texts : load_rules(t)
  \/ \E p \in Packets : RunEmpty(p) \/ RunBegin(p)
  \/ Run

(* run() comes to its end; nobody has to call again. *)
Spec == Init /\ [][Next]_vars /\ WF_vars(Run)

-----------------------------------------------------------------------------
Stat == [matched : Nat, rows_emitted : Nat]
Stats == [packets_seen : Nat, packets_matched_any : Nat, rules_evaluated : Nat, rows_emitted : Nat]
RowType == [packet_id : Nat, rule_id : Nat, index : Nat, at : Nat, len : Nat]

(* The variables have their types, and every loaded rule has its counters:  *)
(* per_rule[rule_id] exists whenever dpar_match writes it.                  *)
TypeOK ==
  /\ \A i \in 1..Len(rules) : rules[i].rule_id = i - 1
  /\ stats \in Stats
  /\ perRule \in Seq(Stat)
  /\ Len(perRule) = Len(rules)
  /\ tables \in [Kinds -> Seq(RowType)]
  /\ phase \in {"idle", "rules"}
  /\ pkt \in Packets
  /\ ri \in Nat
  /\ any \in BOOLEAN
  /\ loaded \in BOOLEAN

(* Where the rows are: the table and the place in it; and those among them  *)
(* that rule id appended since the rules were loaded.                       *)
AllRows == UNION {{kd} \X (1..Len(tables[kd])) : kd \in Kinds}

RowsSince(id) == {x \in AllRows : x[2] > marks[x[1]] /\ tables[x[1]][x[2]].rule_id = id}

(* The counters tell what is in the tables: the total is the number of all  *)
(* rows, a rule's own is the number of rows it has added since it was       *)
(* loaded, through reloads that fail and reloads that succeed.              *)
RowsAccounted ==
  /\ stats.rows_emitted = Cardinality(AllRows)
  /\ \A i \in 1..Len(perRule) : perRule[i].rows_emitted = Cardinality(RowsSince(i - 1))

(* No row describes bytes outside the packet it came from, although the     *)
(* region's end is taken from a length field of the packet.                 *)
RowsInsidePacket ==
  \A kd \in Kinds : \A j \in 1..Len(tables[kd]) :
    LET row == tables[kd][j]
    IN  row.at + row.len <= runs[row.packet_id].size

(* The innermost PDU of a node, if it has one: no later PDU of the walk is   *)
(* of that node.                                                             *)
Innermost(n) ==
  {pkt.walk[j] : j \in {l \in 1..Len(pkt.walk) :
     /\ pkt.walk[l].node = n
     /\ \A m \in 1..Len(pkt.walk) : pkt.walk[m].node = n => m <= l}}

(* Every predicate of a rule holds of the innermost PDU of its node. *)
Matches(rule) ==
  \A i \in 1..Len(rule.preds) :
    LET pr == rule.preds[i]
    IN  \E pdu \in Innermost(Catalog[pr.field].node) :
          cmp_apply(pdu.fields[pr.field], pr.op, pr.operand)

(* The PDUs a rule's region can be measured from, and the rows there. *)
AnchorsOf(rule) ==
  {pdu \in Innermost(Anchor[rule.region]) : RegionBegin(rule.region, pdu) <= pkt.size}

RowsOf(rule) == UNION {Range(RowsFrom(rule, pdu)) : pdu \in AnchorsOf(rule)}

RowsOfPacket(kd) ==
  {j \in 1..Len(tables[kd]) : tables[kd][j].packet_id = Len(runs)}

(* Row r stands before row s when they come from the same packet. *)
Precedes(r, s) ==
  \/ r.rule_id < s.rule_id
  \/ r.rule_id = s.rule_id /\ r.index < s.index

(* All-match, in rule order: when the loop of run() is done, the packet's    *)
(* rows are the records that the parsers of all matching rules find behind   *)
(* the innermost anchor, one rule's rows behind the other's, and the packet  *)
(* counts as matched (any) only if a rule matches and whenever one with a    *)
(* region in the packet does.  Of a rule whose predicates pass and whose     *)
(* region is not there it says only that it has no rows: the code does not   *)
(* count such a match (resolve_region, dpar.hpp:562), the comments at        *)
(* dpar.hpp:199 and :519 do not mention the region.                          *)
AllMatch ==
  (phase = "rules" /\ ri = Len(rules)) =>
    /\ any => \E i \in 1..Len(rules) : Matches(rules[i])
    /\ (\E i \in 1..Len(rules) : Matches(rules[i]) /\ AnchorsOf(rules[i]) # {}) => any
    /\ \A kd \in Kinds :
         /\ {tables[kd][j] : j \in RowsOfPacket(kd)} =
              UNION {RowsOf(rules[i]) : i \in {x \in 1..Len(rules) :
                       rules[x].kind = kd /\ Matches(rules[x])}}
         /\ \A j, k \in RowsOfPacket(kd) : j < k => Precedes(tables[kd][j], tables[kd][k])

(* Exactly the operands that parse_u64 turns into another number which then  *)
(* passes the width check are left out: for a field as wide as the word all  *)
(* numbers outside the word, for a narrower one the negative numbers whose   *)
(* two's complement fits it.  They do not fit their field, and dpar.hpp:289  *)
(* ("must fit the field's width") asks for an error the code does not give.  *)
Distinct(p) ==
  LET bits == Catalog[p.lhs].bits
  IN  IF bits = WordBits THEN p.value \in 0..(Word - 1)
      ELSE p.value \notin -(Word - 1)..(Pow2[bits] - Word - 1)

(* The rules in force are the lines of the text that compiled last, and a    *)
(* predicate of theirs compares every value its field can have as the number *)
(* written in the text would, for the operands of Distinct.  Those compile   *)
(* to themselves or not at all, signs and numbers beyond the word included,  *)
(* although parse_u64 takes a sign, saturates and reports neither: the width *)
(* check behind it refuses them.  Of the operands Distinct leaves out, which *)
(* the code accepts and changes, it says nothing.                            *)
RulesMeanText ==
  LET lines == RuleLines(text)
  IN  /\ Len(rules) = Len(lines)
      /\ \A i \in 1..Len(lines) :
           /\ Len(rules[i].preds) = Len(lines[i].preds)
           /\ \A j \in 1..Len(lines[i].preds) :
                LET p == lines[i].preds[j]
                    pr == rules[i].preds[j]
                IN  Distinct(p) =>
                      \A v \in 0..(Pow2[Catalog[p.lhs].bits] - 1) :
                        cmp_apply(v, pr.op, pr.operand) = cmp_apply(v, p.op, p.value)

(* "on failure the engine keeps zero rules" (load_rules). *)
FailedLoadEmpties == ~loaded => rules = <<>>
=============================================================================

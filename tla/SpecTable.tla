------------------------------- MODULE SpecTable -------------------------------
(***************************************************************************)
(* What may be in the cache of the specification (spec/bounded.rs,         *)
(* validate_ops in spec/mod.rs, encode and checked_body in spec/cache.rs). *)
(* A table of operations is framed into a body, each record behind its     *)
(* length, and read back under limits that are checked before anything is  *)
(* reserved.  Pure: no state.                                              *)
(*                                                                         *)
(* An operation is its name (0 for an unusable one), whether its path is   *)
(* its own endpoint and its text can be shown, the bytes of its text, the  *)
(* number of its parameters, and the fields of its answer in pre-order.    *)
(***************************************************************************)
EXTENDS Integers, Sequences, FiniteSets, SequencesExt

CONSTANTS
  MaxOps,        \* MAX_CACHED_OPS
  MaxDecoded,    \* MAX_DECODED_BYTES
  MaxOpRecord,   \* MAX_OP_RECORD_BYTES
  MaxMetaRecord, \* MAX_META_RECORD_BYTES
  MaxBody,       \* MAX_CACHE_BODY_BYTES
  MaxSchemaDepth \* spec_compile::MAX_SCHEMA_DEPTH

\* Sizes in bytes, small: a length field, the least record, what an operation
\* and a parameter or field take in memory.
LengthBytes == 1
LeastRecord == 1
OpSlot == 3
ItemSlot == 1
Slack == 2

Container == {"object", "array"}
Field(depth, kind, omitted) == [depth |-> depth, kind |-> kind, omitted |-> omitted]

TotalOf(s) == FoldLeft(LAMBDA sum, n : sum + n, 0, s)

RecordBytes(op) == LeastRecord + op.text + op.params + Len(op.fields)

(* footprint_of: containers are charged for twice what they hold.           *)
Footprint(op) == op.text + Slack * ItemSlot * (op.params + Len(op.fields))

-----------------------------------------------------------------------------
(* check_field_nesting: a stack of the containers a field is in.            *)
FieldsNest(fields) ==
  LET Take(s, f) ==
        LET open == SubSeq(s.open, 1, f.depth)
        IN  [ok |-> /\ s.ok
                    /\ f.depth <= MaxSchemaDepth
                    /\ f.depth <= Len(s.open)
                    /\ f.depth > 0 => s.open[f.depth] \in Container
                    /\ f.omitted => f.kind \in Container,
             open |-> IF f.depth <= Len(s.open) THEN Append(open, f.kind) ELSE s.open]
  IN  FoldLeft(Take, [ok |-> TRUE, open |-> <<>>], fields).ok

(* validate_ops: rules for names, endpoints and text, and no name twice.    *)
ValidTable(ops) ==
  /\ ops # <<>>
  /\ \A i \in 1 .. Len(ops) :
       /\ ops[i].name # 0 /\ ops[i].own /\ ops[i].shown
       /\ FieldsNest(ops[i].fields)
       /\ \A j \in 1 .. i - 1 : ops[j].name # ops[i].name

(* check_table: the number of operations and the memory they come to.       *)
TableFits(ops) ==
  /\ Len(ops) <= MaxOps
  /\ OpSlot * Len(ops) + TotalOf([i \in 1 .. Len(ops) |-> Footprint(ops[i])]) <= MaxDecoded

-----------------------------------------------------------------------------
(* A body is a sequence of items: a length, or a record of so many bytes.   *)
Length(n) == [kind |-> "length", bytes |-> n, value |-> <<>>]
Record_(bytes, value) == [kind |-> "record", bytes |-> bytes, value |-> value]
Bytes(body) ==
  TotalOf([i \in 1 .. Len(body) |->
             IF body[i].kind = "length" THEN LengthBytes ELSE body[i].bytes])

Framed(bytes, value) == <<Length(bytes), Record_(bytes, value)>>

(* store_at and encode_table: the bodies a table is stored as, none if it is*)
(* refused.  Meta is the size of the record of provenance.                  *)
Encode(meta, ops) ==
  LET body == Framed(meta, <<>>) \o <<Length(Len(ops))>>
                \o FlattenSeq([i \in 1 .. Len(ops) |-> Framed(RecordBytes(ops[i]), <<ops[i]>>)])
  IN  IF /\ ValidTable(ops) /\ TableFits(ops)
         /\ meta <= MaxMetaRecord
         /\ \A i \in 1 .. Len(ops) : RecordBytes(ops[i]) <= MaxOpRecord
         /\ Bytes(body) <= MaxBody
      THEN {body} ELSE {}

\* take_record: behind its length, which is within the limit and the body.
Takes(body, at, limit) ==
  /\ at + 1 <= Len(body)
  /\ body[at].kind = "length" /\ body[at].bytes <= limit
  /\ body[at + 1].kind = "record" /\ body[at + 1].bytes = body[at].bytes

\* check_declared_count: before room is made for the operations.
CountFits(count, remaining) ==
  /\ count <= MaxOps
  /\ count <= remaining \div (LengthBytes + LeastRecord)
  /\ OpSlot * count <= MaxDecoded

(* decode_ops: one record after the other, the footprint charged after each,*)
(* and nothing left at the end.                                             *)
DecodeOps(body, at) ==
  LET count == body[at].bytes
      Table[n \in 0 .. count] ==
        IF n = 0 THEN [ok |-> CountFits(count, Bytes(SubSeq(body, at + 1, Len(body)))),
                       ops |-> <<>>, footprint |-> OpSlot * count]
        ELSE LET t == Table[n - 1]
                 place == at + 2 * n - 1
             IN  IF t.ok /\ Takes(body, place, MaxOpRecord) /\ body[place + 1].value # <<>>
                 THEN LET op == body[place + 1].value[1]
                      IN  [ok |-> t.footprint + Footprint(op) <= MaxDecoded,
                           ops |-> Append(t.ops, op),
                           footprint |-> t.footprint + Footprint(op)]
                 ELSE [t EXCEPT !.ok = FALSE]
  IN  IF Table[count].ok /\ Len(body) = at + 2 * count THEN {Table[count].ops} ELSE {}

(* load_at: the tables a body is read as, none if it is discarded.  The     *)
(* version says whether this build wrote it, which is asked before any      *)
(* operation is looked at.                                                  *)
Decode(body, mine) ==
  IF /\ Bytes(body) <= MaxBody
     /\ Takes(body, 1, MaxMetaRecord)
     /\ mine
     /\ Len(body) >= 3 /\ body[3].kind = "length"
  THEN {ops \in DecodeOps(body, 3) : ValidTable(ops)} ELSE {}

-----------------------------------------------------------------------------
(* What sync reports as stored is what the next command loads.              *)
StoredLoads(meta, ops) == \A body \in Encode(meta, ops) : Decode(body, TRUE) = {ops}

(* A file that loads, whoever wrote it, is one this build would have stored,*)
(* so no limit is looser on the way in than on the way out.                 *)
LoadedIsStorable(body) ==
  \A ops \in Decode(body, TRUE) : body \in Encode(body[1].bytes, ops)

(* describe.rs: the tree that is printed of a flat list, as the fields in   *)
(* the order they are printed, each under another one (0 at the top), and   *)
(* where the printing stopped.                                              *)
Nothing(at) == [printed |-> <<>>, at |-> at]
FieldsAtDepth(fields) ==
  LET n == Len(fields)
      Tree[i \in 1 .. n + 1, depth \in 0 .. n, above \in 0 .. n] ==
        IF i > n \/ fields[i].depth # depth THEN Nothing(i)
        ELSE LET below == Tree[i + 1, depth + 1, i]
                 beside == Tree[below.at, depth, above]
             IN  [printed |-> <<[is |-> i, under |-> above]>> \o below.printed \o beside.printed,
                  at |-> beside.at]
  IN  Tree[1, 0, 0].printed

(* The fields that pass are those of a tree: each one is directly below the *)
(* nearest field before it that is less deep, which can hold it; and the    *)
(* tree that is printed has all of them, at their places.                   *)
NestingIsATree(fields) ==
  FieldsNest(fields) =>
    /\ Len(FieldsAtDepth(fields)) = Len(fields)
    /\ \A i \in 1 .. Len(fields) :
         LET printed == FieldsAtDepth(fields)[i]
             j == printed.under
         IN  /\ printed.is = i
             /\ IF fields[i].depth = 0 THEN j = 0
                ELSE /\ j \in 1 .. i - 1
                     /\ fields[j].depth = fields[i].depth - 1
                     /\ fields[j].kind \in Container
                     /\ \A k \in j + 1 .. i - 1 : fields[k].depth >= fields[i].depth
=============================================================================

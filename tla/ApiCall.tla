--------------------------------- MODULE ApiCall ---------------------------------
(***************************************************************************)
(* `otl api` (commands/api/, engine body.rs, scalar.rs, client.rs): from a *)
(* command line to an answer given here or to one request, and from the    *)
(* server's error to what is shown of it.  Pure: no state.                 *)
(***************************************************************************)
EXTENDS Integers, Sequences, FiniteSets, SequencesExt

CONSTANTS
  MaxInt,  \* i64::MAX
  Exact    \* 2^53, the integers up to which are doubles

ASSUME ApiCallAssumption == MaxInt \in Nat /\ Exact \in Nat \ {0, 1}

(* A value on the command line: a word, or a number, which may have a half. *)
Word(w) == [word |-> w, num |-> 0, half |-> FALSE]
Whole(n) == [word |-> "", num |-> n, half |-> FALSE]
Half(n) == [word |-> "", num |-> n, half |-> TRUE]

\* A parameter of an operation, and an operation.
Param(name, type, required, nullable) ==
  [name |-> name, type |-> type, required |-> required, nullable |-> nullable,
   enum |-> {}, min |-> <<>>, max |-> <<>>, format |-> ""]
OpOf(mode, params, redirects) == [mode |-> mode, params |-> params, redirects |-> redirects]

Names(op) == {op.params[i].name : i \in 1 .. Len(op.params)}
ParamOf(op, name) == op.params[SelectInSeq(op.params, LAMBDA p : p.name = name)]

NotCoerced(e) == [error |-> e, type |-> "", is |-> Word("")]
Sent(type, raw) == [error |-> "none", type |-> type, is |-> raw]

-----------------------------------------------------------------------------
(* scalar.rs.  The nearest double, to even between two.                     *)
Abs(n) == IF n < 0 THEN -n ELSE n
Spacing(n) == CHOOSE s \in {1, 2, 4, 8} : Abs(n) <= s * Exact /\ (s = 1 \/ Abs(n) > (s \div 2) * Exact)
Rounded(n, s) ==
  LET below == n \div s
      rest == n % s
  IN  s * (IF 2 * rest < s \/ (2 * rest = s /\ below % 2 = 0) THEN below ELSE below + 1)
Nearest(n) == Rounded(n, Spacing(n))
Double(raw) ==
  IF raw.half /\ Abs(2 * raw.num + 1) <= Exact THEN raw
  ELSE Whole(Nearest(IF raw.half /\ raw.num % 2 # 0 THEN raw.num + 1 ELSE raw.num))

IsNumber(raw) == raw.word = ""
FitsI64(raw) == IsNumber(raw) /\ ~raw.half /\ raw.num \in -MaxInt - 1 .. MaxInt
FitsU64(raw) == IsNumber(raw) /\ ~raw.half /\ raw.num \in 0 .. 2 * MaxInt + 1

(* parse_number: exact or refused.                                          *)
ParseNumber(raw) ==
  IF FitsI64(raw) \/ FitsU64(raw) THEN Sent("integer", raw)
  ELSE IF ~IsNumber(raw) THEN NotCoerced("InvalidParamValue")
  ELSE IF Double(raw) # raw THEN NotCoerced("InexactNumber")
  ELSE Sent("double", Double(raw))

Coerce(p, raw) ==
  IF p.type = "string" THEN Sent("string", raw)
  ELSE IF p.type = "boolean" /\ raw \in {Word("true"), Word("false")} THEN Sent("boolean", raw)
  ELSE IF p.type = "integer" /\ FitsI64(raw) THEN Sent("integer", raw)
  ELSE IF p.type = "number" THEN ParseNumber(raw)
  ELSE NotCoerced("InvalidParamValue")

(* check_bounds compares doubles.                                           *)
Below(raw, bound) == raw.num < bound
Above(raw, bound) == raw.num > bound \/ (raw.half /\ raw.num = bound)
WithinBounds(p, raw) ==
  /\ p.min # <<>> => ~Below(raw, p.min[1])
  /\ p.max # <<>> => ~Above(raw, p.max[1])
Numeric == {"integer", "double"}

MeetsFacets(p, v) ==
  /\ p.enum # {} /\ v.type # "null" => v.is \in p.enum
  /\ v.type \in Numeric => WithinBounds(p, Double(v.is))
  /\ p.format = "uuid" /\ v.type = "string" => v.is = Word("uuid")

(* typed_value: clearing a field needs no type, a complex one has no        *)
(* key=value form.                                                          *)
Checked(p, v, strict) ==
  IF v.error = "none" /\ strict /\ ~MeetsFacets(p, v) THEN NotCoerced("InvalidParamValue") ELSE v

TypedValue(p, raw, strict) ==
  IF p.nullable /\ raw = Word("null") THEN Sent("null", raw)
  ELSE IF p.type = "json" THEN NotCoerced("ComplexParam")
  ELSE Checked(p, Coerce(p, raw), strict)

-----------------------------------------------------------------------------
(* body.rs                                                                  *)
NotBuilt(error) == [error |-> error, body |-> <<>>]
Given(body) == {body[i].name : i \in 1 .. Len(body)}

FirstMissing(op, body) ==
  SelectInSeq(op.params, LAMBDA p : p.required /\ p.name \notin Given(body))

WithPair(r, key, v) ==
  IF v.error # "none" THEN NotBuilt(v.error)
  ELSE [r EXCEPT !.body = Append(@, [name |-> key, value |-> v])]

Assemble(op, args, strict) ==
  LET Add(r, arg) ==
        IF r.error # "none" THEN r
        ELSE IF arg.key \notin Names(op) THEN NotBuilt("UnknownParam")
        ELSE IF arg.key \in Given(r.body) THEN NotBuilt("InvalidParamValue")
        ELSE WithPair(r, arg.key, TypedValue(ParamOf(op, arg.key), arg.is, strict))
  IN  FoldLeft(Add, [error |-> "none", body |-> <<>>], args)

Completed(op, r) ==
  LET missing == FirstMissing(op, r.body)
  IN  IF r.error # "none" \/ missing = 0 THEN r
      ELSE NotBuilt(IF op.params[missing].type = "json" THEN "MissingJson" ELSE "MissingParam")

BuildRequestBody(op, args, strict) ==
  IF op.mode = "unsupported" THEN NotBuilt("UnsupportedBodyType")
  ELSE IF op.mode = "raw only" THEN NotBuilt("UnionBody")
  ELSE Completed(op, Assemble(op, args, strict))

-----------------------------------------------------------------------------
(* What one word of the command line means (reserved.rs).  An argument that *)
(* is no pair has no key.                                                   *)
Reserved == {"list", "describe"}
Line(operation, args, body, limit) ==
  [operation |-> operation, args |-> args, help |-> FALSE, body |-> body,
   limit |-> limit, noValidate |-> FALSE, showMessage |-> FALSE]

TextOf(arg) == IF arg.key = "" THEN arg.is.word ELSE "a pair"
RequestFlags(line) ==
  line.body # "none" \/ line.limit # 0 \/ line.noValidate \/ line.showMessage

Does(what, about) == [does |-> what, about |-> about]
Local(what, about, line, allowed) ==
  IF RequestFlags(line) \/ Len(line.args) > allowed THEN Does("usage", "") ELSE Does(what, about)
Describes(name, line, table, allowed) ==
  IF name \in DOMAIN table THEN Local("describe", name, line, allowed) ELSE Does("usage", "")

HelpFor(line, table) ==
  IF line.operation \in Reserved THEN Does("help", "")
  ELSE Describes(line.operation, line, table, 0)

Dispatch(line, table) ==
  IF line.operation = "" THEN Does("help", "")
  ELSE IF line.help THEN HelpFor(line, table)
  ELSE IF line.operation = "list" THEN Local("list", "", line, 0)
  ELSE IF line.operation = "describe" THEN
         IF line.args = <<>> THEN Does("usage", "")
         ELSE Describes(TextOf(line.args[1]), line, table, 1)
  ELSE IF line.operation \notin DOMAIN table THEN Does("usage", "")
  ELSE Does("call", line.operation)

\* describe.rs: what it says of the ways to call an operation.
Description(op) ==
  [callable |-> op.mode # "unsupported", pairs |-> op.mode = "json",
   paginates |-> {"offset", "limit"} \subseteq Names(op)]

-----------------------------------------------------------------------------
(* mod.rs                                                                   *)
Paged(line, op) == line.body = "none" /\ {"offset", "limit"} \subseteq Names(op)
Pins(line) == \E i \in 1 .. Len(line.args) : line.args[i].key = "limit"

PayloadUsable(line) ==
  IF line.body = "none" THEN \A i \in 1 .. Len(line.args) : line.args[i].key # ""
  ELSE line.args = <<>> /\ line.body = "json"

LimitUsable(line, op) ==
  line.limit # 0 => Paged(line, op) /\ ~Pins(line)

StartOffsetUsable(line) ==
  LET at == SelectInSeq(line.args, LAMBDA a : a.key = "offset")
  IN  at # 0 => FitsU64(line.args[at].is)

ErrorDetail(line) == IF line.body # "none" /\ ~line.showMessage THEN "code only" ELSE "full"

\* suggests_raw_body
RawBodyHelps == {"ComplexParam", "UnionBody", "InexactNumber", "MissingJson"}
HintFor(error) ==
  IF error = "UnsupportedBodyType" THEN "dedicated command"
  ELSE IF error \in RawBodyHelps THEN "raw body"
  ELSE "none"

Unsent(error) == [error |-> error, hint |-> HintFor(error), how |-> "unsent", body |-> <<>>, cap |-> 0]
Request(how, body, cap) == [error |-> "none", hint |-> "none", how |-> how, body |-> body, cap |-> cap]

\* execute_raw: the bytes of the file, once.
ExecuteRaw(op) ==
  IF op.mode = "unsupported" THEN Unsent("UnsupportedBodyType") ELSE Request("verbatim", <<>>, 0)

\* execute, execute_paged, execute_redirect_location
SendFor(line, op, r) ==
  IF r.error # "none" THEN Unsent(r.error)
  ELSE IF Paged(line, op) /\ ~Pins(line) THEN Request("every page", r.body, line.limit)
  ELSE IF Paged(line, op) \/ ~op.redirects THEN Request("once", r.body, 0)
  ELSE Request("for its address", r.body, 0)

Execute(line, op) ==
  IF Paged(line, op) /\ ~StartOffsetUsable(line) THEN Unsent("InvalidParamValue")
  ELSE SendFor(line, op, BuildRequestBody(op, line.args, ~line.noValidate))

CallOperation(line, op) ==
  IF ~PayloadUsable(line) \/ ~LimitUsable(line, op) THEN Unsent("usage")
  ELSE IF line.body # "none" THEN ExecuteRaw(op)
  ELSE Execute(line, op)

-----------------------------------------------------------------------------
(* An error of the server: its fields hold nothing, something that is no    *)
(* text, a code, prose, or a code with a credential of the request in it.   *)
Items == {"nothing", "no text", "code", "prose", "credential"}
Answers == [error : Items, code : Items, message : Items, parsed : BOOLEAN]
Redacted(item) == IF item \in {"credential", "no text"} THEN "nothing" ELSE item
Or(a, b) == IF a # "nothing" THEN a ELSE b

WithheldParts(answer) ==
  LET named == IF answer.parsed THEN Or(answer.error, answer.code) ELSE "nothing"
  IN  [code |-> IF named = "code" THEN Redacted(named) ELSE "nothing", message |-> "nothing"]

\* The message, or else the error in its place; what was not JSON is prose.
SurfacedParts(answer) ==
  IF answer.parsed
  THEN [code |-> Redacted(answer.error), message |-> Redacted(Or(answer.message, answer.error))]
  ELSE [code |-> "nothing", message |-> "prose"]

ExtractErrorParts(answer, detail) ==
  IF detail = "code only" THEN WithheldParts(answer) ELSE SurfacedParts(answer)

-----------------------------------------------------------------------------
(* An answer given here uses all of the question: help on one operation or  *)
(* its description leaves no argument and no flag aside.                    *)
AnswersUseTheLine(line, d) ==
  d.does = "describe" =>
    /\ ~RequestFlags(line)
    /\ d.about = IF line.help THEN line.operation ELSE TextOf(line.args[1])
    /\ Len(line.args) = IF line.help THEN 0 ELSE 1

\* A value of the declared type, within the declared facets as they are written.
Conforms(p, v, strict) ==
  /\ IF v.type = "null" THEN p.nullable
     ELSE IF v.type = "double" THEN p.type = "number"
     ELSE IF v.type = "integer" THEN p.type = "number" \/ (p.type = "integer" /\ FitsI64(v.is))
     ELSE v.type = p.type
  /\ strict /\ v.type # "null" =>
       /\ p.enum # {} => v.is \in p.enum
       /\ v.type \in Numeric /\ Double(v.is) = v.is => WithinBounds(p, v.is)

(* A request says what the line says: every pair is in it once, with the    *)
(* value that was typed and nothing rounded, every required parameter is    *)
(* there, and a cap on the rows is never dropped in silence.  Bounds hold   *)
(* for the values a double can tell apart.                                  *)
RequestSaysTheLine(line, op, r) ==
  /\ r.how \in {"once", "every page", "for its address"} =>
       /\ Len(r.body) = Len(line.args)
       /\ \A i \in 1 .. Len(line.args) :
            /\ r.body[i].name = line.args[i].key /\ r.body[i].value.is = line.args[i].is
            /\ Conforms(ParamOf(op, r.body[i].name), r.body[i].value, ~line.noValidate)
            /\ \A j \in 1 .. i - 1 : r.body[j].name # r.body[i].name
       /\ \A i \in 1 .. Len(op.params) : op.params[i].required => op.params[i].name \in Given(r.body)
  /\ r.how # "unsent" /\ line.limit # 0 => r.how = "every page" /\ r.cap = line.limit

(* The way out an error offers is one: with the body in a file instead, the *)
(* call is made.                                                            *)
HintLeadsOn(line, op, r) ==
  r.hint = "raw body" =>
    CallOperation([line EXCEPT !.args = <<>>, !.body = "json", !.limit = 0], op).how = "verbatim"

(* A description keeps its word: a call that is well formed is refused for  *)
(* its kind exactly when the description says there is no such way to call, *)
(* and one for rows is paged exactly when it says so.                       *)
DescriptionHolds(line, op, r) ==
  LET d == Description(op)
      way == IF line.body = "none" THEN d.pairs ELSE d.callable
  IN  /\ r.error \in {"UnsupportedBodyType", "UnionBody"} => ~way
      /\ r.how # "unsent" => way
      /\ line.limit # 0 /\ r.how # "unsent" => d.paginates
      /\ r.how = "once" /\ d.paginates => Pins(line)

(* Prose of the server may repeat a body the program has not read, so it is *)
(* not shown unless that was asked for, and a credential never is.          *)
ProseIsWithheld(line) ==
  \A answer \in Answers :
    LET shown == ExtractErrorParts(answer, ErrorDetail(line))
    IN  /\ line.body # "none" /\ ~line.showMessage => "prose" \notin {shown.code, shown.message}
        /\ "credential" \notin {shown.code, shown.message}

CallKeepsFaith(line, op, r) ==
  RequestSaysTheLine(line, op, r) /\ HintLeadsOn(line, op, r) /\ DescriptionHolds(line, op, r)

AnswerKeepsFaith(line, table, d) ==
  /\ AnswersUseTheLine(line, d)
  /\ d.does = "call" =>
       CallKeepsFaith(line, table[d.about], CallOperation(line, table[d.about])) /\ ProseIsWithheld(line)

CallSaysTheLine(line, table) == AnswerKeepsFaith(line, table, Dispatch(line, table))
=============================================================================

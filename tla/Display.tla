--------------------------------- MODULE Display ---------------------------------
(***************************************************************************)
(* What a person sees (pager.rs, stdio.rs, render.rs): a document is       *)
(* written to standard output as it is, or prepared for a terminal and fed *)
(* to a pager, a process of its own that may fail to start, be quit in the *)
(* middle or fail; and a list is a table, whose columns are chosen by the  *)
(* schema of the operation as far as the rows carry them.                  *)
(*                                                                         *)
(* A text is a sequence of classes of characters: one column wide, two, or *)
(* none and joined to the one before ("mark", "joiner"), and those that    *)
(* must not reach a terminal.                                              *)
(***************************************************************************)
EXTENDS Integers, Sequences, SequencesExt, FiniteSetsExt, Filters

CONSTANTS
  ShownTexts,      \* the documents shown
  Screens,         \* terminal sizes: [columns, rows]
  TabWidth,        \* TAB_WIDTH
  PipeSize,        \* characters a pipe holds
  MaxColumns,      \* MAX_TABLE_COLUMNS
  MaxCellWidth,    \* MAX_CELL_WIDTH
  MaxCellClusters, \* MAX_CELL_CLUSTERS
  MaxCellChars     \* MAX_CELL_CHARS

Characters ==
  {"letter", "wide", "mark", "joiner", "space", "tab", "newline", "return", "control",
   "direction", "invisible", "replacement", "ellipsis"}

ASSUME ShowAssumption ==
  /\ ShownTexts \subseteq Seq(Characters)
  /\ TabWidth \in Nat \ {0} /\ PipeSize \in Nat /\ MaxColumns \in Nat \ {0}
  /\ MaxCellWidth \in Nat \ {0} /\ MaxCellClusters \in Nat \ {0} /\ MaxCellChars \in Nat

VARIABLES
  show,    \* the command: its stage, what it shows and how, how it ended
  pager,   \* the pager: whether it runs, how it ended
  pipe,    \* characters sent and not read
  printed  \* what was written to standard output

showVars == <<show, pager, pipe, printed>>

-----------------------------------------------------------------------------
Width(c) ==
  IF c \in {"letter", "space", "replacement", "ellipsis"} THEN 1
  ELSE IF c = "wide" THEN 2
  ELSE 0
\* display_columns
Columns(text) ==
  LET Before[i \in 0 .. Len(text)] == IF i = 0 THEN 0 ELSE Before[i - 1] + Width(text[i])
  IN  Before[Len(text)]

Lines(text) ==
  LET Take(ls, c) ==
        IF c = "newline" THEN Append(ls, <<>>) ELSE [ls EXCEPT ![Len(ls)] = Append(@, c)]
      split == FoldLeft(Take, <<(<<>>)>>, text)
  IN  IF Last(split) = <<>> THEN Front(split) ELSE split

(* for_display: no control character but the newline, tabs as the spaces to *)
(* the next stop of the line, and a newline at the end.                     *)
LineStart(out) ==
  LET ends == {0} \cup {i \in 1 .. Len(out) : out[i] = "newline"}
  IN  CHOOSE i \in ends : \A j \in ends : j <= i
Column(out) == Columns(SubSeq(out, LineStart(out) + 1, Len(out)))
PutForDisplay(out, c) ==
  IF c = "return" THEN out
  ELSE IF c = "tab" THEN out \o [i \in 1 .. TabWidth - (Column(out) % TabWidth) |-> "space"]
  ELSE IF c = "control" THEN Append(out, "replacement")
  ELSE Append(out, c)
ForDisplay(text) ==
  LET Put[i \in 0 .. Len(text)] == IF i = 0 THEN <<>> ELSE PutForDisplay(Put[i - 1], text[i])
      out == Put[Len(text)]
  IN  IF out = <<>> \/ Last(out) = "newline" THEN out ELSE Append(out, "newline")

\* wrapped_rows: an empty line is a row too.
WrappedRows(line, columns) ==
  Max({1, (Columns(line) + columns - 1) \div columns})

(* exceeds_screen: one row is for the prompt.                               *)
ExceedsScreen(text, screen) ==
  LET lines == Lines(text)
  IN  FoldLeft(LAMBDA n, line : n + WrappedRows(line, screen.columns), 0, lines) > screen.rows - 1

-----------------------------------------------------------------------------
ShowStages == {"idle", "print", "spawn", "feed", "wait", "done"}
Ends == {"none", "success", "failure"}

ShowTypeOK ==
  /\ show.stage \in ShowStages /\ show.exit \in Ends
  /\ show.sent \in 0 .. Len(ForDisplay(show.text))
  /\ pager.state \in {"none", "running", "quit", "failed"}
  /\ pager.read \in 0 .. show.sent
  /\ pipe \in 0 .. PipeSize /\ pipe <= show.sent
  /\ printed.what \in {"nothing", "verbatim", "display"}
  /\ printed.whole \in BOOLEAN

ShowInit ==
  /\ show = [stage |-> "idle", text |-> <<>>, interactive |-> FALSE,
             sent |-> 0, exit |-> "none", warned |-> FALSE]
  /\ pager = [state |-> "none", read |-> 0] /\ pipe = 0
  /\ printed = [what |-> "nothing", whole |-> FALSE]

(* pager::write: a pipe gets the bytes, and a screen that is long enough,   *)
(* or a user without a pager (`named`: PAGER is not blank), the display.    *)
Show(text, screen, interactive, named) ==
  /\ show.stage = "idle"
  /\ show' = [show EXCEPT !.text = text, !.interactive = interactive, !.stage =
       IF interactive /\ named /\ ExceedsScreen(ForDisplay(text), screen)
       THEN "spawn" ELSE "print"]
  /\ UNCHANGED <<pager, pipe, printed>>

(* write_data: whole, cut short because nobody reads any more, or failed.   *)
WriteData(outcome) ==
  /\ show.stage = "print"
  /\ printed' = [what |-> IF show.interactive THEN "display" ELSE "verbatim",
                 whole |-> outcome = "whole"]
  /\ show' = [show EXCEPT !.stage = "done",
                          !.exit = IF outcome = "error" THEN "failure" ELSE "success"]
  /\ UNCHANGED <<pager, pipe>>

FallBack == show' = [show EXCEPT !.stage = "print", !.warned = TRUE]

\* run: the pager with a pipe as its input, and no shell.
Spawn(started) ==
  /\ show.stage = "spawn"
  /\ IF started
     THEN /\ show' = [show EXCEPT !.stage = "feed"]
          /\ pager' = [pager EXCEPT !.state = "running"]
     ELSE FallBack /\ UNCHANGED pager
  /\ UNCHANGED <<pipe, printed>>

(* write_all: until everything is sent or the pager has gone; the pipe is   *)
(* closed before the command waits.                                         *)
Feed ==
  /\ show.stage = "feed"
  /\ IF pager.state # "running" \/ show.sent = Len(ForDisplay(show.text))
     THEN show' = [show EXCEPT !.stage = "wait"] /\ UNCHANGED pipe
     ELSE /\ pipe < PipeSize
          /\ pipe' = pipe + 1
          /\ show' = [show EXCEPT !.sent = @ + 1]
  /\ UNCHANGED <<pager, printed>>

\* The verdict is the exit status, not how much was sent.
Wait_BySent ==
  /\ show.stage = "wait" /\ pager.state # "running"
  /\ IF pager.state = "quit" \/ show.sent = Len(ForDisplay(show.text))
     THEN show' = [show EXCEPT !.stage = "done", !.exit = "success"]
     ELSE FallBack
  /\ UNCHANGED <<pager, pipe, printed>>

Wait ==
  /\ show.stage = "wait" /\ pager.state # "running"
  /\ IF pager.state = "quit"
     THEN show' = [show EXCEPT !.stage = "done", !.exit = "success"]
     ELSE FallBack
  /\ UNCHANGED <<pager, pipe, printed>>

(* External: the pager reads, and ends, whenever it likes; the end of its   *)
(* input is what makes it end by itself.                                    *)
PagerReads ==
  /\ pager.state = "running" /\ pipe > 0
  /\ pipe' = pipe - 1 /\ pager' = [pager EXCEPT !.read = @ + 1]
  /\ UNCHANGED <<show, printed>>
PagerEnds(state) ==
  /\ pager.state = "running"
  /\ pager' = [pager EXCEPT !.state = state]
  /\ UNCHANGED <<show, pipe, printed>>

ShowNext ==
  \/ \E text \in ShownTexts, screen \in Screens, interactive, named \in BOOLEAN :
       Show(text, screen, interactive, named)
  \/ Feed \/ Wait \/ PagerReads
  \/ \E started \in BOOLEAN : Spawn(started)
  \/ \E outcome \in {"whole", "unread", "error"} : WriteData(outcome)
  \/ \E state \in {"quit", "failed"} : PagerEnds(state)

ShowSpec == ShowInit /\ [][ShowNext]_showVars

(* No document is lost behind an exit of 0: either a pager that says it did *)
(* its work ran, or standard output got the text, whole unless its reader   *)
(* left; a text is shown twice only with a warning, after a pager that      *)
(* failed; and what is not for a person is written as it is, never paged.   *)
DocumentIsShown ==
  /\ show.exit = "success" /\ pager.state # "quit" => printed.what # "nothing"
  /\ show.exit = "failure" => ~printed.whole
  /\ pager.state = "quit" => printed.what = "nothing"
  /\ ~show.interactive => pager.state = "none" /\ printed.what # "display"
  /\ printed.what = "display" /\ pager.state = "failed" => show.warned

-----------------------------------------------------------------------------
(* Tables.  A cell is the text of a value, <<>> for one that is absent or   *)
(* null; `nested` holds the columns with an object or array in some row.    *)

(* clean_char: a control character is a space, a direction a mark, and what *)
(* takes no column and joins nothing is dropped.                            *)
CleanChar(c) ==
  IF c \in {"control", "tab", "newline", "return"} THEN <<"space">>
  ELSE IF c = "direction" THEN <<"replacement">>
  ELSE IF c = "invisible" THEN <<>>
  ELSE <<c>>

\* A text with each of its characters cleaned.
Cleaned(text) ==
  LET cleaned == [i \in 1 .. Len(text) |-> CleanChar(text[i])]
      left == Picked(cleaned, {i \in 1 .. Len(text) : cleaned[i] # <<>>})
  IN  [k \in 1 .. Len(left) |-> left[k][1]]

\* Grapheme clusters: a mark or joiner belongs to what it follows.
ClusterEnds(text) ==
  {i \in 1 .. Len(text) : i = Len(text) \/ text[i + 1] \notin {"mark", "joiner"}}
Clusters(text) ==
  LET ends == Ascending(ClusterEnds(text))
  IN  [k \in 1 .. Len(ends) |-> SubSeq(text, IF k = 1 THEN 1 ELSE ends[k - 1] + 1, ends[k])]

\* fits_cell
FitsCell(text) ==
  Columns(text) <= MaxCellWidth /\ Len(Clusters(text)) <= MaxCellClusters /\ Len(text) <= MaxCellChars

(* sanitize_cell: whole clusters up to the first limit, and the ellipsis.   *)
KeepsOfCell(clean) ==
  LET ends == ClusterEnds(clean)
  IN  {n \in {0} \cup ends :
         /\ Columns(SubSeq(clean, 1, n)) <= MaxCellWidth - Width("ellipsis")
         /\ Cardinality({i \in ends : i <= n}) < MaxCellClusters
         /\ n <= MaxCellChars}
SanitizeCell(text) ==
  LET clean == Cleaned(text)
  IN  IF FitsCell(clean) THEN clean
      ELSE Append(SubSeq(clean, 1, Max(KeepsOfCell(clean))), "ellipsis")

(* has_content: something of the cell can be seen.                          *)
HasContent(text) ==
  \E i \in 1 .. Len(Clusters(Cleaned(text))) :
    LET cluster == Clusters(Cleaned(text))[i]
    IN  Columns(cluster) > 0 /\ \E j \in 1 .. Len(cluster) : cluster[j] # "space"

\* The schema of a field: its name, format, and whether it is a single value,
\* nullable, read only, and a string.
Earliest(S) == IF S = {} THEN {} ELSE {Min(S)}

(* rank_schema_columns: the identity, the label, then timestamps, the rest  *)
(* that cannot be null, and the nullable, each in the order of the schema.  *)
EarliestOf(preferred, others) == Earliest(IF preferred # {} THEN preferred ELSE others)
Identity(schema, scalars) ==
  EarliestOf({i \in scalars : schema[i].format = "uuid" /\ ~schema[i].nullable},
             {i \in scalars : schema[i].name = "id"})
Label(schema, others) ==
  LET labels == {i \in others : schema[i].string /\ schema[i].format = "" /\ ~schema[i].nullable}
  IN  EarliestOf({i \in labels : ~schema[i].readOnly}, labels)
RankedBy(schema, identity, label, rest) ==
  LET nullable == {i \in rest : schema[i].nullable}
      stamps == {i \in rest \ nullable : schema[i].format = "date-time"}
  IN  Ascending(identity) \o Ascending(label) \o Ascending(stamps)
        \o Ascending(rest \ (nullable \cup stamps)) \o Ascending(nullable)
RankWith(schema, scalars, identity, label) ==
  RankedBy(schema, identity, label, scalars \ (identity \cup label))
RankFrom(schema, scalars, identity) ==
  RankWith(schema, scalars, identity, Label(schema, scalars \ identity))
RankScalars(schema, scalars) == RankFrom(schema, scalars, Identity(schema, scalars))
NamesIn(schema, order) == [i \in 1 .. Len(order) |-> schema[order[i]].name]
RankSchemaColumns(schema) ==
  NamesIn(schema, RankScalars(schema, {i \in 1 .. Len(schema) : schema[i].scalar}))

(* Rows are objects of values, and the fields of a schema each have a name. *)
IsRows(rows) ==
  /\ rows \in Seq(Range(rows))
  /\ \A i \in 1 .. Len(rows) : /\ IsFiniteSet(DOMAIN rows[i])
                                /\ \A k \in DOMAIN rows[i] : rows[i][k] \in Seq(Characters)
IsRowSchema(schema) ==
  /\ schema \in Seq(Range(schema))
  /\ \A i, j \in 1 .. Len(schema) : schema[i].name = schema[j].name => i = j
Carried(rows, key) == \E i \in 1 .. Len(rows) : key \in DOMAIN rows[i] /\ HasContent(rows[i][key])

Leading(columns) == SubSeq(columns, 1, IF MaxColumns < Len(columns) THEN MaxColumns ELSE Len(columns))

\* key_priority: the identity, the title, other values, and other identities.
KeyPriority(key) ==
  IF key = "id" THEN 0 ELSE IF key = "title" THEN 1 ELSE IF key = "aId" THEN 6 ELSE 5

(* select_data_columns: for rows no schema describes, by priority, and those *)
(* of one priority in an order that is that of no row.                      *)
CarriedKeys(rows, nested) ==
  {k \in UNION {DOMAIN rows[i] : i \in 1 .. Len(rows)} : k \notin nested /\ Carried(rows, k)}
ByPriority(keys) ==
  LET Of(priority) == SetToSeq({k \in keys : KeyPriority(k) = priority})
  IN  Of(0) \o Of(1) \o Of(5) \o Of(6)
SelectDataColumns(rows, nested) == Leading(ByPriority(CarriedKeys(rows, nested)))

\* select_columns
SchemaColumns(rows, schema) ==
  LET ranked == RankSchemaColumns(schema)
  IN  Picked(ranked, {i \in 1 .. Len(ranked) : Carried(rows, ranked[i])})
SelectColumns(rows, schema, nested) ==
  IF SchemaColumns(rows, schema) = <<>> THEN SelectDataColumns(rows, nested)
  ELSE Leading(SchemaColumns(rows, schema))

\* What a cell may consist of.
CellCharacters == {"letter", "wide", "mark", "joiner", "space", "replacement", "ellipsis"}

(* A cell is within every limit, with nothing in it that a terminal obeys.  *)
(* The ellipsis counts for the width and the clusters, but not for the      *)
(* characters.                                                              *)
CellIsSafe(cell) ==
  /\ Columns(cell) <= MaxCellWidth /\ Len(Clusters(cell)) <= MaxCellClusters
  /\ Len(cell) <= MaxCellChars \/ (Len(cell) = MaxCellChars + 1 /\ cell[Len(cell)] = "ellipsis")
  /\ Range(cell) \subseteq CellCharacters

(* A table shows what there is: no column is blank in every row, none is    *)
(* repeated, the order of the rows changes nothing, some column is shown if *)
(* any value can be seen, and every cell is safe.                           *)
TableTells(rows, schema, nested) ==
  LET Cell(i, k) == IF k \in DOMAIN rows[i] THEN SanitizeCell(rows[i][k]) ELSE <<>>
  IN  \A columns \in {SelectColumns(rows, schema, nested)} :
      /\ Len(columns) <= MaxColumns /\ IsInjective(columns)
      /\ columns = SelectColumns(Reverse(rows), schema, nested)
      /\ \A k \in Range(columns) :
           \E i \in 1 .. Len(rows) : HasContent(Cell(i, k))
      /\ columns = <<>> =>
           \A i \in 1 .. Len(rows) :
             \A k \in DOMAIN rows[i] \ nested : ~HasContent(rows[i][k])
      /\ \A i \in 1 .. Len(rows), k \in Range(columns) : CellIsSafe(Cell(i, k))
=============================================================================

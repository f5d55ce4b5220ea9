-------------------------------- MODULE Markdown --------------------------------
(***************************************************************************)
(* The body of a document as docs update sees it: the sections its headings*)
(* own, the address that names one, the anchor a change to it is sent with *)
(* (commands/docs/section/), and the block of metadata in front of an      *)
(* exported file (frontmatter.rs).  Pure: no state.                        *)
(*                                                                         *)
(* A body is a sequence of lines <<kind, level, text>>.  A title is a      *)
(* number, and t and t + Upper are one title in two cases; the level of a  *)
(* segment of an address is 0 when it is not pinned.                       *)
(***************************************************************************)
EXTENDS Integers, Sequences, FiniteSets, SequencesExt, Filters

CONSTANT MaxWidening    \* MAX_WIDENING_STEPS

ASSUME MarkdownAssumption == MaxWidening \in Nat

Upper == 100
LowerCase(t) == t % Upper

Text(t) == <<"text", 0, t>>
Blank == Text(0)
Heading(level, title) == <<"heading", level, title>>
Fence == <<"fence", 0, 0>>
Rule == <<"rule", 0, 0>>
Entry(key, value) == <<key, 0, value>>
IdKeys == {"outline_id:", "outline_url_id:"}
EntryKeys == IdKeys \cup {"revision:", "title:"}
BodyLines == ({"text", "heading", "fence", "rule"} \cup EntryKeys) \X Nat \X Nat

IsBlank(body) == \A i \in 1 .. Len(body) : body[i] = Blank

-----------------------------------------------------------------------------
(* headings: the lines that are one, outside code fences.                   *)
Headings(body) ==
  {i \in 1 .. Len(body) :
     /\ body[i][1] = "heading"
     /\ Cardinality({j \in 1 .. i - 1 : body[j] = Fence}) % 2 = 0}

(* close_sections: a section runs to the next heading at its level or above.*)
End(body, i) ==
  LET next == {j \in Headings(body) : j > i /\ body[j][2] <= body[i][2]}
  IN  IF next = {} THEN Len(body) + 1 ELSE CHOOSE j \in next : \A k \in next : j <= k

\* The headings around line i and the one at i, outermost first.
Around(body, i) == {j \in Headings(body) : j <= i /\ i < End(body, j)}
Chain(body, i) == Ascending(Around(body, i))

Same(a, b, foldCase) == IF foldCase THEN LowerCase(a) = LowerCase(b) ELSE a = b

\* matches: the end of the chain is the address.
Matches(body, i, address, foldCase) ==
  LET chain == Chain(body, i)
      skip == Len(chain) - Len(address)
  IN  /\ skip >= 0
      /\ \A k \in 1 .. Len(address) :
           LET line == body[chain[skip + k]]
           IN  /\ address[k].level \in {0, line[2]}
               /\ Same(address[k].title, line[3], foldCase)

Hits(body, address, foldCase) ==
  IF address = <<>> THEN {}
  ELSE {i \in Headings(body) : Matches(body, i, address, foldCase)}

(* resolve: the headings the address may mean; it is accepted when there is *)
(* one.  Case counts unless nothing matches with it.                        *)
Resolve(body, address) ==
  LET exact == Hits(body, address, FALSE)
  IN  IF exact # {} THEN exact ELSE Hits(body, address, TRUE)

-----------------------------------------------------------------------------
Occurrences(body, anchor) ==
  {i \in 1 .. Len(body) - Len(anchor) + 1 : SubSeq(body, i, i + Len(anchor) - 1) = anchor}

(* Lines low .. high - 1 after k steps of widening: backwards while there is*)
(* a line, then forwards.                                                   *)
Widened(body, i, k) ==
  LET back == IF k < i THEN k ELSE i - 1
  IN  [low |-> i - back, high |-> End(body, i) + (k - back)]

IsUnique(body, range) ==
  Cardinality(Occurrences(body, SubSeq(body, range.low, range.high - 1))) = 1

Widenings(body, i) ==
  {k \in 0 .. MaxWidening :
     LET range == Widened(body, i, k)
     IN  /\ range.high <= Len(body) + 1
         /\ range.high - range.low < Len(body)
         /\ IsUnique(body, range)}

(* edit: the change of section i into new, as an anchor and its replacement;*)
(* without a unique anchor short of the document, as a whole body.          *)
EditOf(body, i, new) ==
  LET before == SubSeq(body, 1, i - 1)
      after == SubSeq(body, End(body, i), Len(body))
      steps == Widenings(body, i)
      range == Widened(body, i, CHOOSE k \in steps : \A j \in steps : k <= j)
  IN  IF steps = {}
      THEN [mode |-> "replace", find |-> <<>>, text |-> before \o new \o after]
      ELSE [mode |-> "patch",
            find |-> SubSeq(body, range.low, range.high - 1),
            text |-> SubSeq(body, range.low, i - 1) \o new
                     \o SubSeq(body, End(body, i), range.high - 1)]

\* The blank lines at the end of a text, and the text without them.
Trailing(text) ==
  CHOOSE n \in 0 .. Len(text) :
    /\ IsBlank(SubSeq(text, Len(text) - n + 1, Len(text)))
    /\ n < Len(text) => text[Len(text) - n] # Blank
Trimmed(text) == SubSeq(text, 1, Len(text) - Trailing(text))

(* replace: the separation after the old section is kept.                   *)
SectionText(body, i) == SubSeq(body, i, End(body, i) - 1)
NewSection(body, i, new) ==
  Trimmed(new) \o [k \in 1 .. Trailing(SectionText(body, i)) |-> Blank]

\* What the server makes of an edit, at an anchor it finds.
Applied(body, edit, at) ==
  SubSeq(body, 1, at - 1) \o edit.text
    \o SubSeq(body, at + Len(edit.find), Len(body))

-----------------------------------------------------------------------------
(* block: the fields of a document that are there; 0 stands for none.       *)
EntryIfAny(key, value) == IF value = 0 THEN <<>> ELSE <<Entry(key, value)>>
Block(document) ==
  LET fields == EntryIfAny("outline_id:", document.id)
                \o EntryIfAny("outline_url_id:", document.urlId)
                \o EntryIfAny("title:", document.title)
                \o EntryIfAny("revision:", document.revision)
  IN  IF fields = <<>> THEN <<>> ELSE <<Rule>> \o fields \o <<Rule>>

NoFront == [id |-> 0, urlId |-> 0, revision |-> 0]

\* The last value a key is given; an id key without one names nothing.
ValueOf(lines, key) ==
  LET given == {k \in 1 .. Len(lines) : lines[k][1] = key}
  IN  IF given = {} THEN 0 ELSE lines[CHOOSE k \in given : \A j \in given : j <= k][3]

Closings(text) == {k \in 2 .. Len(text) : text[k] = Rule}

\* An id key, even one without a value, makes a block the program's own.
Identified(lines) == \E k \in 1 .. Len(lines) : lines[k][1] \in IdKeys

(* split: the block between two fences, every line of it an entry or blank  *)
(* and one of them an id key; the blank line after it goes with it.         *)
Split(text) ==
  LET closing == CHOOSE k \in Closings(text) : \A j \in Closings(text) : k <= j
      lines == SubSeq(text, 2, closing - 1)
      body == SubSeq(text, closing + 1, Len(text))
  IN  IF /\ text # <<>>
         /\ text[1] = Rule
         /\ Closings(text) # {}
         /\ \A k \in 1 .. Len(lines) : lines[k][1] \in EntryKeys \/ lines[k] = Blank
         /\ Identified(lines)
      THEN [front |-> [id |-> ValueOf(lines, "outline_id:"),
                       urlId |-> ValueOf(lines, "outline_url_id:"),
                       revision |-> ValueOf(lines, "revision:")],
            found |-> TRUE,
            body |-> IF body # <<>> /\ body[1] = Blank THEN Tail(body) ELSE body]
      ELSE [front |-> NoFront, found |-> FALSE, body |-> text]
=============================================================================

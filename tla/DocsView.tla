--------------------------------- MODULE DocsView ---------------------------------
(***************************************************************************)
(* docs view (commands/docs/view.rs, section/): the outline of a document, *)
(* the addresses it prints, and the section that an address prints, which  *)
(* is what docs update takes back.  Pure: no state.                        *)
(*                                                                         *)
(* A title is printed as it is, and an address is read by its separators.  *)
(* So a title may hold a separator, which reads as two titles, begin with  *)
(* a hash, which reads as a level, or be empty, which reads as none.       *)
(***************************************************************************)
EXTENDS Markdown

CONSTANT Joined  \* the titles that hold a separator, or nothing, and the titles each reads as

ASSUME DocsViewAssumption == \A t \in DOMAIN Joined : Joined[t] \in Seq(Nat) /\ t \notin Range(Joined[t])

Hashed == 50
Unhashed(t) == IF t \div Hashed % 2 = 1 THEN t - Hashed ELSE t
SegmentOf(t) == [level |-> IF Unhashed(t) = t THEN 0 ELSE 1, title |-> Unhashed(t)]

\* parse_address of what path prints of one title.
ReadBack(t) ==
  IF t \in DOMAIN Joined THEN [k \in 1 .. Len(Joined[t]) |-> SegmentOf(Joined[t][k])]
  ELSE <<SegmentOf(t)>>

\* path: the titles around a heading and its own.
PathOf(body, i) == [k \in 1 .. Len(Chain(body, i)) |-> body[Chain(body, i)[k]][3]]
ReadAddress(path) == FlattenSeq([k \in 1 .. Len(path) |-> ReadBack(path[k])])

\* print_outline: one entry for each heading, in order.
Outline(body) ==
  [k \in 1 .. Cardinality(Headings(body)) |->
     LET i == Ascending(Headings(body))[k]
     IN  [line |-> i, path |-> PathOf(body, i), size |-> End(body, i) - i]]

\* print_section: the section that an address names, if it names one.
PrintFound(body, found) ==
  IF Cardinality(found) = 1 THEN <<SectionText(body, CHOOSE i \in found : TRUE)>> ELSE <<>>
PrintSection(body, address) == PrintFound(body, Resolve(body, address))

\* docs update with the text of a section that an address names.
Made(body, edit) ==
  IF edit.mode = "replace" THEN edit.text
  ELSE Applied(body, edit, CHOOSE at \in Occurrences(body, edit.find) : TRUE)
GivenBackAt(body, i, text) == Made(body, EditOf(body, i, NewSection(body, i, text)))
GivenBack(body, address, text) ==
  GivenBackAt(body, CHOOSE j \in Resolve(body, address) : TRUE, text)

PlainPath(path) == \A k \in 1 .. Len(path) : ReadBack(path[k]) = <<[level |-> 0, title |-> path[k]]>>

(* parse.rs:46 says of an address that it resolves to exactly its heading,   *)
(* and view.rs:88 that it is the one to hand back.  What is kept of that: an*)
(* address of titles that read as themselves prints the section it stands   *)
(* at, and is refused just when another section ends in the same titles.    *)
(* An address with a title that reads as something else may name another    *)
(* section or none, which is the exception; the test of every path, in      *)
(* address.rs:241-248, tries none of those.  Whatever is printed, sections  *)
(* overlap only as a deeper one lies in another, and a section given back as*)
(* it is changes nothing, whichever anchor it takes.                        *)
AddressIsUsable(body, entry, address, printed) ==
  /\ PlainPath(entry.path) =>
       /\ entry.line \in Resolve(body, address)
       /\ printed = IF Resolve(body, address) = {entry.line}
                    THEN <<SubSeq(body, entry.line, entry.line + entry.size - 1)>> ELSE <<>>
  /\ printed # <<>> => GivenBack(body, address, printed[1]) = body
OutlineIsUsable(body) ==
  \A outline \in {Outline(body)} :
    /\ \A k \in 1 .. Len(outline) : \A address \in {ReadAddress(outline[k].path)} :
         AddressIsUsable(body, outline[k], address, PrintSection(body, address))
    /\ \A j, k \in 1 .. Len(outline) : j < k =>
         LET end == outline[j].line + outline[j].size
         IN  \/ outline[k].line >= end
             \/ /\ outline[k].line + outline[k].size <= end
                /\ body[outline[k].line][2] > body[outline[j].line][2]
=============================================================================

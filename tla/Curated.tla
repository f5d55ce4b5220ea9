--------------------------------- MODULE Curated ---------------------------------
(***************************************************************************)
(* The lists and the comments (commands/collections.rs, comments.rs,       *)
(* users.rs, session.rs): which rows of a fetch are shown and how the      *)
(* command ends, how many documents a collection is said to have, and the  *)
(* two requests of one `comments update`.  Pure: no state.                 *)
(***************************************************************************)
EXTENDS Naturals, Sequences, FiniteSets, SequencesExt, Filters

CONSTANT MaxCountedNodes  \* MAX_COUNTED_NODES

ASSUME CuratedAssumption == MaxCountedNodes \in Nat \ {0}

-----------------------------------------------------------------------------
(* session.rs: a fetch is cut by the caller's own limit or by one of the     *)
(* program's.  Only the second leaves the command's promise unkept.         *)
Cuts == {"none", "MaxItems", "PageLimit", "OffsetSpaceExhausted"}
Incomplete_ButAtTheEnd(cut) == cut \notin {"none", "MaxItems", "OffsetSpaceExhausted"}

Incomplete(cut) == cut \notin {"none", "MaxItems"}
ListExit(cut, shown) == IF ~shown THEN "failure" ELSE IF Incomplete(cut) THEN "partial" ELSE "ok"

(* comments.rs: what the instance may ignore is filtered again.             *)
Keeps(comment, args) ==
  /\ args.parent = 0 \/ comment.parent = args.parent
  /\ args.status = "any" \/ comment.resolved = (args.status = "resolved")
DroppedBy(comments, args) ==
  [parent |-> \E i \in 1 .. Len(comments) : args.parent # 0 /\ comments[i].parent # args.parent,
   status |-> \E i \in 1 .. Len(comments) :
                /\ args.parent = 0 \/ comments[i].parent = args.parent
                /\ ~Keeps(comments[i], args)]

\* The note names the filters that dropped something, and how many are left.
ListComments(comments, cut, args, shows) ==
  LET kept == Picked(comments, {i \in 1 .. Len(comments) : Keeps(comments[i], args)})
      dropped == DroppedBy(comments, args)
  IN  [rows |-> IF shows THEN kept ELSE <<>>,
       note |-> IF dropped.parent \/ dropped.status
                THEN <<Len(kept), Len(comments), dropped>> ELSE <<>>,
       warned |-> cut # "none",
       exit |-> ListExit(cut, shows)]

-----------------------------------------------------------------------------
(* comments.rs update.  A request is done, refused, or its answer is lost.   *)
StatusChange(args) == args.status # "none"
UpdateEnds(exit, out, sent) == [exit |-> exit, out |-> out, sent |-> sent]

\* The second request, if there is one, and what is said of the first.
ApplyStatusChange(args, answers, shows) ==
  LET content == args.content # "none"
      sent == IF content THEN <<"content", "status">> ELSE <<"status">>
      answer == answers[Len(sent)]
      End(exit, out) == IF shows THEN UpdateEnds(exit, out, sent) ELSE UpdateEnds("failure", {}, sent)
  IN  IF answer = "done" THEN End("ok", {sent[i] : i \in 1 .. Len(sent)})
      ELSE IF ~content THEN UpdateEnds("request", {}, sent)
      ELSE End("partial", {"content"})

UpdateComment(args, answers, shows) ==
  IF args.content = "none" /\ ~StatusChange(args) THEN UpdateEnds("usage", {}, <<>>)
  ELSE IF args.content = "unreadable" THEN UpdateEnds("usage", {}, <<>>)
  ELSE IF args.content # "none" /\ answers[1] # "done" THEN UpdateEnds("request", {}, <<"content">>)
  ELSE IF StatusChange(args) THEN ApplyStatusChange(args, answers, shows)
  ELSE IF shows THEN UpdateEnds("ok", {"content"}, <<"content">>)
  ELSE UpdateEnds("failure", {}, <<"content">>)

-----------------------------------------------------------------------------
(* collections.rs.  A structure: its roots, and for each node whether it is  *)
(* a document and what is below it, where <<0>> stands for no list.         *)
NodesBelow(structure, node) == structure.below[node]

\* The walk, with so many left to count: how many were counted before it
\* ended, and how.
CountNodes(structure) ==
  LET Walk[left \in 0 .. MaxCountedNodes] ==
        [stack \in Seq(1 .. Len(structure.below)) |->
           LET node == Last(stack)
               Ends(how) == [nodes |-> MaxCountedNodes - left, is |-> how]
           IN  IF stack = <<>> THEN Ends("exact")
               ELSE IF left = 0 THEN Ends("capped")
               ELSE IF ~structure.document[node] \/ NodesBelow(structure, node) = <<0>>
                    THEN Ends("unrecognized")
               ELSE Walk[left - 1][Front(stack) \o NodesBelow(structure, node)]]
  IN  IF structure.roots = <<0>> THEN [nodes |-> 0, is |-> "unrecognized"]
      ELSE Walk[MaxCountedNodes][structure.roots]

Uncounted == "?"
CountLabel(answer) ==
  IF answer.is \in {"exact", "capped"} THEN answer ELSE [nodes |-> 0, is |-> Uncounted]

(* document_counts: one lookup for each row that has an id, none of which    *)
(* ends the command.  Rows have different ids: a row that a moving list     *)
(* repeats shares the one entry of its id, which is left out.               *)
Counted(lookup) ==
  IF ~lookup.named THEN [nodes |-> 0, is |-> "not looked up"]
  ELSE IF lookup.read THEN CountNodes(lookup.structure)
  ELSE [nodes |-> 0, is |-> "failed"]
ListCollections(lookups, cut) ==
  LET counts == [i \in 1 .. Len(lookups) |-> Counted(lookups[i])]
      Told(how) == Cardinality({i \in 1 .. Len(counts) : counts[i].is = how})
  IN  [labels |-> [i \in 1 .. Len(counts) |-> CountLabel(counts[i])],
       warned |-> [failed |-> Told("failed"), unrecognized |-> Told("unrecognized"), capped |-> Told("capped")],
       exit |-> ListExit(cut, TRUE)]

-----------------------------------------------------------------------------
(* A row that was fetched and matches is shown, one that is not shown is     *)
(* accounted for, and a listing that ends well is all of what was asked for.*)
ListTells(comments, cut, args, shows) ==
  LET l == ListComments(comments, cut, args, shows)
      matching == {i \in 1 .. Len(comments) : Keeps(comments[i], args)}
  IN  /\ l.exit = "ok" => Len(l.rows) = Cardinality(matching) /\ cut \in {"none", "MaxItems"}
      /\ l.note = <<>> <=> Cardinality(matching) = Len(comments)
      /\ l.note # <<>> => l.note[3].parent \/ l.note[3].status
      /\ cut # "none" => l.warned

(* What is said to be done is done.  A command that ends well did all it was *)
(* asked; it ends in a partial result just when the content was committed   *)
(* and printed and only the status is left to do; a refused request, or a   *)
(* use of the command that is wrong, changed nothing that was acknowledged; *)
(* and a failure says only that something was done and not printed.         *)
(* comments.rs:162-165 promises exit 9 and the content to every edit whose  *)
(* status change failed; one whose output fails as well ends in a failure,  *)
(* and that end is the one exception.                                       *)
UpdateTells(args, answers, shows) ==
  LET u == UpdateComment(args, answers, shows)
      done == {u.sent[i] : i \in {j \in 1 .. Len(u.sent) : answers[j] = "done"}}
      asked == (IF args.content # "none" THEN {"content"} ELSE {})
               \cup (IF StatusChange(args) THEN {"status"} ELSE {})
  IN  /\ u.out \subseteq done
      /\ u.exit = "ok" => asked # {} /\ done = asked /\ u.out = asked
      /\ u.exit = "partial" <=> shows /\ done = {"content"} /\ asked = {"content", "status"}
      /\ u.exit = "partial" => u.out = {"content"}
      /\ u.exit = "failure" => ~shows /\ done # {} /\ u.out = {}
      /\ u.exit \in {"request", "usage"} => done = {}
      /\ Len(u.sent) = 2 => u.sent[1] = "content" /\ answers[1] = "done"

(* What a server sends as a structure is a tree: a node is in one list, once.*)
ListOf(structure, k) == IF k = 0 THEN structure.roots ELSE NodesBelow(structure, k)
IsStructure(structure) ==
  LET n == Len(structure.below)
      At(k) == ListOf(structure, k)
  IN  /\ structure.below \in Seq(Seq(Nat)) /\ structure.document \in [1 .. n -> BOOLEAN]
      /\ \A k \in 0 .. n : At(k) = <<0>> \/ At(k) \in Seq(1 .. n)
      /\ \A j, k \in 0 .. n : \A a \in 1 .. Len(At(j)), b \in 1 .. Len(At(k)) :
           At(j)[a] # 0 /\ At(j)[a] = At(k)[b] => j = k /\ a = b

\* The nodes of a structure: the roots and what is below any of them.
Documents_(structure) ==
  LET all == 0 .. Len(structure.below)
      IsClosed(S) == /\ Range(structure.roots) \subseteq S
                     /\ \A n \in S \ {0} : Range(NodesBelow(structure, n)) \subseteq S
  IN  {n \in all : \A S \in SUBSET all : IsClosed(S) => n \in S}

(* A row may have no id to look up, and what a lookup leaves is a structure, *)
(* or nothing that was read.                                                *)
IsLookups(lookups) ==
  /\ Len(lookups) \in Nat
  /\ \A i \in 1 .. Len(lookups) :
       {lookups[i].named, lookups[i].read} \subseteq BOOLEAN /\ IsStructure(lookups[i].structure)

(* A count that reads as exact is the number of documents of a structure     *)
(* that could be read to its end; one that does not is marked, and counted  *)
(* in the warning, but for a row without an id, which is marked and which   *)
(* no warning counts.                                                       *)
CountsAreExact(lookups, cut) ==
  LET l == ListCollections(lookups, cut)
      Marked(how) == Cardinality({i \in 1 .. Len(lookups) : lookups[i].named /\ l.labels[i].is = how})
  IN  /\ \A i \in 1 .. Len(lookups) : l.labels[i].is # Uncounted =>
           LET all == Documents_(lookups[i].structure)
           IN  /\ lookups[i].named /\ lookups[i].read
               /\ l.labels[i].is = "exact" =>
                    /\ 0 \notin all /\ \A n \in all : lookups[i].structure.document[n]
                    /\ l.labels[i].nodes = Cardinality(all)
               /\ l.labels[i].is = "capped" =>
                    l.labels[i].nodes = MaxCountedNodes /\ Cardinality(all) > MaxCountedNodes
      /\ l.warned.failed + l.warned.unrecognized = Marked(Uncounted)
      /\ l.warned.capped = Marked("capped")
=============================================================================

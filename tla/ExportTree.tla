------------------------------ MODULE ExportTree ------------------------------
(***************************************************************************)
(* How docs export turns a flat listing into a forest of documents         *)
(* (commands/docs/tree.rs) and a title into a name that is free in its     *)
(* directory (export.rs).  Pure: no state.                                 *)
(*                                                                         *)
(* A listing is a sequence of rows [id, title, parent].  Ids and titles    *)
(* are numbers in their order; NoId is a row without a usable id, and a    *)
(* document without a parent names NoId as its parent.                     *)
(***************************************************************************)
EXTENDS Integers, Sequences, FiniteSets, SequencesExt

CONSTANT Key(_)  \* collision_key, on the letter of a name

NoId == 0

Rows(ids, titles) ==
  [id : ids \cup {NoId}, title : titles, parent : ids \cup {NoId}]

(* collect: the rows that can be fetched, the first of every id.            *)
KeptRows(rows) ==
  {i \in 1 .. Len(rows) :
     /\ rows[i].id # NoId
     /\ \A j \in 1 .. i - 1 : rows[j].id # rows[i].id}

\* The rows the listing could not identify; each is reported as a failure.
Unusable(rows) == {i \in 1 .. Len(rows) : rows[i].id = NoId}

Nodes(rows) == {rows[i].id : i \in KeptRows(rows)}
EntryOf(rows, n) == rows[CHOOSE i \in KeptRows(rows) : rows[i].id = n]

(* resolve_parent: a parent that is not listed, or the document itself,     *)
(* makes it a root.                                                         *)
Resolved(rows) ==
  [n \in Nodes(rows) |->
     LET p == EntryOf(rows, n).parent
     IN  IF p \in Nodes(rows) \ {n} THEN p ELSE NoId]

(* Walk(parent, done, path): follow the parents of the last node of path    *)
(* until they leave the unknown; the node found twice on the way is cut.    *)
WalkFrom(parent, done, start) ==
  LET Trail[k \in 1 .. Cardinality(DOMAIN parent) + 1] ==
        IF k = 1 THEN <<start>>
        ELSE LET t == Trail[k - 1]
                 p == parent[Last(t)]
             IN  IF p = NoId \/ p \in done \/ p \in ToSet(t) THEN t ELSE Append(t, p)
      trail == Trail[Cardinality(DOMAIN parent) + 1]
  IN  [path |-> ToSet(trail),
       cut |-> {parent[Last(trail)]} \cap ToSet(trail)]

(* break_cycles: from every document not yet done, in listing order, cut    *)
(* the node at which its ancestors close a loop.                            *)
BreakCycles(rows, parent) ==
  LET Step[i \in 0 .. Len(rows)] ==
        IF i = 0 THEN [parent |-> parent, done |-> {}]
        ELSE LET s == Step[i - 1]
                 walk == WalkFrom(s.parent, s.done, rows[i].id)
             IN  IF i \notin KeptRows(rows) \/ rows[i].id \in s.done THEN s
                 ELSE [parent |-> [n \in DOMAIN parent |->
                                     IF n \in walk.cut THEN NoId ELSE s.parent[n]],
                       done |-> s.done \cup walk.path]
  IN  Step[Len(rows)].parent

(* link: siblings in the order of title, then id.                           *)
Earlier(rows, a, b) ==
  LET x == EntryOf(rows, a).title
      y == EntryOf(rows, b).title
  IN  x < y \/ (x = y /\ a < b)
Under(rows, parent, p) == {n \in Nodes(rows) : parent[n] = p}
PlaceAmong(rows, siblings, n) == Cardinality({m \in siblings : Earlier(rows, m, n)})
Siblings(rows, parent, p) ==
  LET siblings == Under(rows, parent, p)
  IN  [k \in 1 .. Cardinality(siblings) |->
         CHOOSE n \in siblings : PlaceAmong(rows, siblings, n) = k - 1]

(* plan: the documents, their parents, and the rows without one.            *)
Plan(rows) ==
  [rows |-> rows,
   parent |-> BreakCycles(rows, Resolved(rows)),
   unusable |-> Unusable(rows)]

Children(plan, n) == Siblings(plan.rows, plan.parent, n)
Title(plan, n) == EntryOf(plan.rows, n).title

(* descendants: everything below a node.                                    *)
Descendants(plan, n) ==
  LET Below[k \in 0 .. Len(plan.rows)] ==
        IF k = 0 THEN {n}
        ELSE Below[k - 1] \cup {m \in Nodes(plan.rows) : plan.parent[m] \in Below[k - 1]}
  IN  {m \in Nodes(plan.rows) \ {n} : m \in Below[Len(plan.rows)]}

-----------------------------------------------------------------------------
(* Names.  A name is a sequence that starts with a letter; what follows are *)
(* the suffixes and extensions it carries.  Stem is safe_stem; Key folds a  *)
(* letter the way collision_key does.                                       *)
WithSuffix(name, n) == Append(name, n)

KeyOf(name) == <<Key(name[1])>> \o Tail(name)

(* Names::claim: the stem itself, or with the first suffix from 2 that no   *)
(* name in use collides with.                                               *)
Claim(used, stem) ==
  LET Tried(n) == IF n = 1 THEN stem ELSE WithSuffix(stem, n)
      Clashes(n) == KeyOf(Tried(n)) \in used
  IN  Tried(CHOOSE n \in 1 .. Cardinality(used) + 1 :
              ~Clashes(n) /\ \A m \in 1 .. n - 1 : Clashes(m))
=============================================================================

---------------------------- MODULE DocumentProofs ----------------------------
(***************************************************************************)
(* The proof that an export loses no document and replaces nothing of      *)
(* others, for every listing, every naming of documents, every way the     *)
(* file system folds names, and every bound on depth, faults and runs.     *)
(*                                                                         *)
(* What a step does to the tree is said once (TreeStep): a new entry has a *)
(* free path and is a directory, the temporary file in hand, or a whole    *)
(* file under the name of the document in hand; what goes is that          *)
(* temporary file, or with --overwrite a file this run has not written.    *)
(* It rests on names: a temporary one is no document's and no directory's  *)
(* (Good, Labelled).  From it the parts of the invariant follow one by     *)
(* one: the directories on the stack are there, each in the one before     *)
(* (Stacked); the copies of the document in hand are where its stage says  *)
(* (InHand); a reported document is in its file, and every name on the way *)
(* to it is on disk or will be flushed with a directory that is still open *)
(* (Landed, Rooted); a temporary file of the run is in hand or reported    *)
(* (Tidy).                                                                 *)
(*                                                                         *)
(* That an export is complete needs a count of the documents (CountInv):   *)
(* each was written, or has failed, or is in hand, or is open; and what is *)
(* open waits in a frame of the stack or is below a document that does     *)
(* (Forest).  Going up from an open document ends at a top one, since the  *)
(* cycles of the listing were broken (Grounded); so when nothing waits any *)
(* more nothing is open, and all were written or have failed, once.        *)
(*                                                                         *)
(* Then the proof that an update is safe, for every body, text, address and*)
(* server, every number of edits by others and of calls.  What the caller  *)
(* knows of the document (CopyIsTrue), what it asserts (Asserted) and what  *)
(* was read with the body (PlanIsFresh) is the revision the write is sent  *)
(* with; a server that looks at it refuses the write if it has passed, and *)
(* else the copy, and the plan, are of the body that is there.  The rest is*)
(* about bodies: the file of a caller says what the export said            *)
(* (FileSplits), the anchor of a section stands in one place (EditReplaces)*)
(* and its text has no line but those of the body and of the caller        *)
(* (EditKeeps, TextIsKept).                                                *)
(***************************************************************************)
EXTENDS DocsExport, DocsUpdate, FiniteSetTheorems, SequenceTheorems, WellFoundedInduction, TLAPS

-----------------------------------------------------------------------------
(* What paths are made of.                                                  *)

\* What a name is made of, the letters of this specification named.
Atoms == STRING \cup Nat \cup {"tmp", "backup", "today"}
Components == Seq(Atoms) \ {<<>>}

\* A sequence of one component, and what is in it.
LEMMA Single ==
  ASSUME NEW a \in Atoms
  PROVE  <<a>> \in Seq(Atoms) /\ Len(<<a>>) = 1 /\ <<a>>[1] = a /\ <<a>> # <<>>
  OBVIOUS

\* The same for three.
LEMMA Triple ==
  ASSUME NEW a \in Atoms, NEW b \in Atoms, NEW c \in Atoms
  PROVE  <<a, b, c>> \in Seq(Atoms) /\ <<a, b, c>> # <<>> /\ <<a, b, c>>[1] = a
  OBVIOUS

(* A name a document may get: it is not taken for a temporary one.          *)
Good(name) ==
  /\ name \in Components
  /\ name[1] \in STRING /\ Key(name[1]) \in STRING
  /\ FsFold(name[1]) \in STRING \ {"tmp"}

GoodRows ==
  {row \in [id : Nat, title : Nat, parent : Nat] : Good(Stem(row.title))}

(* Every row of every listing has a good stem.                              *)
LEMMA StemsAreGood ==
  ASSUME NEW c \in Collections
  PROVE  c \in Seq(GoodRows)
<1> USE ListingsAssumption
<1>1. SUFFICES ASSUME NEW i \in 1 .. Len(c) PROVE c[i] \in GoodRows
  <2>1. c \in Seq([id : Nat, title : Nat, parent : Nat])
    OBVIOUS
  <2> HIDE ListingsAssumption
  <2>2. Len(c) \in Nat /\ c = [i \in 1 .. Len(c) |-> c[i]]
    BY <2>1
  <2> QED BY <2>2, <1>1
<1>2. c[i] \in [id : Nat, title : Nat, parent : Nat]
  BY ElementOfSeq
<1> DEFINE stem == Stem(c[i].title)
           letter == Head(stem)
           rest == Tail(stem)
<1>3. /\ stem = <<letter>> \o rest /\ rest \in Seq(Nat)
      /\ letter \in STRING /\ Key(letter) \in STRING
      /\ FsFold(letter) \in STRING \ {"tmp"}
  BY StemsAssumption
<1> HIDE DEF letter, rest
<1>4. stem \in Components /\ stem[1] = letter
  <2>0. letter \in Atoms /\ Nat \subseteq Atoms
    BY <1>3 DEF Atoms
  <2>1. rest \in Seq(Atoms) /\ <<letter>> \in Seq(Atoms) /\ Len(<<letter>>) = 1
    BY <1>3, <2>0, Single
  <2>2. Len(<<letter>> \o rest) = 1 + Len(rest) /\ (<<letter>> \o rest)[1] = letter
    BY <2>1
  <2>3. <<letter>> \o rest \in Seq(Atoms)
    BY <2>1
  <2>4. Len(rest) \in Nat
    BY <1>3
  <2> QED BY <2>2, <2>3, <2>4, <1>3 DEF Components
<1> QED BY <1>2, <1>3, <1>4 DEF GoodRows, Good

(* What follows the first letter of a name makes no difference to that.     *)
LEMMA Appended ==
  ASSUME NEW name, Good(name), NEW n \in Nat
  PROVE  Good(Append(name, n)) /\ Append(name, n)[1] = name[1]
<1>1. name \in Seq(Atoms) /\ name # <<>> /\ n \in Atoms
  BY DEF Good, Components, Atoms
<1>2. Append(name, n) \in Seq(Atoms) /\ Len(Append(name, n)) = Len(name) + 1
      /\ Append(name, n)[1] = name[1] /\ Len(name) \in Nat
  BY <1>1
<1>3. Append(name, n) # <<>>
  <2>1. Len(Append(name, n)) # 0 /\ Len(<<>>) = 0
    BY <1>2
  <2> QED BY <2>1, Zenon
<1> QED BY <1>2, <1>3 DEF Good, Components

\* A good name folds to a component that is no temporary name.
LEMMA FoldType ==
  ASSUME NEW name, Good(name)
  PROVE  Fold(name) \in Components /\ Fold(name)[1] # "tmp"
<1>1. name \in Seq(Atoms) /\ name # <<>>
  BY DEF Good, Components
<1> DEFINE letter == FsFold(name[1])
           rest == Tail(name)
<1>2. rest \in Seq(Atoms) /\ Len(rest) \in Nat
  BY <1>1
<1>3. letter \in Atoms /\ letter # "tmp"
  BY DEF Good, Atoms
<1> HIDE DEF letter, rest
<1>4. <<letter>> \in Seq(Atoms) /\ Len(<<letter>>) = 1
  BY <1>3, Single
<1>5. /\ <<letter>> \o rest \in Seq(Atoms) /\ Len(<<letter>> \o rest) = 1 + Len(rest)
      /\ (<<letter>> \o rest)[1] = letter
  BY <1>2, <1>4
<1>6. <<letter>> \o rest # <<>>
  BY <1>2, <1>5
<1> QED BY <1>3, <1>5, <1>6 DEF Fold, Components, letter, rest

\* So does the name of its file.
LEMMA FileNameType ==
  ASSUME NEW name, Good(name)
  PROVE  Fold(FileName(name)) \in Components /\ Fold(FileName(name))[1] # "tmp"
<1>1. Good(FileName(name))
  BY Appended DEF FileName, Md
<1> QED BY <1>1, FoldType

\* The temporary name of a document is a component, and marked.
LEMMA TempNameType ==
  ASSUME NEW doc \in Nat, runs \in Nat
  PROVE  TempName(doc) \in Components /\ TempName(doc)[1] = "tmp"
<1>1. "tmp" \in Atoms /\ runs \in Atoms /\ doc \in Atoms
  BY DEF Atoms
<1> QED BY <1>1, Triple DEF TempName, Components

\* The output directory and the one above it, as paths.
LEMMA RootType ==
  /\ Root \in Seq(Components) /\ Len(Root) = 2 /\ Root = << <<"backup">>, <<"today">> >>
  /\ <<"backup">>[1] # "tmp" /\ <<"today">>[1] # "tmp"
<1>1. "backup" \in Atoms /\ "today" \in Atoms
  BY DEF Atoms
<1>2. <<"backup">> \in Components /\ <<"today">> \in Components /\ <<"backup">>[1] # "tmp" /\ <<"today">>[1] # "tmp"
  BY <1>1, Single DEF Components
<1> QED BY <1>2 DEF Root

(* The key of a name differs from it in the first letter.                   *)
LEMMA KeyType ==
  ASSUME NEW name, Good(name)
  PROVE  /\ KeyOf(name) \in Seq(Atoms) /\ Len(KeyOf(name)) = Len(name)
         /\ \A i \in 2 .. Len(name) : KeyOf(name)[i] = name[i]
<1> DEFINE letter == Key(name[1])
           rest == Tail(name)
<1>1. name \in Seq(Atoms) /\ name # <<>> /\ letter \in Atoms
  BY DEF Good, Components, Atoms
<1>2. /\ rest \in Seq(Atoms) /\ Len(rest) = Len(name) - 1 /\ Len(name) \in Nat
      /\ \A i \in 2 .. Len(name) : rest[i - 1] = name[i] /\ i - 1 \in 1 .. Len(rest)
  BY <1>1
<1>3. KeyOf(name) = <<letter>> \o rest
  BY DEF KeyOf
<1> HIDE DEF letter, rest
<1>4. <<letter>> \in Seq(Atoms) /\ Len(<<letter>>) = 1
  BY <1>1, Single
<1>5. /\ <<letter>> \o rest \in Seq(Atoms) /\ Len(<<letter>> \o rest) = 1 + Len(rest)
      /\ \A i \in 1 .. Len(rest) : (<<letter>> \o rest)[i + 1] = rest[i]
  BY <1>2, <1>4
<1>6. \A i \in 2 .. Len(name) : (<<letter>> \o rest)[i] = name[i]
  <2> TAKE i \in 2 .. Len(name)
  <2>1. (<<letter>> \o rest)[(i - 1) + 1] = rest[i - 1] /\ (i - 1) + 1 = i
    BY <1>2, <1>5
  <2> QED BY <1>2, <2>1
<1> QED BY <1>2, <1>3, <1>5, <1>6

(* A set of numbers has a least one.                                        *)
LEMMA Least ==
  ASSUME NEW T \in SUBSET Nat, T # {}
  PROVE  \E n \in T : \A m \in T : n <= m
<1> DEFINE Below == {ss \in Nat \X Nat : ss[1] < ss[2]}
<1>0. IsWellFoundedOn(Below, Nat)
  BY NatLessThanWellFounded, Zenon DEF OpToRel
<1> HIDE DEF Below
<1>1. \E n \in T : \A m \in T : ~ (<<m, n>> \in Below)
  BY <1>0, WFMin
<1>2. PICK n \in T : \A m \in T : ~ (<<m, n>> \in Below)
  BY <1>1
<1>3. \A m \in T : ~ (m < n)
  BY <1>2 DEF Below
<1> QED BY <1>3

(* The suffix is what two names with one stem are told apart by.            *)
LEMMA ClaimIsGood ==
  ASSUME NEW used, NEW stem, Good(stem), IsFiniteSet(used)
  PROVE  /\ Good(Claim(used, stem))
         /\ KeyOf(Claim(used, stem)) \notin used
<1> DEFINE Tried(n) == IF n = 1 THEN stem ELSE Append(stem, n)
           top == Cardinality(used) + 1
           Clashes(n) == KeyOf(Tried(n)) \in used
           First(n) == ~Clashes(n) /\ \A m \in 1 .. n - 1 : Clashes(m)
<1>1. top \in Nat /\ top >= 1 /\ Cardinality(used) \in Nat
  BY FS_CardinalityType
<1>2. ASSUME NEW n \in 1 .. top PROVE Good(Tried(n))
  <2>1. n \in Nat
    BY <1>1
  <2>2. Good(Append(stem, n))
    BY <2>1, Appended
  <2> QED BY <2>2
<1>3. ASSUME NEW n \in 1 .. top, NEW m \in 1 .. top, KeyOf(Tried(n)) = KeyOf(Tried(m))
      PROVE  n = m
  <2>1. stem \in Seq(Atoms) /\ Len(stem) \in Nat /\ Len(stem) >= 1
    <3>1. stem \in Seq(Atoms) /\ stem # <<>>
      BY DEF Good, Components
    <3> QED BY <3>1
  <2>2. ASSUME NEW k \in 1 .. top
        PROVE  /\ Len(KeyOf(Tried(k))) = IF k = 1 THEN Len(stem) ELSE Len(stem) + 1
               /\ k # 1 => KeyOf(Tried(k))[Len(stem) + 1] = k
    <3>1. k \in Atoms /\ k \in Nat
      BY <1>1 DEF Atoms
    <3>2. /\ Len(Tried(k)) = IF k = 1 THEN Len(stem) ELSE Len(stem) + 1
          /\ k # 1 => Tried(k)[Len(stem) + 1] = k
      BY <2>1, <3>1
    <3> HIDE DEF Tried
    <3>3. /\ Len(KeyOf(Tried(k))) = Len(Tried(k))
          /\ \A i \in 2 .. Len(Tried(k)) : KeyOf(Tried(k))[i] = Tried(k)[i]
      BY <1>2, KeyType
    <3> QED BY <2>1, <3>2, <3>3
  <2> HIDE DEF Tried
  <2> QED BY <2>1, <2>2, <1>3, <1>1
<1>4. \E n \in 1 .. top : ~Clashes(n)
  <2> SUFFICES ASSUME \A n \in 1 .. top : Clashes(n) PROVE FALSE
    OBVIOUS
  <2> DEFINE key == [n \in 1 .. top |-> KeyOf(Tried(n))]
  <2>1. key \in [1 .. top -> used]
    OBVIOUS
  <2>2. IsFiniteSet(1 .. top) /\ Cardinality(1 .. top) = top
    BY <1>1, FS_Interval
  <2>3. \A n, m \in 1 .. top : key[n] = key[m] => n = m
    BY <1>3
  <2> HIDE DEF key
  <2>4. Cardinality(used) < Cardinality(1 .. top)
    BY <1>1, <2>2
  <2>5. \E n, m \in 1 .. top : n # m /\ key[n] = key[m]
    BY <2>1, <2>2, <2>4, FS_PigeonHole
  <2> QED BY <2>3, <2>5
<1>5. \E n \in 1 .. top : First(n)
  <2> DEFINE free == {n \in 1 .. top : ~Clashes(n)}
  <2>1. free \in SUBSET Nat /\ free # {}
    BY <1>1, <1>4
  <2> HIDE DEF Clashes
  <2>2. PICK n \in free : \A m \in free : n <= m
    BY <2>1, Least
  <2>3. n \in 1 .. top /\ ~Clashes(n)
    BY <2>2
  <2>4. ASSUME NEW m \in 1 .. n - 1 PROVE Clashes(m)
    BY <2>2, <2>3, <2>4, <1>1
  <2> QED BY <2>3, <2>4
<1> DEFINE chosen == CHOOSE n \in 1 .. top : First(n)
<1>6. chosen \in 1 .. top /\ First(chosen)
  BY <1>5
<1>7. Claim(used, stem) = Tried(chosen)
  BY DEF Claim, WithSuffix
<1> HIDE DEF chosen
<1> QED BY <1>2, <1>6, <1>7

-----------------------------------------------------------------------------
(* The plan.                                                                *)

\* The documents of a listing are finitely many, each with a good stem.
LEMMA NodesType ==
  ASSUME NEW rows \in Seq(GoodRows)
  PROVE  /\ Nodes(rows) \subseteq Nat \ {NoId} /\ IsFiniteSet(Nodes(rows))
         /\ \A n \in Nodes(rows) : EntryOf(rows, n) \in GoodRows
         /\ Cardinality(Unusable(rows)) \in Nat
<1>1. Len(rows) \in Nat /\ \A i \in 1 .. Len(rows) : rows[i] \in GoodRows
  OBVIOUS
<1>2. IsFiniteSet(1 .. Len(rows))
  BY <1>1, FS_Interval
<1>3. KeptRows(rows) \subseteq 1 .. Len(rows) /\ \A i \in KeptRows(rows) : rows[i].id # NoId
  BY DEF KeptRows
<1>4. Nodes(rows) \subseteq Nat \ {NoId}
  BY <1>1, <1>3 DEF Nodes, GoodRows
<1>5. IsFiniteSet(KeptRows(rows))
  BY <1>2, <1>3, FS_Subset
<1>6. IsFiniteSet(Nodes(rows))
  <2> DEFINE f == [i \in KeptRows(rows) |-> rows[i].id]
  <2>1. Nodes(rows) = {f[i] : i \in KeptRows(rows)}
    BY DEF Nodes
  <2>2. f \in Surjection(KeptRows(rows), Nodes(rows))
    BY <2>1 DEF Surjection
  <2> HIDE DEF f
  <2> QED BY <1>5, <2>2, FS_Surjection
<1>7. ASSUME NEW n \in Nodes(rows) PROVE EntryOf(rows, n) \in GoodRows
  <2>1. \E i \in KeptRows(rows) : rows[i].id = n
    BY DEF Nodes
  <2>2. \E i \in KeptRows(rows) : EntryOf(rows, n) = rows[i]
    BY <2>1 DEF EntryOf
  <2> QED BY <1>1, <1>3, <2>2
<1>8. Unusable(rows) \subseteq 1 .. Len(rows)
  BY DEF Unusable
<1>9. Cardinality(Unusable(rows)) \in Nat
  BY <1>2, <1>8, FS_Subset, FS_CardinalityType
<1> QED BY <1>4, <1>6, <1>7, <1>9

(* The order of siblings is a strict one in which two of them compare.      *)
LEMMA PlacesDiffer ==
  ASSUME NEW rows \in Seq(GoodRows), NEW S \in SUBSET Nodes(rows)
  PROVE  /\ IsFiniteSet(S) /\ Cardinality(S) \in Nat
         /\ \A n \in S : PlaceAmong(rows, S, n) \in 0 .. Cardinality(S) - 1
         /\ \A m, n \in S : PlaceAmong(rows, S, m) = PlaceAmong(rows, S, n) => m = n
<1> DEFINE InFront(n) == {m \in S : Earlier(rows, m, n)}
<1>1. IsFiniteSet(S) /\ Cardinality(S) \in Nat
  BY NodesType, FS_Subset, FS_CardinalityType
<1>2. \A n \in S : n \in Nat /\ EntryOf(rows, n).title \in Nat
  BY NodesType DEF GoodRows
<1>3. \A n \in S : PlaceAmong(rows, S, n) = Cardinality(InFront(n))
  BY DEF PlaceAmong
<1>4. \A n \in S : /\ InFront(n) \subseteq S /\ n \notin InFront(n)
                   /\ IsFiniteSet(InFront(n)) /\ Cardinality(InFront(n)) \in Nat
  BY <1>1, <1>2, FS_Subset, FS_CardinalityType DEF Earlier
<1>5. ASSUME NEW n \in S PROVE Cardinality(InFront(n)) < Cardinality(S)
  <2>1. InFront(n) \subseteq S /\ InFront(n) # S
    BY <1>4
  <2> HIDE DEF InFront
  <2> QED BY <1>1, <2>1, <1>4, FS_Subset
<1>6. ASSUME NEW m \in S, NEW n \in S, Earlier(rows, m, n)
      PROVE  Cardinality(InFront(m)) < Cardinality(InFront(n))
  <2>1. InFront(m) \subseteq InFront(n)
    BY <1>2, <1>6 DEF Earlier
  <2>2. m \in InFront(n) /\ m \notin InFront(m)
    BY <1>4, <1>6
  <2> HIDE DEF InFront
  <2> QED BY <2>1, <2>2, <1>4, FS_Subset
<1>7. \A m, n \in S : m = n \/ Earlier(rows, m, n) \/ Earlier(rows, n, m)
  BY <1>2 DEF Earlier
<1> HIDE DEF InFront
<1>8. \A m, n \in S : Cardinality(InFront(m)) = Cardinality(InFront(n)) => m = n
  BY <1>4, <1>6, <1>7
<1> QED BY <1>1, <1>3, <1>4, <1>5, <1>8

\* Every member of a set once, and nothing else.
Lists(s, S) ==
  /\ s \in Seq(S)
  /\ \A n \in S : \E k \in 1 .. Len(s) : s[k] = n
  /\ \A j, k \in 1 .. Len(s) : s[j] = s[k] => j = k

(* The children of a node are the documents of the listing below it.        *)
LEMMA SiblingsType ==
  ASSUME NEW rows \in Seq(GoodRows), NEW parent, NEW p
  PROVE  /\ Siblings(rows, parent, p) \in Seq(Nodes(rows))
         /\ Lists(Siblings(rows, parent, p), Under(rows, parent, p))
<1> DEFINE S == Under(rows, parent, p)
           size == Cardinality(S)
           place == [n \in S |-> PlaceAmong(rows, S, n)]
<1>1. S \in SUBSET Nodes(rows)
  BY DEF Under
<1>2. Siblings(rows, parent, p) =
        [k \in 1 .. size |-> CHOOSE n \in S : PlaceAmong(rows, S, n) = k - 1]
  BY DEF Siblings
<1> HIDE DEF S
<1>3. /\ IsFiniteSet(S) /\ size \in Nat
      /\ \A n \in S : PlaceAmong(rows, S, n) \in 0 .. size - 1
      /\ \A m, n \in S : PlaceAmong(rows, S, m) = PlaceAmong(rows, S, n) => m = n
  BY <1>1, PlacesDiffer
<1>4. place \in Injection(S, 0 .. size - 1)
  BY <1>3 DEF Injection, IsInjective
<1>5. IsFiniteSet(0 .. size - 1) /\ Cardinality(0 .. size - 1) = size
  <2> HIDE DEF size
  <2>1. 0 \in Int /\ size - 1 \in Int
    BY <1>3
  <2> QED BY <1>3, <2>1, FS_Interval, SMTT(20)
<1>6. place \in Surjection(S, 0 .. size - 1)
  BY <1>3, <1>4, <1>5, FS_Injection, Zenon
<1> DEFINE list == Siblings(rows, parent, p)
<1>7. ASSUME NEW k \in 1 .. size
      PROVE  list[k] \in S /\ PlaceAmong(rows, S, list[k]) = k - 1
  <2>1. k - 1 \in 0 .. size - 1
    BY <1>3
  <2>2. \E n \in S : PlaceAmong(rows, S, n) = k - 1
    BY <1>6, <2>1 DEF Surjection
  <2>3. list[k] = CHOOSE n \in S : PlaceAmong(rows, S, n) = k - 1
    BY <1>2
  <2> HIDE DEF list
  <2> QED BY <2>2, <2>3
<1> HIDE DEF size
<1>8. list \in [1 .. size -> S] /\ list \in [1 .. size -> Nodes(rows)]
  <2>1. list = [k \in 1 .. size |-> list[k]]
    BY <1>2
  <2> HIDE DEF list
  <2> QED BY <1>1, <1>7, <2>1
<1> HIDE DEF list
<1>9. list \in Seq(S) /\ list \in Seq(Nodes(rows)) /\ Len(list) = size
  BY <1>3, <1>8
<1>10. ASSUME NEW n \in S PROVE \E k \in 1 .. Len(list) : list[k] = n
  <2> DEFINE k == PlaceAmong(rows, S, n) + 1
  <2>1. k \in 1 .. size /\ k - 1 = PlaceAmong(rows, S, n)
    BY <1>3
  <2>2. list[k] \in S /\ PlaceAmong(rows, S, list[k]) = PlaceAmong(rows, S, n)
    <3> HIDE DEF k
    <3> QED BY <1>7, <2>1
  <2>3. list[k] = n
    BY <1>3, <2>2
  <2> QED BY <1>9, <2>1, <2>3
<1>11. ASSUME NEW j \in 1 .. Len(list), NEW k \in 1 .. Len(list), list[j] = list[k] PROVE j = k
  BY <1>3, <1>7, <1>9, <1>11
<1> QED BY <1>9, <1>10, <1>11 DEF Lists, list, S

(* A set of numbers as a list of them.                                      *)
LEMMA AsList ==
  ASSUME NEW S \in SUBSET Nat, IsFiniteSet(S)
  PROVE  SetToSeq(S) \in Seq(Nat) /\ Lists(SetToSeq(S), S)
<1> DEFINE size == Cardinality(S)
           list == SetToSeq(S)
<1>1. Cardinality(S) \in Nat
  BY FS_CardinalityType
<1>2. \E f \in [1 .. Cardinality(S) -> S] : IsInjective(f)
  BY FS_NatBijection, FS_CountingElements, <1>1 DEF ExistsBijection, Bijection, Injection
<1>3. SetToSeq(S) \in [1 .. Cardinality(S) -> S] /\ IsInjective(SetToSeq(S))
  BY <1>2 DEF SetToSeq
<1>4. ASSUME NEW k \in Nat, NEW f \in [1 .. k -> S] PROVE f \in Seq(Nat)
  <2>1. f \in [1 .. k -> Nat]
    OBVIOUS
  <2> QED BY <2>1
<1>5. list \in [1 .. size -> S] /\ list \in Seq(S) /\ Len(list) = size /\ size \in Nat
  BY <1>1, <1>3
<1>6. list \in Injection(1 .. size, S)
  BY <1>3 DEF Injection
<1>7. IsFiniteSet(1 .. size) /\ Cardinality(1 .. size) = size
  <2> HIDE DEF size
  <2>1. 1 \in Int /\ size \in Int
    BY <1>5
  <2> QED BY <1>5, <2>1, FS_Interval, SMTT(20)
<1>8. list \in Surjection(1 .. size, S)
  BY <1>6, <1>7, FS_Injection, Zenon
<1> HIDE DEF list, size
<1>9. \A n \in S : \E k \in 1 .. Len(list) : list[k] = n
  BY <1>5, <1>8 DEF Surjection
<1>10. \A j, k \in 1 .. Len(list) : list[j] = list[k] => j = k
  BY <1>5, <1>6 DEF Injection, IsInjective
<1>11. Lists(list, S)
  BY <1>5, <1>9, <1>10 DEF Lists
<1> QED BY <1>1, <1>3, <1>4, <1>11 DEF list

(* What the walk takes from the plan of a listing.                          *)
LEMMA PlanType ==
  ASSUME NEW rows \in Seq(GoodRows), NEW n
  PROVE  /\ Children(Plan(rows), n) \in Seq(Nodes(rows))
         /\ SetToSeq(Descendants(Plan(rows), n)) \in Seq(Nat)
         /\ n \in Nodes(rows) => Good(Stem(Title(Plan(rows), n)))
         /\ Cardinality(Plan(rows).unusable) \in Nat
<1>1. Plan(rows).rows = rows /\ Plan(rows).unusable = Unusable(rows)
  BY DEF Plan
<1>2. Children(Plan(rows), n) \in Seq(Nodes(rows))
  BY <1>1, SiblingsType DEF Children
<1>3. Descendants(Plan(rows), n) \subseteq Nodes(rows)
  BY <1>1, Zenon DEF Descendants
<1>4. SetToSeq(Descendants(Plan(rows), n)) \in Seq(Nat)
  BY <1>3, NodesType, FS_Subset, AsList
<1>5. n \in Nodes(rows) => Good(Stem(Title(Plan(rows), n)))
  BY <1>1, NodesType DEF Title, GoodRows
<1> QED BY <1>1, <1>2, <1>4, <1>5, NodesType

-----------------------------------------------------------------------------
(* The invariant.                                                           *)

Paths == Seq(Components)
Entries ==
  [at : Paths \ {<<>>}, kind : {"dir", "file"}, doc : Nat, run : Nat, whole : BOOLEAN]
Frames == [dir : Paths, pending : Seq(Nat), names : SUBSET Seq(Atoms)]
Listings == Seq(GoodRows)
Stacks == Seq(Frames)
Records == Seq([doc : Nat \ {NoId}, at : Paths \ {<<>>}])

(* What each variable holds.                                                *)
Typed ==
  /\ tree \subseteq Entries
  /\ collection \in Listings /\ listing \in Listings
  /\ overwrite \in BOOLEAN /\ undurable \in BOOLEAN
  /\ stage \in Stages
  /\ stack \in Stacks /\ Len(stack) <= MaxDepth + 1
  /\ fresh \in Seq(Paths)
  /\ exported \in Records
  /\ failed \in Seq(Nat)
  /\ ownFiles \subseteq [doc : Nat \ {NoId}, run : {runs}]
  /\ cut \in {"no", "cap", "limit"}
  /\ verdict \in {"none", "complete", "partial", "refused"}
  /\ runs \in 0 .. MaxRuns /\ faults \in 0 .. MaxFaults

\* A path and the directories on the way to it.
Way(path) == {SubSeq(path, 1, k) : k \in 1 .. Len(path)}
DirAt(path) == \E e \in tree : e.at = path /\ e.kind = "dir"

(* One entry at a path, a temporary one named for its run and document, and *)
(* nothing but directories where the output directory is.                   *)
Labelled ==
  /\ \A e, f \in tree : e.at = f.at => e = f
  /\ \A e \in tree :
       /\ e.run <= runs
       /\ e.at \in Way(Root) => e.kind = "dir"
       /\ Len(e.at) <= Len(Root) + MaxDepth + 1
       /\ IsTemp(e) => /\ e.kind = "file"
                       /\ Last(e.at) = <<"tmp", e.run, e.doc>>
                       /\ e.doc # NoId /\ e.run >= 1

(* Where the command stands, and how it ended.                              *)
Standing ==
  /\ stage # "idle" => runs >= 1
  /\ verdict # "none" => stage = "done"
  /\ stage = "list" => \A q \in Way(Root) : DirAt(q)
  /\ stage \in {"idle", "prepare", "list", "parents", "finish", "done"} => stack = <<>>
  /\ stage \in {"prepare", "list"} => failed = <<>>
  /\ stage = "finish" \/ Concluded => fresh = <<>>
  /\ verdict = "complete" => ~undurable

(* The directories being written, each in the one before, all of them there.*)
Stacked ==
  \A j \in 1 .. Len(stack) :
    /\ stack[j].pending \in Seq(Nodes(listing)) /\ IsFiniteSet(stack[j].names)
    /\ Len(stack[j].dir) = Len(Root) + j - 1
    /\ \A q \in Way(stack[j].dir) :
         /\ DirAt(q)
         /\ q \in Way(Root) \/ \E h \in 1 .. j - 1 : stack[h].dir = Front(q)

(* The document being written: where its copies are.                        *)
Busy == {"fetch", "create", "fill", "publish", "unlink", "record"}
InHand ==
  stage \in Busy =>
    /\ stack # <<>> /\ current.doc \in Nodes(listing) /\ Good(current.name)
    /\ stage \in {"fill", "publish"} => ~Taken
    /\ stage \in {"fill", "publish", "unlink"} =>
         \E e \in tree : e.at = TempPath /\ (stage # "fill" => e.whole)
    /\ stage \in {"unlink", "record"} =>
         \E e \in tree : /\ e.at = Target /\ e.kind = "file" /\ e.whole
                         /\ e.doc = current.doc /\ e.run = runs

(* A document reported as written, on the way to the disk: what is on the   *)
(* way to it is there, and is flushed or will be with the directory it is   *)
(* in.                                                                      *)
Secured(q) ==
  q \in flushed \/ undurable \/ \E j \in 1 .. Len(stack) : stack[j].dir = Front(q)

Landing(record) ==
  /\ \E e \in tree : /\ e.at = record.at /\ e.kind = "file" /\ e.whole
                     /\ e.doc = record.doc /\ e.run = runs /\ ~IsTemp(e)
  /\ [doc |-> record.doc, run |-> runs] \in ownFiles
  /\ \A q \in Way(record.at) :
       /\ q = record.at \/ DirAt(q)
       /\ q \in Way(Root) \/ Secured(q)

Landed == \A i \in 1 .. Len(exported) : Landing(exported[i])

Underway == stage \notin {"idle", "done"} \/ Concluded

(* A directory made for the output directory, on the way to the disk.       *)
Rooted ==
  Underway => \A e \in tree :
    e.at \in Way(Root) /\ e.run = runs =>
      e.at \in flushed \/ undurable \/ \E i \in 1 .. Len(fresh) : fresh[i] = Front(e.at)

(* A temporary file of this run is the one in hand, or accounted for.       *)
Tidy ==
  Underway => \A e \in tree :
    IsTemp(e) /\ e.run = runs =>
      \/ e.at \in strays \/ e.doc \in ToSet(failed)
      \/ stage \in {"fill", "publish", "unlink"} /\ e.at = TempPath

ExportInv ==
  Typed /\ Labelled /\ Standing /\ Stacked /\ InHand /\ Landed /\ Rooted /\ Tidy /\ NeverPartial

-----------------------------------------------------------------------------
(* Paths.                                                                   *)

\* What is on the way to a path is a part of it that is not empty.
LEMMA OnTheWay ==
  ASSUME NEW p \in Paths, NEW q \in Way(p)
  PROVE  /\ q \in Paths /\ q # <<>> /\ Len(q) \in 1 .. Len(p)
         /\ q = SubSeq(p, 1, Len(q)) /\ Last(q) = p[Len(q)]
<1>1. PICK k \in 1 .. Len(p) : q = SubSeq(p, 1, k)
  BY DEF Way
<1>2. p \in Seq(Components) /\ Len(p) \in Nat /\ k \in 1 .. Len(p)
  BY DEF Paths
<1>3. SubSeq(p, 1, k) \in Seq(Components) /\ Len(SubSeq(p, 1, k)) = k
      /\ SubSeq(p, 1, k)[k] = p[k]
  BY <1>2
<1>4. q \in Seq(Components) /\ Len(q) = k /\ q[k] = p[k]
  BY <1>1, <1>3
<1>5. q # <<>>
  BY <1>2, <1>4
<1>6. q = SubSeq(p, 1, Len(q)) /\ Last(q) = p[Len(q)] /\ Len(q) \in 1 .. Len(p)
  BY <1>1, <1>4 DEF Last
<1> QED BY <1>4, <1>5, <1>6, Zenon DEF Paths

\* A component more: one more path on the way.
LEMMA OneFurther ==
  ASSUME NEW d \in Paths, NEW n \in Components
  PROVE  /\ Append(d, n) \in Paths \ {<<>>}
         /\ Len(d) \in Nat /\ Len(Append(d, n)) = Len(d) + 1
         /\ Last(Append(d, n)) = n /\ Front(Append(d, n)) = d
         /\ Way(Append(d, n)) = Way(d) \cup {Append(d, n)}
<1> DEFINE p == Append(d, n)
<1>1. d \in Seq(Components) /\ Len(d) \in Nat
  BY DEF Paths
<1>2. /\ p \in Seq(Components) /\ Len(p) = Len(d) + 1 /\ p[Len(d) + 1] = n
      /\ \A i \in 1 .. Len(d) : p[i] = d[i]
  BY <1>1
<1> HIDE DEF p
<1>3. p # <<>>
  BY <1>1, <1>2
<1>4. ASSUME NEW k \in 1 .. Len(d) PROVE SubSeq(p, 1, k) = SubSeq(d, 1, k)
  BY <1>1, <1>2
<1>5. SubSeq(p, 1, Len(d)) = d /\ SubSeq(p, 1, Len(p)) = p
  BY <1>1, <1>2
<1>6. Last(p) = n /\ Front(p) = d
  BY <1>1, <1>2, <1>5 DEF Last, Front
<1>7. Way(p) = Way(d) \cup {p}
  <2>1. 1 .. Len(p) = (1 .. Len(d)) \cup {Len(p)}
    BY <1>1, <1>2
  <2> QED BY <2>1, <1>4, <1>5 DEF Way
<1> QED BY <1>1, <1>2, <1>3, <1>6, <1>7 DEF Paths, p

\* The output directory and the one above it are no temporary files.
LEMMA RootWay ==
  /\ Root \in Paths /\ Len(Root) = 2
  /\ \A q \in Way(Root) : /\ q \in Paths \ {<<>>} /\ Len(q) \in Nat /\ Len(q) <= 2 /\ Last(q)[1] # "tmp"
                          /\ q = SubSeq(Root, 1, Len(q))
<1>1. Root \in Paths /\ Len(Root) = 2
  BY RootType DEF Paths
<1>2. Root[1][1] # "tmp" /\ Root[2][1] # "tmp"
  BY RootType
<1>3. ASSUME NEW q \in Way(Root)
      PROVE  /\ q \in Paths \ {<<>>} /\ Len(q) \in Nat /\ Len(q) <= 2 /\ Last(q)[1] # "tmp"
             /\ q = SubSeq(Root, 1, Len(q))
  <2>1. /\ q \in Paths /\ q # <<>> /\ Len(q) \in 1 .. Len(Root) /\ Last(q) = Root[Len(q)]
        /\ q = SubSeq(Root, 1, Len(q))
    <3> DEFINE r == Root
    <3>1. r \in Paths /\ q \in Way(r)
      BY <1>1, <1>3
    <3> HIDE DEF r
    <3>2. /\ q \in Paths /\ q # <<>> /\ Len(q) \in 1 .. Len(r) /\ Last(q) = r[Len(q)]
          /\ q = SubSeq(r, 1, Len(q))
      BY <3>1, OnTheWay, Zenon
    <3> QED BY <3>2 DEF r
  <2>2. Len(q) \in Nat /\ Len(q) <= 2 /\ Last(q)[1] # "tmp"
    BY <1>1, <1>2, <2>1
  <2> QED BY <2>1, <2>2
<1> QED BY <1>1, <1>3

(* The paths a document is written at, and that of the frame it is in.      *)
LEMMA TopType ==
  ASSUME Typed, Stacked, stack # <<>>
  PROVE  /\ Len(stack) \in Nat \ {0} /\ Top = stack[Len(stack)]
         /\ Top \in Frames /\ Top.dir \in Paths /\ Len(Top.dir) = Len(Root) + Len(stack) - 1
         /\ Len(Top.dir) >= 2
         /\ Top.pending \in Seq(Nodes(listing)) /\ IsFiniteSet(Top.names)
<1>1. stack \in Seq(Frames)
  BY DEF Typed, Stacks
<1>2. Len(stack) \in Nat \ {0} /\ Top = stack[Len(stack)] /\ stack[Len(stack)] \in Frames
  BY <1>1 DEF Top, Last
<1>3. Len(stack) \in 1 .. Len(stack)
  BY <1>2
<1>4. Top.dir \in Paths
  BY <1>2 DEF Frames
<1>5. /\ Len(Top.dir) = Len(Root) + Len(stack) - 1
      /\ Top.pending \in Seq(Nodes(listing)) /\ IsFiniteSet(Top.names)
  BY <1>2, <1>3 DEF Stacked
<1>6. Len(Top.dir) >= 2
  BY <1>2, <1>5, RootWay
<1> QED BY <1>2, <1>4, <1>5, <1>6

\* The paths of the document in hand are new ones below the output directory.
LEMMA PlacesType ==
  ASSUME Typed, Stacked, Standing, InHand, stage \in Busy
  PROVE  /\ stack # <<>> /\ runs \in Nat /\ runs >= 1
         /\ current.doc \in Nat \ {NoId} /\ Good(current.name)
         /\ Target \in Paths \ {<<>>} /\ Last(Target)[1] # "tmp" /\ Front(Target) = Top.dir
         /\ TempPath \in Paths \ {<<>>} /\ Last(TempPath) = <<"tmp", runs, current.doc>>
         /\ Last(TempPath)[1] = "tmp"
         /\ Target # TempPath /\ Target \notin Way(Root) /\ TempPath \notin Way(Root)
         /\ Len(Target) <= Len(Root) + MaxDepth + 1 /\ Len(TempPath) <= Len(Root) + MaxDepth + 1
         /\ Way(Target) = Way(Top.dir) \cup {Target}
<1>1. /\ stack # <<>> /\ runs \in Nat /\ runs >= 1 /\ current.doc \in Nodes(listing)
      /\ Good(current.name)
  BY ExportBoundsAssumption DEF InHand, Standing, Typed, Busy
<1>2. current.doc \in Nat \ {NoId}
  BY <1>1, NodesType DEF Typed, Listings
<1>3. Top.dir \in Paths /\ Len(Top.dir) = Len(Root) + Len(stack) - 1 /\ Len(Top.dir) >= 2
      /\ Len(stack) \in Nat
  BY <1>1, TopType
<1> DEFINE name == Fold(FileName(current.name))
           temp == TempName(current.doc)
<1>4. name \in Components /\ name[1] # "tmp"
  BY <1>1, FileNameType
<1>5. temp \in Components /\ temp[1] = "tmp" /\ temp = <<"tmp", runs, current.doc>>
  BY <1>1, <1>2, TempNameType DEF TempName
<1> HIDE DEF name, temp
<1>6. Target = Append(Top.dir, name) /\ TempPath = Append(Top.dir, temp)
  BY DEF Target, TempPath, name, temp
<1> DEFINE dir == Top.dir
<1>7. dir \in Paths
  BY <1>3
<1> HIDE DEF dir
<1>8. /\ Append(dir, name) \in Paths \ {<<>>} /\ Last(Append(dir, name)) = name
      /\ Front(Append(dir, name)) = dir /\ Len(Append(dir, name)) = Len(dir) + 1
      /\ Way(Append(dir, name)) = Way(dir) \cup {Append(dir, name)}
      /\ Append(dir, temp) \in Paths \ {<<>>} /\ Last(Append(dir, temp)) = temp
      /\ Len(Append(dir, temp)) = Len(dir) + 1
  BY <1>4, <1>5, <1>7, OneFurther
<1>9. Target # TempPath
  BY <1>4, <1>5, <1>6, <1>8 DEF dir
<1>10. /\ Len(Target) >= 3 /\ Len(TempPath) >= 3
       /\ Len(Target) <= Len(Root) + MaxDepth + 1 /\ Len(TempPath) <= Len(Root) + MaxDepth + 1
  BY <1>3, <1>6, <1>8, RootWay, ExportBoundsAssumption DEF dir, Typed
<1>11. Target \notin Way(Root) /\ TempPath \notin Way(Root)
  BY <1>10, RootWay
<1> QED BY <1>1, <1>2, <1>4, <1>5, <1>6, <1>8, <1>9, <1>10, <1>11 DEF dir

(* An entry is what there is at its path.                                   *)
LEMMA AtType ==
  ASSUME Typed, Labelled, NEW path
  PROVE  /\ Exists(path) => /\ At(path) \in tree /\ At(path).at = path
                            /\ \A e \in tree : e.at = path => e = At(path)
         /\ \A e \in tree : e.at = path => Exists(path) /\ At(path) = e
         /\ IsDir(path) /\ path # <<>> => DirAt(path)
         /\ DirAt(path) => IsDir(path)
<1>1. \A e, f \in tree : e.at = f.at => e = f
  BY DEF Labelled
<1>2. Exists(path) => At(path) \in tree /\ At(path).at = path
  BY DEF Exists, At
<1>3. \A e \in tree : e.at = path => Exists(path) /\ At(path) = e
  BY <1>1, <1>2 DEF Exists
<1>4. IsDir(path) /\ path # <<>> => DirAt(path)
  BY <1>2 DEF IsDir, DirAt
<1>5. DirAt(path) => IsDir(path)
  BY <1>3 DEF IsDir, DirAt
<1> QED BY <1>1, <1>2, <1>3, <1>4, <1>5

-----------------------------------------------------------------------------
(* What a step does to the tree: what it adds and what it takes away.       *)

Fits(e) ==
  /\ e \in Entries /\ e.run <= runs
  /\ Len(e.at) <= Len(Root) + MaxDepth + 1
  /\ \A f \in tree' : f.at = e.at => f = e

IsNew(e) ==
  /\ Fits(e)
  /\ \/ /\ e.kind = "dir" /\ e.whole /\ ~IsTemp(e)
        /\ stage # "prepare" => e.at \notin Way(Root)
     \/ /\ stage \in Busy /\ stage' \in {"fill", "publish"} /\ UNCHANGED <<stack, current, runs>>
        /\ e.kind = "file" /\ e.at = TempPath /\ e.doc = current.doc /\ e.run = runs
     \/ /\ stage \in Busy /\ e.kind = "file" /\ e.whole /\ e.at = Target

IsGone(e) ==
  /\ stage \in Busy
  /\ \/ e.at = TempPath
     \/ stage = "publish" /\ overwrite /\ e.at = Target /\ e.kind = "file"

TreeStep ==
  /\ \A e \in tree' \ tree : IsNew(e)
  /\ \A e \in tree \ tree' : IsGone(e)

\* A directory as an entry.
LEMMA DirType ==
  ASSUME NEW path \in Paths \ {<<>>}, runs \in Nat
  PROVE  /\ Dir(path) \in Entries /\ Dir(path).at = path /\ Dir(path).kind = "dir"
         /\ Dir(path).run = runs /\ Dir(path).whole
  BY DEF Dir, Entries, NoId

(* The step of a document that fails.                                       *)
LEMMA GiveUpTree ==
  ASSUME ExportInv, stage \in Busy, GiveUp
  PROVE  TreeStep
<1>1. \A e \in tree' \ tree : FALSE
  BY DEF GiveUp
<1>2. \A e \in tree \ tree' : e.at = TempPath
  BY DEF GiveUp
<1> QED BY <1>1, <1>2 DEF TreeStep, IsGone

\* Prepare adds a part of the way to the output directory.
LEMMA PrepareTree ==
  ASSUME ExportInv, Prepare
  PROVE  TreeStep
<1>1. CASE tree' = tree
  BY <1>1 DEF TreeStep
<1>2. CASE tree' # tree
  <2>1. PICK path \in NextMissing : tree' = tree \cup {Dir(path)}
    BY <1>2 DEF Prepare, Refuse
  <2>2. PICK k \in 1 .. Len(Root) : path = SubSeq(Root, 1, k) /\ ~Exists(SubSeq(Root, 1, k))
    BY DEF NextMissing
  <2>3. path \in Way(Root)
    BY <2>2 DEF Way
  <2>4. path \in Paths \ {<<>>} /\ Len(path) \in Nat /\ Len(path) <= 2 /\ Last(path)[1] # "tmp"
    BY <2>3, RootWay
  <2>5. runs \in Nat
    BY ExportBoundsAssumption DEF ExportInv, Typed
  <2>6. /\ Dir(path) \in Entries /\ Dir(path).at = path /\ Dir(path).kind = "dir"
        /\ Dir(path).run = runs /\ Dir(path).whole
    BY <2>4, <2>5, DirType
  <2>7. \A f \in tree' : f.at = path => f = Dir(path)
    BY <2>1, <2>2 DEF Exists
  <2>8. Len(path) <= Len(Root) + MaxDepth + 1
    <3>1. Len(Root) = 2 /\ MaxDepth \in Nat
      BY RootWay, ExportBoundsAssumption
    <3>2. Len(path) \in Int /\ Len(path) <= 2
      BY <2>4
    <3> QED BY <3>1, <3>2
  <2>9. ~IsTemp(Dir(path))
    BY <2>4, <2>6 DEF IsTemp
  <2>10. stage = "prepare"
    BY DEF Prepare
  <2>11. IsNew(Dir(path))
    BY <2>5, <2>6, <2>7, <2>8, <2>9, <2>10 DEF IsNew, Fits
  <2> QED BY <2>1, <2>11 DEF TreeStep
<1> QED BY <1>1, <1>2

\* The next document has a name that is good and free.
LEMMA NodeType ==
  ASSUME ExportInv, stack # <<>>, Top.pending # <<>>
  PROVE  /\ Node \in Nodes(listing) /\ Good(Name) /\ KeyOf(Name) \notin Top.names
         /\ KeyOf(Name) \in Seq(Atoms)
         /\ Children(Planned, Node) \in Seq(Nodes(listing))
         /\ SetToSeq(Descendants(Planned, Node)) \in Seq(Nat)
<1>1. Top.pending \in Seq(Nodes(listing)) /\ IsFiniteSet(Top.names)
  BY TopType DEF ExportInv
<1>2. listing \in Seq(GoodRows)
  BY DEF ExportInv, Typed, Listings
<1>3. Node \in Nodes(listing)
  BY <1>1 DEF Node
<1>4. /\ Children(Planned, Node) \in Seq(Nodes(listing))
      /\ SetToSeq(Descendants(Planned, Node)) \in Seq(Nat)
      /\ Good(Stem(Title(Planned, Node)))
  BY <1>2, <1>3, PlanType DEF Planned
<1>5. Good(Name) /\ KeyOf(Name) \notin Top.names
  BY <1>1, <1>4, ClaimIsGood DEF Name
<1> QED BY <1>3, <1>4, <1>5, KeyType

\* WriteBranch adds a directory below the output directory.
LEMMA BranchTree ==
  ASSUME ExportInv, WriteBranch
  PROVE  TreeStep
<1>1. CASE tree' = tree
  BY <1>1 DEF TreeStep
<1>2. CASE tree' # tree
  <2> DEFINE path == Append(Top.dir, Fold(Name))
  <2>1. tree' = tree \cup {Dir(path)} /\ ~Exists(path)
    BY <1>2 DEF WriteBranch
  <2>2. stack # <<>> /\ Top.pending # <<>> /\ ~Deep /\ stage = "walk"
    BY DEF WriteBranch
  <2>3. Fold(Name) \in Components /\ Fold(Name)[1] # "tmp"
    BY <2>2, NodeType, FoldType
  <2>4. /\ Top.dir \in Paths /\ Len(Top.dir) = Len(Root) + Len(stack) - 1 /\ Len(Top.dir) >= 2
        /\ Len(stack) \in Nat /\ Len(stack) <= MaxDepth
    BY <2>2, TopType, ExportBoundsAssumption DEF ExportInv, Deep
  <2>5. path \in Paths \ {<<>>} /\ Last(path) = Fold(Name) /\ Len(path) = Len(Top.dir) + 1
    BY <2>3, <2>4, OneFurther
  <2> HIDE DEF path
  <2>6. runs \in Nat
    BY ExportBoundsAssumption DEF ExportInv, Typed
  <2>7. /\ Dir(path) \in Entries /\ Dir(path).at = path /\ Dir(path).kind = "dir"
        /\ Dir(path).run = runs /\ Dir(path).whole
    BY <2>5, <2>6, DirType
  <2>8. \A f \in tree' : f.at = path => f = Dir(path)
    BY <2>1 DEF Exists
  <2>9. Len(path) <= Len(Root) + MaxDepth + 1 /\ Len(path) >= 3
    BY <2>4, <2>5, RootWay, ExportBoundsAssumption
  <2>10. ~IsTemp(Dir(path)) /\ path \notin Way(Root)
    BY <2>3, <2>5, <2>7, <2>9, RootWay DEF IsTemp
  <2>11. IsNew(Dir(path))
    BY <2>6, <2>7, <2>8, <2>9, <2>10 DEF IsNew, Fits
  <2> QED BY <2>1, <2>11 DEF TreeStep
<1> QED BY <1>1, <1>2

\* The copies of the document in hand, as entries.
LEMMA CopyType ==
  ASSUME ExportInv, stage \in Busy, NEW doc \in Nat, NEW run \in {0, runs}, NEW whole \in BOOLEAN,
         NEW path \in {TempPath, Target}
  PROVE  LET e == FileEntry(path, doc, run, whole)
         IN  /\ e \in Entries /\ e.at = path /\ e.kind = "file" /\ e.doc = doc
             /\ e.run = run /\ e.whole = whole /\ e.run <= runs
             /\ Len(e.at) <= Len(Root) + MaxDepth + 1
<1>1. /\ path \in Paths \ {<<>>} /\ Len(path) <= Len(Root) + MaxDepth + 1
      /\ run \in Nat /\ run <= runs
  BY PlacesType DEF ExportInv
<1> DEFINE e == FileEntry(path, doc, run, whole)
<1>2. /\ e \in Entries /\ e.at = path /\ e.kind = "file" /\ e.doc = doc
      /\ e.run = run /\ e.whole = whole
  <2>1. doc \in Nat /\ run \in Nat /\ whole \in BOOLEAN /\ path \in Paths \ {<<>>}
    BY <1>1
  <2> QED BY <2>1 DEF FileEntry, Entries
<1> HIDE DEF e
<1>3. e.run <= runs /\ Len(e.at) <= Len(Root) + MaxDepth + 1
  BY <1>1, <1>2
<1> QED BY <1>2, <1>3 DEF e

\* CreateTemp adds the temporary file in hand.
LEMMA CreateTree ==
  ASSUME ExportInv, CreateTemp
  PROVE  TreeStep
<1>1. stage = "create" /\ stage \in Busy /\ ~Exists(TempPath)
  BY DEF CreateTemp, StepOr, Busy
<1>2. CASE GiveUp
  BY <1>1, <1>2, GiveUpTree
<1>3. CASE ~GiveUp
  <2> DEFINE new == FileEntry(TempPath, current.doc, runs, FALSE)
  <2>1. tree' = tree \cup {new} /\ stage' = "fill" /\ UNCHANGED <<stack, current, runs>>
    BY <1>3 DEF CreateTemp, StepOr, budget
  <2>2. current.doc \in Nat
    BY <1>1, PlacesType DEF ExportInv
  <2>3. /\ new \in Entries /\ new.at = TempPath /\ new.kind = "file" /\ new.doc = current.doc
        /\ new.run = runs /\ new.run <= runs /\ Len(new.at) <= Len(Root) + MaxDepth + 1
    BY <1>1, <2>2, CopyType
  <2> HIDE DEF new
  <2>4. \A f \in tree' : f.at = new.at => f = new
    BY <1>1, <2>1, <2>3 DEF Exists
  <2>5. IsNew(new)
    BY <1>1, <2>1, <2>3, <2>4 DEF IsNew, Fits
  <2> QED BY <2>1, <2>5 DEF TreeStep
<1> QED BY <1>2, <1>3

\* FillTemp puts the whole file in its place.
LEMMA FillTree ==
  ASSUME ExportInv, FillTemp
  PROVE  TreeStep
<1>1. stage = "fill" /\ stage \in Busy
  BY DEF FillTemp, StepOr, Busy
<1>2. CASE GiveUp
  BY <1>1, <1>2, GiveUpTree
<1>3. CASE ~GiveUp
  <2> DEFINE new == FileEntry(TempPath, current.doc, runs, TRUE)
  <2>1. /\ tree' = (tree \ {At(TempPath)}) \cup {new} /\ stage' = "publish"
        /\ UNCHANGED <<stack, current, runs>>
    BY <1>3 DEF FillTemp, StepOr
  <2>2. current.doc \in Nat
    BY <1>1, PlacesType DEF ExportInv
  <2>3. /\ new \in Entries /\ new.at = TempPath /\ new.kind = "file" /\ new.doc = current.doc
        /\ new.run = runs /\ new.run <= runs /\ Len(new.at) <= Len(Root) + MaxDepth + 1
    BY <1>1, <2>2, CopyType
  <2> HIDE DEF new
  <2>4. Exists(TempPath)
    BY <1>1 DEF ExportInv, InHand, Exists
  <2>5. At(TempPath) \in tree /\ At(TempPath).at = TempPath
        /\ \A e \in tree : e.at = TempPath => e = At(TempPath)
    BY <2>4, AtType DEF ExportInv
  <2>6. \A f \in tree' : f.at = new.at => f = new
    BY <2>1, <2>3, <2>5
  <2>7. IsNew(new)
    BY <1>1, <2>1, <2>3, <2>6 DEF IsNew, Fits
  <2> QED BY <1>1, <2>1, <2>5, <2>7 DEF TreeStep, IsGone
<1> QED BY <1>2, <1>3

(* A whole copy of the document in hand, under its name.                    *)
LEMMA PublishedType ==
  ASSUME ExportInv, stage \in {"publish", "unlink"}
  PROVE  /\ At(TempPath) \in tree /\ At(TempPath).at = TempPath
         /\ \A e \in tree : e.at = TempPath => e = At(TempPath)
         /\ Published \in Entries /\ Published.at = Target /\ Published.kind = "file"
         /\ Published.doc = current.doc /\ Published.run = runs /\ Published.whole
         /\ Published.run <= runs
         /\ Len(Published.at) <= Len(Root) + MaxDepth + 1
         /\ Target # TempPath /\ Last(Target)[1] # "tmp"
<1>1. stage \in Busy
  BY DEF Busy
<1> DEFINE temp == At(TempPath)
<1>2. PICK e \in tree : e.at = TempPath /\ e.whole
  BY DEF ExportInv, InHand, Busy
<1>3. temp \in tree /\ temp.at = TempPath /\ \A f \in tree : f.at = TempPath => f = temp
  BY <1>2, AtType DEF ExportInv, Exists
<1> HIDE DEF temp
<1>4. temp = e /\ temp.whole /\ temp \in Entries
  BY <1>2, <1>3 DEF ExportInv, Typed
<1>5. /\ Last(TempPath) = <<"tmp", runs, current.doc>> /\ Last(TempPath)[1] = "tmp"
      /\ Target \in Paths \ {<<>>} /\ Target # TempPath /\ Last(Target)[1] # "tmp"
      /\ Len(Target) <= Len(Root) + MaxDepth + 1 /\ runs \in Nat
  BY <1>1, PlacesType DEF ExportInv
<1>6. temp.kind = "file" /\ Last(TempPath) = <<"tmp", temp.run, temp.doc>>
  BY <1>3, <1>5 DEF ExportInv, Labelled, IsTemp
<1>7. temp.run = runs /\ temp.doc = current.doc
  BY <1>5, <1>6
<1> DEFINE new == [temp EXCEPT !.at = Target]
<1>8. /\ new \in Entries /\ new.at = Target /\ new.kind = "file" /\ new.doc = current.doc
      /\ new.run = runs /\ new.whole
  BY <1>4, <1>5, <1>6, <1>7 DEF Entries
<1>9. Published = new
  BY DEF Published, temp
<1> HIDE DEF new
<1> QED BY <1>3, <1>5, <1>8, <1>9 DEF temp

\* Replace moves it over a file that this run has not written.
LEMMA ReplaceTree ==
  ASSUME ExportInv, Replace
  PROVE  TreeStep
<1>1. stage = "publish" /\ stage \in Busy /\ overwrite /\ ~IsDir(Target)
  BY DEF Replace, StepOr, Busy
<1>2. CASE GiveUp
  BY <1>1, <1>2, GiveUpTree
<1>3. CASE ~GiveUp
  <2>1. tree' = (tree \ ({At(TempPath)} \cup AtTarget)) \cup {Published}
    BY <1>3 DEF Replace, StepOr
  <2>2. /\ At(TempPath) \in tree /\ At(TempPath).at = TempPath
        /\ Published \in Entries /\ Published.at = Target /\ Published.kind = "file"
        /\ Published.whole /\ Published.run <= runs
        /\ Len(Published.at) <= Len(Root) + MaxDepth + 1
    BY <1>1, PublishedType
  <2>3. \A e \in AtTarget : e.at = Target /\ e.kind = "file"
    <3>1. ~DirAt(Target)
      BY <1>1, AtType DEF ExportInv
    <3>2. \A e \in tree : e.kind \in {"dir", "file"}
      BY DEF ExportInv, Typed, Entries
    <3> QED BY <3>1, <3>2 DEF AtTarget, DirAt
  <2>4. \A f \in tree' : f.at = Target => f = Published
    BY <2>1 DEF AtTarget
  <2>5. IsNew(Published)
    BY <1>1, <2>2, <2>4 DEF IsNew, Fits
  <2>6. \A e \in tree \ tree' : IsGone(e)
    BY <1>1, <2>1, <2>2, <2>3 DEF IsGone
  <2> QED BY <2>1, <2>5, <2>6 DEF TreeStep
<1> QED BY <1>2, <1>3

\* Link gives it a name that is free.
LEMMA LinkTree ==
  ASSUME ExportInv, Link
  PROVE  TreeStep
<1>1. stage = "publish" /\ stage \in Busy /\ ~Exists(Target)
  BY DEF Link, StepOr, Busy
<1>2. CASE GiveUp
  BY <1>1, <1>2, GiveUpTree
<1>3. CASE ~GiveUp
  <2>1. tree' = tree \cup {Published}
    BY <1>3 DEF Link, StepOr
  <2>2. /\ Published \in Entries /\ Published.at = Target /\ Published.kind = "file"
        /\ Published.whole /\ Published.run <= runs
        /\ Len(Published.at) <= Len(Root) + MaxDepth + 1
    BY <1>1, PublishedType
  <2>3. \A f \in tree' : f.at = Target => f = Published
    BY <1>1, <2>1 DEF Exists
  <2>4. IsNew(Published)
    BY <1>1, <2>2, <2>3 DEF IsNew, Fits
  <2> QED BY <2>1, <2>4 DEF TreeStep
<1> QED BY <1>2, <1>3

\* Unlink takes no more than the temporary name.
LEMMA UnlinkTree ==
  ASSUME ExportInv, Unlink
  PROVE  TreeStep
<1>1. stage = "unlink" /\ stage \in Busy
  BY DEF Unlink, Busy
<1>2. At(TempPath).at = TempPath
  BY <1>1, PublishedType
<1>3. tree' \subseteq tree /\ tree \ tree' \subseteq {At(TempPath)}
  BY DEF Unlink
<1> QED BY <1>1, <1>2, <1>3 DEF TreeStep, IsGone

\* Others save under a name that is free.
LEMMA SaveTree ==
  ASSUME ExportInv, SaveElsewhere
  PROVE  TreeStep
<1> DEFINE new == FileEntry(Target, NoId, 0, TRUE)
<1>1. stage \in Busy /\ ~Exists(Target) /\ tree' = tree \cup {new}
  BY DEF SaveElsewhere, Busy
<1>2. /\ new \in Entries /\ new.at = Target /\ new.kind = "file" /\ new.whole
      /\ new.run <= runs /\ Len(new.at) <= Len(Root) + MaxDepth + 1
  BY <1>1, CopyType DEF NoId
<1> HIDE DEF new
<1>3. \A f \in tree' : f.at = Target => f = new
  BY <1>1 DEF Exists
<1>4. IsNew(new)
  BY <1>1, <1>2, <1>3 DEF IsNew, Fits
<1> QED BY <1>1, <1>4 DEF TreeStep

(* Every step.                                                              *)
LEMMA EveryTreeStep ==
  ASSUME ExportInv, [ExportNext]_exportVars
  PROVE  TreeStep
<1>1. CASE tree' = tree
  BY <1>1 DEF TreeStep
<1>2. CASE GiveUp /\ stage \in Busy
  BY <1>2, GiveUpTree
<1>3. CASE ExportStart \/ List \/ WriteHere \/ FlushLevel \/ FlushParents \/ Finish \/ Kill
  <2>1. tree' = tree
    BY <1>3 DEF ExportStart, List, WriteHere, FlushLevel, FlushParents, Finish, Kill, diskVars
  <2> QED BY <2>1, <1>1
<1>4. CASE Fetch \/ NameTaken \/ Occupied \/ Record
  <2>1. stage \in Busy
    BY <1>4 DEF Fetch, NameTaken, Occupied, Record, StepOr, Busy
  <2>2. tree' = tree \/ GiveUp
    BY <1>4 DEF Fetch, NameTaken, Occupied, Record, StepOr
  <2> QED BY <1>1, <1>2, <2>1, <2>2
<1>5. CASE UNCHANGED exportVars
  BY <1>1, <1>5 DEF exportVars, diskVars
<1> QED
  BY <1>3, <1>4, <1>5, PrepareTree, BranchTree, CreateTree, FillTree, ReplaceTree, LinkTree,
     UnlinkTree, SaveTree
  DEF ExportNext, Write

-----------------------------------------------------------------------------
(* What stays.                                                              *)

(* The steps of the document in hand.                                       *)
Working ==
  /\ stage \in Busy
  /\ \/ Fetch \/ NameTaken \/ CreateTemp \/ FillTemp \/ Replace \/ Link \/ Occupied
     \/ Unlink \/ Record \/ SaveElsewhere

\* The steps, those of the document in hand together.
LEMMA Steps ==
  ASSUME [ExportNext]_exportVars
  PROVE  \/ ExportStart \/ Prepare \/ List \/ WriteHere \/ WriteBranch \/ Working
         \/ FlushLevel \/ FlushParents \/ Finish \/ Kill \/ UNCHANGED exportVars
<1>1. ASSUME \/ Fetch \/ NameTaken \/ CreateTemp \/ FillTemp \/ Replace \/ Link \/ Occupied
             \/ Unlink \/ Record \/ SaveElsewhere
      PROVE  stage \in Busy
  BY <1>1 DEF Fetch, NameTaken, CreateTemp, FillTemp, Replace, Link, Occupied, Unlink, Record,
              SaveElsewhere, StepOr, Busy
<1> QED BY <1>1 DEF ExportNext, Write, Working

\* Faults stay within their bound.
LEMMA FaultType ==
  ASSUME Typed
  PROVE  /\ Fault => faults' \in 0 .. MaxFaults
         /\ faults \in 0 .. MaxFaults
  BY ExportBoundsAssumption DEF Typed, Fault

(* What such a step leaves alone, and what it says of the document.         *)
LEMMA WorkingFacts ==
  ASSUME Typed, Working
  PROVE  /\ UNCHANGED <<collection, listing, overwrite, cut, stack, fresh, undurable, verdict, runs>>
         /\ faults' \in 0 .. MaxFaults
         /\ stage' \in Busy \cup {"walk"}
         /\ \/ /\ GiveUp /\ flushed' = flushed /\ stage' = "walk"
               /\ failed' = failed \o <<current.doc>>
               /\ UNCHANGED <<exported, ownFiles, strays>>
            \/ /\ ~GiveUp /\ UNCHANGED <<current, failed>>
               /\ \/ flushed' = flushed
                  \/ flushed' = flushed \ {Target} /\ stage = "publish" /\ ~IsDir(Target)
               /\ \/ UNCHANGED <<exported, ownFiles>> /\ stage' \in Busy
                  \/ /\ stage = "record" /\ tree' = tree /\ flushed' = flushed
                     /\ exported' = Append(exported, [doc |-> current.doc, at |-> Target])
                     /\ ownFiles' = ownFiles \cup {[doc |-> current.doc, run |-> runs]}
                     /\ stage' = "walk"
               /\ \/ strays' = strays
                  \/ stage = "unlink" /\ strays' = strays \cup {TempPath}
<1>1. Fault => faults' \in 0 .. MaxFaults
  BY FaultType
<1>2. faults' = faults => faults' \in 0 .. MaxFaults
  BY FaultType
<1>3. GiveUp => /\ stage' = "walk" /\ failed' = failed \o <<current.doc>>
                /\ UNCHANGED <<stack, exported, ownFiles, strays>>
  BY DEF GiveUp, Fail
<1> HIDE DEF GiveUp, Fault
<1>4. CASE Fetch \/ CreateTemp \/ FillTemp \/ Link
  BY <1>1, <1>2, <1>3, <1>4 DEF Fetch, CreateTemp, FillTemp, Link, StepOr, Busy, inputVars
<1>5. CASE Replace
  BY <1>1, <1>2, <1>3, <1>5 DEF Replace, StepOr, Busy, inputVars
<1>6. CASE Record
  BY <1>1, <1>2, <1>3, <1>6 DEF Record, StepOr, Busy, inputVars
<1>7. CASE NameTaken \/ Occupied
  BY <1>1, <1>2, <1>3, <1>7 DEF NameTaken, Occupied, Busy, inputVars, budget
<1>8. CASE Unlink
  BY <1>1, <1>2, <1>3, <1>8 DEF Unlink, Busy, inputVars, walkVars
<1>9. CASE SaveElsewhere
  BY <1>1, <1>2, <1>3, <1>9 DEF SaveElsewhere, Working, inputVars, walkVars, reportVars
<1> QED BY <1>4, <1>5, <1>6, <1>7, <1>8, <1>9 DEF Working

\* Runs are counted up, by a start only.
LEMMA RunsGrow ==
  ASSUME Typed, [ExportNext]_exportVars
  PROVE  /\ runs \in Nat /\ runs' \in 0 .. MaxRuns /\ runs' \in Nat /\ runs <= runs'
         /\ runs' # runs => ExportStart
<1>1. runs \in Nat /\ runs \in 0 .. MaxRuns /\ MaxRuns \in Nat
  BY ExportBoundsAssumption DEF Typed
<1>2. CASE ExportStart
  BY <1>1, <1>2 DEF ExportStart
<1>3. CASE Working
  BY <1>1, <1>3, WorkingFacts
<1>4. CASE Prepare \/ List \/ WriteHere \/ WriteBranch \/ FlushLevel \/ FlushParents \/ Finish \/ Kill
           \/ UNCHANGED exportVars
  <2>1. runs' = runs
    BY <1>4 DEF Prepare, List, WriteHere, WriteBranch, FlushLevel, FlushParents, Finish, Kill,
                exportVars, budget
  <2> QED BY <1>1, <2>1
<1> QED BY <1>2, <1>3, <1>4, Steps

(* The directories stay, and so do the files this run has written.          *)
LEMMA WhatStays ==
  ASSUME ExportInv, [ExportNext]_exportVars
  PROVE  /\ \A e \in tree : e.kind = "dir" => e \in tree'
         /\ \A q : DirAt(q) => DirAt(q)'
         /\ \A e \in tree :
              ~IsTemp(e) /\ e.kind = "file" /\ [doc |-> e.doc, run |-> e.run] \in ownFiles
                => e \in tree'
<1>1. TreeStep
  BY EveryTreeStep
<1>2. ASSUME NEW e \in tree, e \notin tree'
      PROVE  /\ e.kind = "file"
             /\ ~IsTemp(e) => /\ stage = "publish" /\ e.at = Target
                              /\ [doc |-> e.doc, run |-> e.run] \notin ownFiles
  <2>1. IsGone(e) /\ stage \in Busy
    BY <1>1, <1>2 DEF TreeStep, IsGone
  <2>2. CASE e.at = TempPath
    <3>1. Last(TempPath)[1] = "tmp"
      BY <2>1, PlacesType DEF ExportInv
    <3>2. IsTemp(e)
      BY <2>2, <3>1 DEF IsTemp
    <3> QED BY <3>2 DEF ExportInv, Labelled
  <2>3. CASE stage = "publish" /\ e.at = Target /\ e.kind = "file"
    <3>1. ~Taken
      BY <2>1, <2>3 DEF ExportInv, InHand
    <3>2. Exists(Target) /\ At(Target) = e
      BY <2>3, AtType DEF ExportInv
    <3> QED BY <2>3, <3>1, <3>2 DEF Taken
  <2> QED BY <2>1, <2>2, <2>3 DEF IsGone
<1>3. \A e \in tree : e.kind = "dir" => e \in tree'
  BY <1>2
<1> QED BY <1>2, <1>3 DEF DirAt

(* One entry to a path, and every one what its name says.                   *)
LEMMA LabelledStep ==
  ASSUME ExportInv, [ExportNext]_exportVars
  PROVE  Labelled' /\ NeverPartial' /\ tree' \subseteq Entries
<1>1. TreeStep
  BY EveryTreeStep
<1>2. runs \in Nat /\ runs' \in Nat /\ runs <= runs'
  BY RunsGrow DEF ExportInv
<1>3. Labelled /\ NeverPartial /\ tree \subseteq Entries
  BY DEF ExportInv, Typed
<1>4. ASSUME NEW e \in tree', e \notin tree
      PROVE  /\ e \in Entries /\ e.run <= runs
             /\ Len(e.at) <= Len(Root) + MaxDepth + 1
             /\ \A f \in tree' : f.at = e.at => f = e
             /\ e.at \in Way(Root) => e.kind = "dir"
             /\ IsTemp(e) => /\ e.kind = "file" /\ Last(e.at) = <<"tmp", e.run, e.doc>>
                             /\ e.doc # NoId /\ e.run >= 1
             /\ IsTemp(e) \/ e.whole
  <2>1. IsNew(e)
    BY <1>1, <1>4 DEF TreeStep
  <2>2. CASE e.kind = "dir" /\ e.whole /\ ~IsTemp(e)
    BY <2>1, <2>2 DEF IsNew, Fits
  <2>3. CASE stage \in Busy /\ e.kind = "file" /\ e.at = TempPath /\ e.doc = current.doc /\ e.run = runs
    <3>1. /\ TempPath \notin Way(Root) /\ Last(TempPath) = <<"tmp", runs, current.doc>>
          /\ Last(TempPath)[1] = "tmp" /\ current.doc # NoId /\ runs >= 1
      BY <2>3, PlacesType DEF ExportInv
    <3> QED BY <2>1, <2>3, <3>1 DEF IsNew, Fits, IsTemp
  <2>4. CASE stage \in Busy /\ e.kind = "file" /\ e.whole /\ e.at = Target
    <3>1. Target \notin Way(Root) /\ Last(Target)[1] # "tmp"
      BY <2>4, PlacesType DEF ExportInv
    <3> QED BY <2>1, <2>4, <3>1 DEF IsNew, Fits, IsTemp
  <2> QED BY <2>1, <2>2, <2>3, <2>4 DEF IsNew
<1>5. NeverPartial'
  BY <1>3, <1>4 DEF NeverPartial
<1>6. \A e, f \in tree' : e.at = f.at => e = f
  BY <1>3, <1>4 DEF Labelled
<1>7. ASSUME NEW e \in tree'
      PROVE  /\ e.run <= runs'
             /\ e.at \in Way(Root) => e.kind = "dir"
             /\ Len(e.at) <= Len(Root) + MaxDepth + 1
             /\ IsTemp(e) => /\ e.kind = "file" /\ Last(e.at) = <<"tmp", e.run, e.doc>>
                             /\ e.doc # NoId /\ e.run >= 1
  <2>1. e \in Entries /\ e.run <= runs
    BY <1>3, <1>4 DEF Labelled
  <2>2. e.run <= runs'
    BY <1>2, <2>1 DEF Entries
  <2> QED BY <1>3, <1>4, <2>2 DEF Labelled
<1>8. Labelled'
  BY <1>6, <1>7 DEF Labelled, IsTemp, Way, Root
<1>9. tree' \subseteq Entries
  BY <1>3, <1>4
<1> QED BY <1>5, <1>8, <1>9

-----------------------------------------------------------------------------
(* What each variable holds after a step.                                   *)

\* A sequence without its last or its first element.
LEMMA Shorter ==
  ASSUME NEW S, NEW s \in Seq(S), s # <<>>
  PROVE  /\ Front(s) \in Seq(S) /\ Len(Front(s)) = Len(s) - 1 /\ Len(s) \in Nat \ {0}
         /\ Tail(s) \in Seq(S) /\ Len(Tail(s)) = Len(s) - 1 /\ Head(s) \in S
         /\ \A i \in 1 .. Len(s) - 1 : Front(s)[i] = s[i] /\ Tail(s)[i] = s[i + 1]
<1>1. Len(s) \in Nat \ {0} /\ \A i \in 1 .. Len(s) : s[i] \in S
  OBVIOUS
<1>2. /\ Tail(s) \in Seq(S) /\ Len(Tail(s)) = Len(s) - 1
      /\ \A i \in 1 .. Len(s) - 1 : Tail(s)[i] = s[i + 1]
  OBVIOUS
<1>3. Head(s) \in S
  BY <1>1
<1>4. Front(s) = SubSeq(s, 1, Len(s) - 1)
  BY DEF Front
<1> DEFINE n == Len(s) - 1
<1>5. n \in Nat /\ n \in 0 .. Len(s)
  BY <1>1
<1> HIDE DEF n
<1>6. /\ SubSeq(s, 1, n) \in Seq(S) /\ Len(SubSeq(s, 1, n)) = n
      /\ \A i \in 1 .. n : SubSeq(s, 1, n)[i] = s[i]
  <2>1. SubSeq(s, 1, n) = [i \in 1 .. n |-> s[i]]
    BY <1>5 DEF n
  <2>2. \A i \in 1 .. n : s[i] \in S
    BY <1>1, <1>5
  <2>3. [i \in 1 .. n |-> s[i]] \in Seq(S) /\ Len([i \in 1 .. n |-> s[i]]) = n
    BY <1>5, <2>2
  <2> QED BY <2>1, <2>3
<1> QED BY <1>1, <1>2, <1>3, <1>4, <1>6 DEF n

\* The top of the stack is put in place of itself.
LEMMA TopReplaced ==
  ASSUME Typed, Stacked, stack # <<>>, NEW frame \in Frames
  PROVE  /\ WithTop(frame) \in Stacks /\ Len(WithTop(frame)) = Len(stack)
         /\ WithTop(frame)[Len(stack)] = frame
         /\ \A i \in 1 .. Len(stack) - 1 : WithTop(frame)[i] = stack[i]
<1>1. stack \in Seq(Frames)
  BY DEF Typed, Stacks
<1>2. Front(stack) \in Seq(Frames) /\ Len(Front(stack)) = Len(stack) - 1 /\ Len(stack) \in Nat \ {0}
      /\ \A i \in 1 .. Len(stack) - 1 : Front(stack)[i] = stack[i]
  BY <1>1, Shorter
<1> DEFINE before == Front(stack)
<1> HIDE DEF before
<1>3. /\ Append(before, frame) \in Seq(Frames) /\ Len(Append(before, frame)) = Len(before) + 1
      /\ Append(before, frame)[Len(before) + 1] = frame
      /\ \A i \in 1 .. Len(before) : Append(before, frame)[i] = before[i]
  BY <1>2 DEF before
<1>4. WithTop(frame) = Append(before, frame)
  BY DEF WithTop, before
<1> QED BY <1>2, <1>3, <1>4 DEF before, Stacks

\* The top of the stack, when its first document is taken off.
LEMMA AdvancedType ==
  ASSUME ExportInv, stack # <<>>, Top.pending # <<>>, NEW more \in Seq(Nodes(listing))
  PROVE  /\ Advanced(more) \in Frames /\ Advanced(more).dir = Top.dir
         /\ Advanced(more).pending \in Seq(Nodes(listing)) /\ IsFiniteSet(Advanced(more).names)
<1>1. /\ Top \in Frames /\ Top.pending \in Seq(Nodes(listing)) /\ IsFiniteSet(Top.names)
  BY TopType DEF ExportInv
<1>2. KeyOf(Name) \in Seq(Atoms)
  BY NodeType
<1> DEFINE pending == Tail(Top.pending) \o more
           names == Top.names \cup {KeyOf(Name)}
           key == KeyOf(Name)
<1>3. pending \in Seq(Nodes(listing))
  <2>1. Tail(Top.pending) \in Seq(Nodes(listing))
    BY <1>1, Shorter
  <2> QED BY <2>1
<1>4. Nodes(listing) \subseteq Nat
  BY NodesType DEF ExportInv, Typed, Listings
<1>5. pending \in Seq(Nat)
  <2> HIDE DEF pending
  <2> QED BY <1>3, <1>4
<1>6. IsFiniteSet(names)
  BY <1>1, FS_AddElement
<1>7. names \in SUBSET Seq(Atoms)
  <2>1. Top.names \in SUBSET Seq(Atoms)
    BY <1>1 DEF Frames
  <2> QED BY <1>2, <2>1
<1>8. Advanced(more) = [Top EXCEPT !.pending = pending, !.names = names]
  BY DEF Advanced
<1> HIDE DEF pending, names
<1>9. /\ Advanced(more) \in Frames /\ Advanced(more).dir = Top.dir
      /\ Advanced(more).pending = pending /\ Advanced(more).names = names
  BY <1>1, <1>5, <1>7, <1>8 DEF Frames
<1> QED BY <1>3, <1>6, <1>9

\* What a run starts with is of the right types.
LEMMA NothingYet ==
  /\ <<>> \in Listings /\ <<>> \in Stacks /\ <<>> \in Records /\ <<>> \in Seq(Paths) /\ <<>> \in Seq(Nat)
  /\ Len(<<>>) = 0 /\ 0 <= MaxDepth + 1
  BY ExportBoundsAssumption DEF Listings, Stacks, Records

\* The types after ExportStart.
LEMMA StartTyped ==
  ASSUME ExportInv, ExportStart
  PROVE  Typed'
<1>0. [ExportNext]_exportVars
  BY DEF ExportNext
<1>1. collection' \in Listings
  <2>1. CASE collection' \in Collections
    BY <2>1, StemsAreGood DEF Listings
  <2> QED BY <2>1 DEF ExportStart, ExportInv, Typed
<1>2. runs' \in 0 .. MaxRuns
  BY <1>0, RunsGrow DEF ExportInv
<1>3. faults' \in 0 .. MaxFaults /\ tree' \subseteq Entries
  BY <1>0, LabelledStep DEF ExportStart, ExportInv, Typed
<1>4. overwrite' \in BOOLEAN /\ undurable' \in BOOLEAN
  BY DEF ExportStart
<1>5. /\ stage' = "prepare" /\ verdict' = "none" /\ cut' = "no" /\ ownFiles' = {}
      /\ listing' = <<>> /\ stack' = <<>> /\ fresh' = <<>> /\ exported' = <<>> /\ failed' = <<>>
  BY DEF ExportStart
<1> QED BY <1>1, <1>2, <1>3, <1>4, <1>5, NothingYet DEF Typed, Stages

\* The types after Prepare.
LEMMA PrepareTyped ==
  ASSUME ExportInv, Prepare
  PROVE  Typed'
<1>0. [ExportNext]_exportVars
  BY DEF ExportNext
<1>1. faults' \in 0 .. MaxFaults
  BY FaultType DEF Prepare, ExportInv
<1>2. tree' \subseteq Entries
  BY <1>0, LabelledStep
<1>3. fresh' \in Seq(Paths)
  <2>1. CASE fresh' = fresh
    BY <2>1 DEF ExportInv, Typed
  <2>2. CASE fresh' # fresh
    <3>1. PICK path \in NextMissing : fresh' = <<Front(path)>> \o fresh
      BY <2>2 DEF Prepare
    <3>2. path \in Way(Root)
      BY DEF NextMissing, Way
    <3>3. path \in Seq(Components) /\ path # <<>>
      BY <3>2, RootWay DEF Paths
    <3>4. Front(path) \in Paths
      BY <3>3, Shorter DEF Paths
    <3>5. fresh \in Seq(Paths)
      BY DEF ExportInv, Typed
    <3> DEFINE up == Front(path)
    <3> HIDE DEF up
    <3>6. <<up>> \o fresh \in Seq(Paths)
      BY <3>4, <3>5 DEF up
    <3> QED BY <3>1, <3>6 DEF up
  <2> QED BY <2>1, <2>2
<1>4. stage' \in Stages /\ verdict' \in {"none", "complete", "partial", "refused"}
  BY DEF Prepare, Refuse, ExportInv, Typed, Stages
<1>5. UNCHANGED <<collection, listing, overwrite, cut, stack, exported, failed, ownFiles, undurable, runs>>
  BY DEF Prepare, inputVars, reportVars
<1> QED BY <1>1, <1>2, <1>3, <1>4, <1>5 DEF ExportInv, Typed

(* What a listing is and what the walk starts from.                         *)
LEMMA ListFacts ==
  ASSUME ExportInv, List, stage' = "walk"
  PROVE  /\ listing' \in Listings /\ failed' \in Seq(Nat)
         /\ stack' \in Stacks /\ Len(stack') = 1
         /\ stack'[1].pending \in Seq(Nodes(listing')) /\ stack'[1].dir = Root /\ stack'[1].names = {}
<1>1. listing' = collection \/ (listing' = Front(collection) /\ collection # <<>>)
  BY DEF List, Refuse
<1>2. listing' \in Seq(GoodRows)
  <2>1. collection \in Seq(GoodRows)
    BY DEF ExportInv, Typed, Listings
  <2> QED BY <1>1, <2>1, Shorter
<1> DEFINE listed == Plan(listing')
           kids == Children(listed, NoId)
           base == [dir |-> Root, pending |-> kids, names |-> {}]
<1>3. stack' = <<base>> /\ failed' = [k \in 1 .. Cardinality(listed.unusable) |-> NoId]
  BY DEF List, Refuse
<1>4. kids \in Seq(Nodes(listing')) /\ Cardinality(listed.unusable) \in Nat
  BY <1>2, PlanType
<1>5. kids \in Seq(Nat)
  <2>1. Nodes(listing') \subseteq Nat
    BY <1>2, NodesType
  <2> HIDE DEF kids
  <2> QED BY <1>4, <2>1
<1>6. failed' \in Seq(Nat)
  <2> DEFINE size == Cardinality(listed.unusable)
  <2>1. size \in Nat
    BY <1>4
  <2> HIDE DEF size
  <2>2. [k \in 1 .. size |-> 0] \in Seq(Nat)
    BY <2>1
  <2> QED BY <1>3, <2>2 DEF size, NoId
<1> HIDE DEF kids
<1>7. base \in Frames /\ base.dir = Root /\ base.pending = kids /\ base.names = {}
  BY <1>5, RootWay DEF Frames
<1> HIDE DEF base
<1>8. <<base>> \in Seq(Frames) /\ Len(<<base>>) = 1 /\ <<base>>[1] = base
  BY <1>7
<1> QED BY <1>2, <1>3, <1>4, <1>6, <1>7, <1>8 DEF Listings, Stacks

\* The types after List.
LEMMA ListTyped ==
  ASSUME ExportInv, List
  PROVE  Typed'
<1>0. [ExportNext]_exportVars
  BY DEF ExportNext
<1>1. faults' \in 0 .. MaxFaults /\ tree' \subseteq Entries
  BY <1>0, FaultType, LabelledStep DEF List, ExportInv
<1>2. UNCHANGED <<collection, overwrite, fresh, exported, ownFiles, undurable, runs>>
  BY DEF List
<1>3. CASE stage' = "walk"
  <2>1. cut' \in {"no", "cap", "limit"} /\ verdict' = verdict
    BY <1>3 DEF List, Refuse
  <2>2. 1 <= MaxDepth + 1
    BY ExportBoundsAssumption
  <2> QED BY <1>1, <1>2, <1>3, <2>1, <2>2, ListFacts DEF ExportInv, Typed, Stages
<1>4. CASE stage' # "walk"
  <2>1. UNCHANGED <<listing, cut, stack, failed>> /\ stage' = "done" /\ verdict' = "refused"
    BY <1>4 DEF List, Refuse
  <2> QED BY <1>1, <1>2, <2>1 DEF ExportInv, Typed, Stages
<1> QED BY <1>3, <1>4

\* WriteHere keeps the directories of the stack.
LEMMA HereFacts ==
  ASSUME ExportInv, WriteHere
  PROVE  /\ stack' \in Stacks /\ Len(stack') = Len(stack) /\ Len(stack) \in Nat \ {0}
         /\ \A j \in 1 .. Len(stack) :
              /\ stack'[j].dir = stack[j].dir
              /\ stack'[j].pending \in Seq(Nodes(listing)) /\ IsFiniteSet(stack'[j].names)
         /\ current'.doc \in Nodes(listing) /\ Good(current'.name)
<1> DEFINE frame == Advanced(Children(Planned, Node))
<1>1. stack # <<>> /\ Top.pending # <<>> /\ stack' = WithTop(frame)
      /\ current' = [doc |-> Node, name |-> Name]
  BY DEF WriteHere
<1>2. Children(Planned, Node) \in Seq(Nodes(listing)) /\ Node \in Nodes(listing) /\ Good(Name)
  BY <1>1, NodeType
<1>3. frame \in Frames /\ frame.dir = Top.dir /\ frame.pending \in Seq(Nodes(listing))
      /\ IsFiniteSet(frame.names)
  BY <1>1, <1>2, AdvancedType
<1> HIDE DEF frame
<1>4. /\ stack' \in Stacks /\ Len(stack') = Len(stack) /\ stack'[Len(stack)] = frame
      /\ \A i \in 1 .. Len(stack) - 1 : stack'[i] = stack[i]
  BY <1>1, <1>3, TopReplaced DEF ExportInv
<1>5. Len(stack) \in Nat \ {0} /\ Top = stack[Len(stack)]
  BY <1>1, TopType DEF ExportInv
<1>6. ASSUME NEW j \in 1 .. Len(stack)
      PROVE  /\ stack'[j].dir = stack[j].dir
             /\ stack'[j].pending \in Seq(Nodes(listing)) /\ IsFiniteSet(stack'[j].names)
  <2>1. CASE j = Len(stack)
    BY <1>3, <1>4, <1>5, <2>1
  <2>2. CASE j # Len(stack)
    <3>1. j \in 1 .. Len(stack) - 1
      BY <1>5, <2>2
    <3> QED BY <1>4, <3>1 DEF ExportInv, Stacked
  <2> QED BY <2>1, <2>2
<1> QED BY <1>1, <1>2, <1>4, <1>5, <1>6

\* The types after WriteHere.
LEMMA HereTyped ==
  ASSUME ExportInv, WriteHere
  PROVE  Typed'
<1>1. /\ UNCHANGED <<tree, collection, listing, overwrite, cut, fresh, exported, failed, ownFiles,
                     undurable, verdict, runs, faults>>
      /\ stage' = "fetch"
  BY DEF WriteHere, diskVars, inputVars, reportVars, budget
<1> QED BY <1>1, HereFacts DEF ExportInv, Typed, Stages

(* The directory a document and what is below it go into.                   *)
Inner == Append(Top.dir, Fold(Name))

\* WriteBranch keeps them too, and may add one inside the last.
LEMMA BranchFacts ==
  ASSUME ExportInv, WriteBranch
  PROVE  /\ stack' \in Stacks /\ Len(stack) \in Nat \ {0}
         /\ \/ Len(stack') = Len(stack) /\ stage' = "walk"
            \/ /\ Len(stack') = Len(stack) + 1 /\ Len(stack') <= MaxDepth + 1
               /\ stack'[Len(stack')].dir = Inner
               /\ stack'[Len(stack')].pending \in Seq(Nodes(listing))
               /\ IsFiniteSet(stack'[Len(stack')].names)
               /\ \E e \in tree' : e.at = Inner /\ e.kind = "dir"
               /\ stage' = "fetch" /\ failed' = failed
               /\ current'.doc \in Nodes(listing) /\ Good(current'.name)
         /\ \A j \in 1 .. Len(stack) :
              /\ stack'[j].dir = stack[j].dir
              /\ stack'[j].pending \in Seq(Nodes(listing)) /\ IsFiniteSet(stack'[j].names)
         /\ \/ failed' = failed
            \/ \E more \in Seq(Nat) : failed' = failed \o more
         /\ Inner \in Paths \ {<<>>} /\ Front(Inner) = Top.dir
         /\ Way(Inner) = Way(Top.dir) \cup {Inner} /\ Len(Inner) = Len(Top.dir) + 1
         /\ Top.dir \in Paths
<1> DEFINE frame == Advanced(<<>>)
           below == SetToSeq(Descendants(Planned, Node))
           kids == Children(Planned, Node)
           inside == [dir |-> Inner, pending |-> kids, names |-> {KeyOf(Name)}]
<1>1. stack # <<>> /\ Top.pending # <<>> /\ ~Deep /\ stage = "walk"
  BY DEF WriteBranch
<1>2. /\ Node \in Nodes(listing) /\ Good(Name) /\ KeyOf(Name) \in Seq(Atoms)
      /\ kids \in Seq(Nodes(listing)) /\ below \in Seq(Nat)
  BY <1>1, NodeType
<1>3. <<>> \in Seq(Nodes(listing))
  OBVIOUS
<1>4. frame \in Frames /\ frame.dir = Top.dir /\ frame.pending \in Seq(Nodes(listing))
      /\ IsFiniteSet(frame.names)
  BY <1>1, <1>3, AdvancedType
<1>5. /\ Len(stack) \in Nat \ {0} /\ Top = stack[Len(stack)] /\ Top.dir \in Paths
  BY <1>1, TopType DEF ExportInv
<1>6. Fold(Name) \in Components
  BY <1>2, FoldType
<1>7. Inner \in Paths \ {<<>>} /\ Front(Inner) = Top.dir /\ Len(Inner) = Len(Top.dir) + 1
      /\ Way(Inner) = Way(Top.dir) \cup {Inner}
  BY <1>5, <1>6, OneFurther DEF Inner
<1>8. kids \in Seq(Nat)
  <2>1. Nodes(listing) \subseteq Nat
    BY NodesType DEF ExportInv, Typed, Listings
  <2> HIDE DEF kids
  <2> QED BY <1>2, <2>1
<1>9. \/ /\ stack' = Append(WithTop(frame), inside) /\ current' = [doc |-> Node, name |-> Name]
         /\ stage' = "fetch" /\ failed' = failed
         /\ \/ tree' = tree /\ IsDir(Inner)
            \/ tree' = tree \cup {Dir(Inner)}
      \/ stack' = WithTop(frame) /\ stage' = stage /\ failed' = failed \o (<<Node>> \o below)
  BY DEF WriteBranch, Fail, Inner
<1>10. <<Node>> \o below \in Seq(Nat)
  <2>1. Node \in Nat
    BY <1>2, NodesType DEF ExportInv, Typed, Listings
  <2> HIDE DEF below
  <2> QED BY <1>2, <2>1
<1> HIDE DEF frame, kids, below
<1>11. /\ inside \in Frames /\ inside.dir = Inner /\ inside.pending = kids
       /\ inside.names = {KeyOf(Name)} /\ IsFiniteSet(inside.names)
  BY <1>2, <1>7, <1>8, FS_Singleton DEF Frames
<1> HIDE DEF inside
<1>12. /\ WithTop(frame) \in Seq(Frames) /\ Len(WithTop(frame)) = Len(stack)
       /\ WithTop(frame)[Len(stack)] = frame
       /\ \A i \in 1 .. Len(stack) - 1 : WithTop(frame)[i] = stack[i]
  BY <1>1, <1>4, TopReplaced DEF ExportInv, Stacks
<1> DEFINE base == WithTop(frame)
<1>13. ASSUME NEW j \in 1 .. Len(stack)
       PROVE  /\ base[j].dir = stack[j].dir
              /\ base[j].pending \in Seq(Nodes(listing)) /\ IsFiniteSet(base[j].names)
  <2>1. CASE j = Len(stack)
    BY <1>4, <1>5, <1>12, <2>1
  <2>2. CASE j # Len(stack)
    <3>1. j \in 1 .. Len(stack) - 1
      BY <1>5, <2>2
    <3> QED BY <1>12, <3>1 DEF ExportInv, Stacked
  <2> QED BY <2>1, <2>2
<1>14. /\ base \in Seq(Frames) /\ Len(base) = Len(stack)
  BY <1>12
<1> HIDE DEF base
<1>15. CASE stack' = base /\ stage' = stage /\ failed' = failed \o (<<Node>> \o below)
  BY <1>1, <1>5, <1>7, <1>10, <1>13, <1>14, <1>15 DEF Stacks
<1>16. CASE /\ stack' = Append(base, inside) /\ current' = [doc |-> Node, name |-> Name]
            /\ stage' = "fetch" /\ failed' = failed
            /\ \/ tree' = tree /\ IsDir(Inner)
               \/ tree' = tree \cup {Dir(Inner)}
  <2>1. /\ Append(base, inside) \in Seq(Frames) /\ Len(Append(base, inside)) = Len(stack) + 1
        /\ Append(base, inside)[Len(stack) + 1] = inside
        /\ \A j \in 1 .. Len(stack) : Append(base, inside)[j] = base[j]
    BY <1>5, <1>11, <1>14
  <2>2. Len(stack) + 1 <= MaxDepth + 1
    BY <1>1, <1>5, ExportBoundsAssumption DEF Deep
  <2>3. \E e \in tree' : e.at = Inner /\ e.kind = "dir"
    <3>1. CASE tree' = tree /\ IsDir(Inner)
      <4>1. DirAt(Inner)
        BY <1>7, <3>1, AtType DEF ExportInv
      <4> QED BY <1>16, <3>1, <4>1 DEF DirAt
    <3>2. CASE tree' = tree \cup {Dir(Inner)}
      <4> DEFINE path == Inner
      <4>1. path \in Paths \ {<<>>} /\ runs \in Nat
        BY <1>7, ExportBoundsAssumption DEF ExportInv, Typed
      <4> HIDE DEF path
      <4>2. Dir(path).at = path /\ Dir(path).kind = "dir"
        BY <4>1, DirType
      <4> QED BY <3>2, <4>2 DEF path
    <3> QED BY <1>16, <3>1, <3>2
  <2>4. current'.doc \in Nodes(listing) /\ Good(current'.name)
    BY <1>2, <1>16
  <2>5. /\ stack'[Len(stack')].dir = Inner
        /\ stack'[Len(stack')].pending \in Seq(Nodes(listing))
        /\ IsFiniteSet(stack'[Len(stack')].names)
    BY <1>2, <1>11, <1>16, <2>1 DEF kids
  <2> QED BY <1>5, <1>7, <1>13, <1>16, <2>1, <2>2, <2>3, <2>4, <2>5 DEF Stacks
<1> QED BY <1>9, <1>15, <1>16 DEF base

\* The types after WriteBranch.
LEMMA BranchTyped ==
  ASSUME ExportInv, WriteBranch
  PROVE  Typed'
<1>0. [ExportNext]_exportVars
  BY DEF ExportNext, Write
<1>1. /\ UNCHANGED <<collection, listing, overwrite, cut, fresh, exported, ownFiles, undurable,
                     verdict, runs>>
      /\ stage' \in {"walk", "fetch"}
  BY DEF WriteBranch, inputVars
<1>2. faults' \in 0 .. MaxFaults
  BY FaultType DEF WriteBranch, ExportInv
<1>3. failed' \in Seq(Nat)
  <2>1. failed \in Seq(Nat)
    BY DEF ExportInv, Typed
  <2>2. failed' = failed \/ \E more \in Seq(Nat) : failed' = failed \o more
    BY BranchFacts
  <2>3. ASSUME NEW more \in Seq(Nat) PROVE failed \o more \in Seq(Nat)
    BY <2>1
  <2> QED BY <2>1, <2>2, <2>3
<1>4. stack' \in Stacks /\ Len(stack') <= MaxDepth + 1
  BY BranchFacts DEF ExportInv, Typed
<1>5. tree' \subseteq Entries
  BY <1>0, LabelledStep
<1> QED BY <1>1, <1>2, <1>3, <1>4, <1>5 DEF ExportInv, Typed, Stages

\* The types after a step of the document in hand.
LEMMA WorkTyped ==
  ASSUME ExportInv, Working
  PROVE  Typed'
<1>0. [ExportNext]_exportVars
  BY DEF Working, ExportNext, Write
<1>1. tree' \subseteq Entries
  BY <1>0, LabelledStep
<1>2. /\ UNCHANGED <<collection, listing, overwrite, cut, stack, fresh, undurable, verdict, runs>>
      /\ faults' \in 0 .. MaxFaults /\ stage' \in Busy \cup {"walk"}
  BY WorkingFacts DEF ExportInv
<1>3. current.doc \in Nat \ {NoId} /\ Target \in Paths \ {<<>>}
  BY PlacesType DEF ExportInv, Working
<1>4. failed' \in Seq(Nat)
  <2>1. failed \in Seq(Nat)
    BY DEF ExportInv, Typed
  <2>2. failed' = failed \/ failed' = failed \o <<current.doc>>
    BY WorkingFacts DEF ExportInv
  <2> QED BY <1>3, <2>1, <2>2
<1>5. exported' \in Records /\ ownFiles' \subseteq [doc : Nat \ {NoId}, run : {runs}]
  <2>1. exported \in Records /\ ownFiles \subseteq [doc : Nat \ {NoId}, run : {runs}]
    BY DEF ExportInv, Typed
  <2>2. \/ UNCHANGED <<exported, ownFiles>>
        \/ /\ exported' = Append(exported, [doc |-> current.doc, at |-> Target])
           /\ ownFiles' = ownFiles \cup {[doc |-> current.doc, run |-> runs]}
    BY WorkingFacts DEF ExportInv
  <2> DEFINE record == [doc |-> current.doc, at |-> Target]
             own == [doc |-> current.doc, run |-> runs]
  <2>3. record \in [doc : Nat \ {NoId}, at : Paths \ {<<>>}] /\ own \in [doc : Nat \ {NoId}, run : {runs}]
    BY <1>3
  <2> HIDE DEF record, own
  <2>4. Append(exported, record) \in Records
    BY <2>1, <2>3 DEF Records
  <2>5. exported' \in Records
    BY <2>1, <2>2, <2>4 DEF record
  <2>6. ownFiles' \subseteq [doc : Nat \ {NoId}, run : {runs}]
    BY <2>1, <2>2, <2>3 DEF own
  <2> QED BY <2>5, <2>6
<1> QED BY <1>1, <1>2, <1>4, <1>5 DEF ExportInv, Typed, Busy, Stages

\* FlushLevel takes the last directory off the stack.
LEMMA LevelFacts ==
  ASSUME ExportInv, FlushLevel
  PROVE  /\ stack # <<>> /\ Len(stack) \in Nat \ {0} /\ Top = stack[Len(stack)]
         /\ stack' \in Stacks /\ Len(stack') = Len(stack) - 1
         /\ \A j \in 1 .. Len(stack) - 1 : stack'[j] = stack[j]
         /\ stage' = "parents" => stack' = <<>>
         /\ stage' \in {"walk", "parents"}
<1>1. stack # <<>> /\ stack' = Front(stack) /\ stage' = IF Len(stack) = 1 THEN "parents" ELSE "walk"
  BY DEF FlushLevel
<1>2. stack \in Seq(Frames)
  BY DEF ExportInv, Typed, Stacks
<1>3. /\ stack' \in Seq(Frames) /\ Len(stack') = Len(stack) - 1 /\ Len(stack) \in Nat \ {0}
      /\ \A j \in 1 .. Len(stack) - 1 : stack'[j] = stack[j]
  BY <1>1, <1>2, Shorter
<1>4. Top = stack[Len(stack)]
  BY <1>1, TopType DEF ExportInv
<1>5. Len(stack) = 1 => stack' = <<>>
  BY <1>3
<1> QED BY <1>1, <1>3, <1>4, <1>5 DEF Stacks

\* The types after a flush.
LEMMA FlushTyped ==
  ASSUME ExportInv, FlushLevel \/ FlushParents
  PROVE  Typed'
<1>1. UNCHANGED <<tree, collection, listing, overwrite, cut, exported, failed, ownFiles, verdict, runs>>
  BY DEF FlushLevel, FlushParents, inputVars
<1>2. faults' \in 0 .. MaxFaults /\ undurable' \in BOOLEAN
  BY FaultType DEF FlushLevel, FlushParents, Flush, ExportInv, Typed
<1>3. CASE FlushLevel
  <2>1. fresh' = fresh
    BY <1>3 DEF FlushLevel
  <2>2. stack' \in Stacks /\ Len(stack') <= MaxDepth + 1 /\ stage' \in {"walk", "parents"}
    <3>1. Len(stack) <= MaxDepth + 1 /\ MaxDepth \in Nat
      BY ExportBoundsAssumption DEF ExportInv, Typed
    <3> QED BY <1>3, <3>1, LevelFacts
  <2> QED BY <1>1, <1>2, <2>1, <2>2 DEF ExportInv, Typed, Stages
<1>4. CASE FlushParents
  <2>1. stack' = stack /\ stage' \in {"parents", "finish"}
    BY <1>4 DEF FlushParents
  <2>2. fresh' \in Seq(Paths)
    <3>1. fresh \in Seq(Paths)
      BY DEF ExportInv, Typed
    <3>2. fresh' = fresh \/ (fresh # <<>> /\ fresh' = Tail(fresh))
      BY <1>4 DEF FlushParents
    <3> QED BY <3>1, <3>2
  <2> QED BY <1>1, <1>2, <2>1, <2>2 DEF ExportInv, Typed, Stages
<1> QED BY <1>3, <1>4

\* The types after any step.
LEMMA TypedStep ==
  ASSUME ExportInv, [ExportNext]_exportVars
  PROVE  Typed'
<1>1. CASE Finish
  <2>1. UNCHANGED <<diskVars, inputVars, walkVars, reportVars, budget>>
        /\ stage' = "done" /\ verdict' \in {"complete", "partial"}
    BY <1>1 DEF Finish
  <2> QED BY <2>1 DEF ExportInv, Typed, Stages, diskVars, inputVars, walkVars, reportVars, budget
<1>2. CASE Kill
  <2>1. /\ UNCHANGED <<tree, collection, listing, overwrite, cut, undurable, runs, faults>>
        /\ stage' = "done" /\ verdict' = "none"
        /\ exported' = <<>> /\ failed' = <<>> /\ ownFiles' = {} /\ stack' = <<>> /\ fresh' = <<>>
    BY <1>2 DEF Kill, diskVars, inputVars, budget
  <2> QED BY <2>1, NothingYet DEF ExportInv, Typed, Stages
<1>3. CASE UNCHANGED exportVars
  BY <1>3 DEF ExportInv, Typed, exportVars, diskVars, inputVars, walkVars, reportVars, budget
<1> QED BY <1>1, <1>2, <1>3, StartTyped, PrepareTyped, ListTyped, HereTyped, BranchTyped, WorkTyped,
           FlushTyped, Steps

-----------------------------------------------------------------------------
(* Where the command stands after a step.                                   *)

\* The listing is asked for once the output directory is there.
LEMMA RootReady ==
  ASSUME ExportInv, NextMissing = {}
  PROVE  \A q \in Way(Root) : DirAt(q)
<1> DEFINE missing == {k \in 1 .. Len(Root) : ~Exists(SubSeq(Root, 1, k))}
<1>1. missing = {}
  <2> SUFFICES ASSUME missing # {} PROVE FALSE
    OBVIOUS
  <2>1. missing \in SUBSET Nat
    BY RootWay
  <2>2. PICK k \in missing : \A i \in missing : k <= i
    <3> HIDE DEF missing
    <3> QED BY <2>1, Least
  <2>3. SubSeq(Root, 1, k) \in NextMissing
    BY <2>2 DEF NextMissing
  <2> QED BY <2>3
<1>2. ASSUME NEW q \in Way(Root) PROVE DirAt(q)
  <2>1. Exists(q)
    BY <1>1 DEF Way
  <2>2. At(q) \in tree /\ At(q).at = q
    BY <2>1, AtType DEF ExportInv
  <2>3. At(q).kind = "dir"
    BY <1>2, <2>2 DEF ExportInv, Labelled
  <2> QED BY <2>2, <2>3 DEF DirAt
<1> QED BY <1>2

\* Every step keeps Standing.
LEMMA StandingStep ==
  ASSUME ExportInv, [ExportNext]_exportVars
  PROVE  Standing'
<1>1. Standing /\ Typed /\ runs \in Nat
  BY ExportBoundsAssumption DEF ExportInv, Typed
<1>2. CASE ExportStart
  <2>1. /\ runs' = runs + 1 /\ stage' = "prepare" /\ verdict' = "none"
        /\ stack' = <<>> /\ failed' = <<>>
    BY <1>2 DEF ExportStart
  <2> QED BY <1>1, <2>1 DEF Standing, Concluded
<1>3. CASE Prepare
  <2>1. /\ stage = "prepare" /\ UNCHANGED <<stack, failed, undurable, runs>>
        /\ \/ stage' = "prepare" /\ verdict' = verdict
           \/ stage' = "done" /\ verdict' = "refused"
           \/ stage' = "list" /\ verdict' = verdict /\ tree' = tree /\ NextMissing = {}
    BY <1>3 DEF Prepare, Refuse, reportVars
  <2>2. stage' = "list" => \A q \in Way(Root) : DirAt(q)'
    BY <2>1, RootReady DEF DirAt
  <2>3. (\A q \in Way(Root) : DirAt(q)') => (\A q \in Way(Root) : DirAt(q))'
    BY DEF Way, Root
  <2> QED BY <1>1, <2>1, <2>2, <2>3 DEF Standing, Concluded
<1>4. CASE List
  <2>1. /\ stage = "list" /\ UNCHANGED <<undurable, runs>>
        /\ \/ stage' = "walk" /\ verdict' = verdict
           \/ stage' = "done" /\ verdict' = "refused" /\ stack' = stack
    BY <1>4 DEF List, Refuse
  <2> QED BY <1>1, <2>1 DEF Standing, Concluded
<1>5. CASE WriteHere \/ WriteBranch
  <2>1. stage = "walk" /\ stage' \in {"walk", "fetch"} /\ UNCHANGED <<undurable, verdict, runs>>
    BY <1>5 DEF WriteHere, WriteBranch, reportVars, budget
  <2> QED BY <1>1, <2>1 DEF Standing, Concluded
<1>6. CASE Working
  <2>1. stage \in Busy /\ stage' \in Busy \cup {"walk"} /\ UNCHANGED <<undurable, verdict, runs>>
    BY <1>1, <1>6, WorkingFacts DEF Working
  <2> QED BY <1>1, <2>1 DEF Standing, Concluded, Busy
<1>7. CASE FlushLevel
  <2>1. /\ stage = "walk" /\ stage' \in {"walk", "parents"} /\ UNCHANGED <<verdict, runs>>
        /\ stage' = "parents" => stack' = <<>>
    BY <1>7, LevelFacts DEF FlushLevel
  <2> QED BY <1>1, <2>1 DEF Standing, Concluded
<1>8. CASE FlushParents
  <2>1. /\ stage = "parents" /\ UNCHANGED <<stack, verdict, runs>>
        /\ \/ stage' = "finish" /\ fresh = <<>> /\ fresh' = fresh
           \/ stage' = "parents"
    BY <1>8 DEF FlushParents
  <2> QED BY <1>1, <2>1 DEF Standing, Concluded
<1>9. CASE Finish
  <2>1. /\ stage = "finish" /\ stage' = "done" /\ UNCHANGED <<stack, fresh, undurable, runs>>
        /\ verdict' = "complete" => ~undurable
    BY <1>9 DEF Finish, walkVars, reportVars, budget
  <2> QED BY <1>1, <2>1 DEF Standing, Concluded
<1>10. CASE Kill
  <2>1. /\ stage # "idle" /\ stage' = "done" /\ verdict' = "none" /\ stack' = <<>> /\ runs' = runs
    BY <1>10 DEF Kill, budget
  <2> QED BY <1>1, <2>1 DEF Standing, Concluded
<1>11. CASE UNCHANGED exportVars
  <2>1. UNCHANGED <<tree, stage, stack, fresh, failed, undurable, verdict, runs>>
    BY <1>11 DEF exportVars, diskVars, walkVars, reportVars, budget
  <2> QED BY <1>1, <2>1 DEF Standing, Concluded, DirAt, Way, Root
<1> QED BY <1>2, <1>3, <1>4, <1>5, <1>6, <1>7, <1>8, <1>9, <1>10, <1>11, Steps

-----------------------------------------------------------------------------
(* The directories being written after a step.                              *)

\* A stack whose directories are those of before, or fewer.
LEMMA StackKept ==
  ASSUME ExportInv, [ExportNext]_exportVars,
         Len(stack') \in Nat, Len(stack') <= Len(stack),
         \A j \in 1 .. Len(stack') :
           /\ stack'[j].dir = stack[j].dir
           /\ stack'[j].pending \in Seq(Nodes(listing')) /\ IsFiniteSet(stack'[j].names)
  PROVE  Stacked'
<1> SUFFICES ASSUME NEW j \in 1 .. Len(stack')
             PROVE  /\ stack'[j].pending \in Seq(Nodes(listing')) /\ IsFiniteSet(stack'[j].names)
                    /\ Len(stack'[j].dir) = Len(Root) + j - 1
                    /\ \A q \in Way(stack'[j].dir) :
                         /\ DirAt(q)'
                         /\ q \in Way(Root) \/ \E h \in 1 .. j - 1 : stack'[h].dir = Front(q)
  BY DEF Stacked, Way, Root
<1>1. Len(stack) \in Nat /\ j \in 1 .. Len(stack)
  BY DEF ExportInv, Typed, Stacks
<1>2. /\ Len(stack[j].dir) = Len(Root) + j - 1
      /\ \A q \in Way(stack[j].dir) :
           /\ DirAt(q)
           /\ q \in Way(Root) \/ \E h \in 1 .. j - 1 : stack[h].dir = Front(q)
  BY <1>1 DEF ExportInv, Stacked
<1>3. \A h \in 1 .. j - 1 : h \in 1 .. Len(stack')
  OBVIOUS
<1>4. \A q : DirAt(q) => DirAt(q)'
  BY WhatStays
<1> QED BY <1>2, <1>3, <1>4

\* The directory that WriteBranch adds is inside the last one.
LEMMA BranchStacked ==
  ASSUME ExportInv, WriteBranch
  PROVE  Stacked'
<1>0. [ExportNext]_exportVars
  BY DEF ExportNext, Write
<1>1. listing' = listing
  BY DEF WriteBranch, inputVars
<1>2. CASE Len(stack') = Len(stack)
  BY <1>0, <1>1, <1>2, BranchFacts, StackKept
<1>3. CASE Len(stack') # Len(stack)
  <2> DEFINE n == Len(stack)
  <2>1. /\ n \in Nat \ {0} /\ Len(stack') = n + 1
        /\ stack'[n + 1].dir = Inner /\ Inner \in Paths \ {<<>>} /\ Front(Inner) = Top.dir
        /\ stack'[n + 1].pending \in Seq(Nodes(listing')) /\ IsFiniteSet(stack'[n + 1].names)
        /\ Way(Inner) = Way(Top.dir) \cup {Inner} /\ Len(Inner) = Len(Top.dir) + 1
        /\ \E e \in tree' : e.at = Inner /\ e.kind = "dir"
        /\ \A j \in 1 .. n :
             /\ stack'[j].dir = stack[j].dir
             /\ stack'[j].pending \in Seq(Nodes(listing')) /\ IsFiniteSet(stack'[j].names)
    BY <1>1, <1>3, BranchFacts
  <2>2. \A q : DirAt(q) => DirAt(q)'
    BY <1>0, WhatStays
  <2>3. /\ Top = stack[n] /\ Len(Top.dir) = Len(Root) + n - 1
    <3>1. stack # <<>>
      BY DEF WriteBranch
    <3> QED BY <3>1, TopType DEF ExportInv
  <2>4. \A j \in 1 .. n :
          /\ Len(stack[j].dir) = Len(Root) + j - 1
          /\ \A q \in Way(stack[j].dir) :
               /\ DirAt(q)
               /\ q \in Way(Root) \/ \E h \in 1 .. j - 1 : stack[h].dir = Front(q)
    BY DEF ExportInv, Stacked
  <2>5. ASSUME NEW j \in 1 .. Len(stack')
        PROVE  /\ stack'[j].pending \in Seq(Nodes(listing')) /\ IsFiniteSet(stack'[j].names)
               /\ Len(stack'[j].dir) = Len(Root) + j - 1
               /\ \A q \in Way(stack'[j].dir) :
                    /\ DirAt(q)'
                    /\ q \in Way(Root) \/ \E h \in 1 .. j - 1 : stack'[h].dir = Front(q)
    <3> HIDE DEF n
    <3>1. CASE j \in 1 .. n
      <4>1. \A h \in 1 .. j - 1 : h \in 1 .. n
        BY <2>1, <3>1
      <4>2. /\ stack'[j].pending \in Seq(Nodes(listing')) /\ IsFiniteSet(stack'[j].names)
            /\ stack'[j].dir = stack[j].dir /\ \A h \in 1 .. j - 1 : stack'[h].dir = stack[h].dir
        BY <2>1, <3>1, <4>1
      <4>3. /\ Len(stack[j].dir) = Len(Root) + j - 1
            /\ \A q \in Way(stack[j].dir) :
                 /\ DirAt(q)
                 /\ q \in Way(Root) \/ \E h \in 1 .. j - 1 : stack[h].dir = Front(q)
        BY <2>4, <3>1
      <4> QED BY <2>2, <4>2, <4>3
    <3>2. CASE j = n + 1
      <4>1. n \in 1 .. n /\ n \in 1 .. j - 1 /\ \A h \in 1 .. n - 1 : h \in 1 .. n /\ h \in 1 .. j - 1
        BY <2>1, <3>2
      <4>2. ASSUME NEW q \in Way(Top.dir)
            PROVE  /\ DirAt(q)'
                   /\ q \in Way(Root) \/ \E h \in 1 .. j - 1 : stack'[h].dir = Front(q)
        <5>1. /\ DirAt(q)
              /\ q \in Way(Root) \/ \E h \in 1 .. n - 1 : stack[h].dir = Front(q)
          BY <2>3, <2>4, <4>1
        <5>2. \A h \in 1 .. n - 1 : stack'[h].dir = stack[h].dir
          BY <2>1, <4>1
        <5> QED BY <2>2, <4>1, <5>1, <5>2
      <4>4. \E h \in 1 .. j - 1 : stack'[h].dir = Front(Inner)
        BY <2>1, <2>3, <4>1
      <4>5. Len(stack'[j].dir) = Len(Root) + j - 1
        BY <2>1, <2>3, <3>2, RootWay
      <4> DEFINE path == Inner
      <4>6. /\ \E e \in tree' : e.at = path /\ e.kind = "dir"
            /\ \E h \in 1 .. j - 1 : stack'[h].dir = Front(path)
            /\ stack'[j].dir = path /\ Way(path) = Way(Top.dir) \cup {path}
        BY <2>1, <3>2, <4>4
      <4> HIDE DEF path
      <4> QED BY <2>1, <3>2, <4>2, <4>5, <4>6 DEF DirAt
    <3> QED BY <2>1, <3>1, <3>2 DEF n
  <2> QED BY <2>5 DEF Stacked, Way, Root
<1> QED BY <1>2, <1>3

\* Every step keeps Stacked.
LEMMA StackedStep ==
  ASSUME ExportInv, [ExportNext]_exportVars
  PROVE  Stacked'
<1>0. Len(stack) \in Nat /\ Typed /\ Stacked
  BY DEF ExportInv, Typed, Stacks
<1>1. CASE stack' = <<>>
  BY <1>1 DEF Stacked
<1>2. CASE UNCHANGED <<stack, listing>>
  BY <1>0, <1>2, StackKept DEF Stacked
<1>3. CASE WriteHere
  <2>1. listing' = listing
    BY <1>3 DEF WriteHere, inputVars
  <2> QED BY <1>3, <2>1, HereFacts, StackKept
<1>4. CASE FlushLevel
  <2>1. listing' = listing
    BY <1>4 DEF FlushLevel, inputVars
  <2>2. /\ Len(stack') = Len(stack) - 1 /\ Len(stack) \in Nat \ {0}
        /\ \A j \in 1 .. Len(stack) - 1 : stack'[j] = stack[j]
    BY <1>4, LevelFacts
  <2>3. \A j \in 1 .. Len(stack') :
          /\ stack'[j].dir = stack[j].dir
          /\ stack'[j].pending \in Seq(Nodes(listing')) /\ IsFiniteSet(stack'[j].names)
    <3>1. \A j \in 1 .. Len(stack') : j \in 1 .. Len(stack) /\ stack'[j] = stack[j]
      BY <2>2
    <3>2. \A j \in 1 .. Len(stack) :
            stack[j].pending \in Seq(Nodes(listing)) /\ IsFiniteSet(stack[j].names)
      BY <1>0 DEF Stacked
    <3> QED BY <2>1, <3>1, <3>2
  <2>4. Len(stack') \in Nat /\ Len(stack') <= Len(stack)
    BY <2>2
  <2> QED BY <2>3, <2>4, StackKept
<1>5. CASE List /\ stage' = "walk"
  <2>1. /\ Len(stack') = 1 /\ stack'[1].dir = Root
        /\ stack'[1].pending \in Seq(Nodes(listing')) /\ stack'[1].names = {}
    BY <1>5, ListFacts
  <2>2. \A q \in Way(Root) : DirAt(q)'
    <3>1. \A q \in Way(Root) : DirAt(q)
      BY <1>5 DEF ExportInv, Standing, List
    <3> QED BY <3>1, WhatStays
  <2>3. IsFiniteSet({})
    BY FS_EmptySet
  <2>4. Len(Root) = Len(Root) + 1 - 1
    BY RootWay
  <2>5. \A j \in 1 .. Len(stack') : j = 1
    BY <2>1
  <2>6. ASSUME NEW j \in 1 .. Len(stack')
        PROVE  /\ stack'[j].pending \in Seq(Nodes(listing')) /\ IsFiniteSet(stack'[j].names)
               /\ Len(stack'[j].dir) = Len(Root) + j - 1
               /\ \A q \in Way(stack'[j].dir) : DirAt(q)' /\ q \in Way(Root)
    BY <2>1, <2>2, <2>3, <2>4, <2>5
  <2> QED BY <2>6 DEF Stacked, Way, Root
<1>6. CASE \/ ExportStart \/ Kill \/ Prepare \/ (List /\ stage' # "walk") \/ FlushParents \/ Finish
           \/ UNCHANGED exportVars
  <2>1. stack' = <<>> \/ UNCHANGED <<stack, listing>>
    BY <1>6 DEF ExportStart, Kill, Prepare, List, FlushParents, Finish, exportVars, inputVars, walkVars
  <2> QED BY <1>1, <1>2, <2>1
<1>7. CASE Working
  <2>1. UNCHANGED <<stack, listing>>
    BY <1>0, <1>7, WorkingFacts
  <2> QED BY <1>2, <2>1
<1> QED BY <1>3, <1>4, <1>5, <1>6, <1>7, BranchStacked, Steps

-----------------------------------------------------------------------------
(* The document in hand after a step.                                       *)

\* The paths of the document in hand depend on these three.
LEMMA SamePlaces ==
  ASSUME stack' = stack, current' = current, runs' = runs
  PROVE  Target' = Target /\ TempPath' = TempPath
<1>1. Top' = Top
  BY DEF Top
<1> QED BY <1>1 DEF Target, TempPath, TempName

\* The name stays free of what this run wrote.
LEMMA StillFree ==
  ASSUME ExportInv, Labelled', Target' = Target, ~Taken, ownFiles' = ownFiles,
         \A e \in tree' : e.at = Target => e \in tree \/ e.doc = NoId
  PROVE  ~Taken'
<1> SUFFICES ASSUME Taken' PROVE FALSE
  OBVIOUS
<1> DEFINE place == Target
           a == CHOOSE e \in tree' : e.at = place
<1>1. /\ \E e \in tree' : e.at = place
      /\ a.kind = "file" /\ [doc |-> a.doc, run |-> a.run] \in ownFiles
  BY DEF Taken, Exists, At
<1>2. a \in tree' /\ a.at = place
  BY <1>1
<1> HIDE DEF a
<1>3. a.doc # NoId
  BY <1>1 DEF ExportInv, Typed
<1>4. a \in tree /\ a.at = Target
  BY <1>2, <1>3
<1>5. Exists(Target) /\ At(Target) = a
  BY <1>4, AtType DEF ExportInv
<1> QED BY <1>1, <1>5 DEF Taken

\* Every step keeps InHand.
LEMMA InHandStep ==
  ASSUME ExportInv, [ExportNext]_exportVars
  PROVE  InHand'
<1>0. Typed /\ Labelled /\ InHand /\ Labelled'
  BY LabelledStep DEF ExportInv
<1>1. CASE WriteHere \/ WriteBranch
  <2>1. stage' \in {"walk", "fetch"} /\ listing' = listing
    BY <1>1 DEF WriteHere, WriteBranch, inputVars
  <2>2. stage' = "fetch" => /\ current'.doc \in Nodes(listing) /\ Good(current'.name)
                            /\ Len(stack') # 0
    <3>1. stage = "walk" /\ Len(stack) \in Nat \ {0}
      BY <1>1, HereFacts, BranchFacts DEF WriteHere, WriteBranch
    <3> QED BY <1>1, <3>1, HereFacts, BranchFacts
  <2> QED BY <2>1, <2>2 DEF InHand, Busy
<1>2. CASE Working /\ stage' \in Busy
  <2>1. /\ UNCHANGED <<listing, stack, runs, current>> /\ ~GiveUp /\ stage \in Busy
        /\ stage' = "walk" \/ UNCHANGED ownFiles
    BY <1>0, <1>2, WorkingFacts DEF Working, Busy
  <2>2. stack # <<>> /\ current.doc \in Nodes(listing) /\ Good(current.name)
    BY <1>0, <2>1 DEF InHand
  <2>3. Target' = Target /\ TempPath' = TempPath
    BY <2>1, SamePlaces
  <2>4. /\ Target # TempPath /\ current.doc \in Nat \ {NoId} /\ runs \in Nat
        /\ Target \in Paths \ {<<>>} /\ TempPath \in Paths \ {<<>>}
    BY <2>1, PlacesType DEF ExportInv
  <2> DEFINE Halfway(place, copies, at) ==
        /\ at \in {"fill", "publish", "unlink"} =>
             \E e \in copies : e.at = place /\ (at # "fill" => e.whole)
      Done(place, copies, at) ==
        at \in {"unlink", "record"} =>
          \E e \in copies : /\ e.at = place /\ e.kind = "file" /\ e.whole
                           /\ e.doc = current.doc /\ e.run = runs
  <2>5. /\ Halfway(TempPath, tree, stage) /\ Done(Target, tree, stage)
        /\ stage \in {"fill", "publish"} => ~Taken
    BY <1>0, <2>1 DEF InHand
  <2>6. /\ Halfway(TempPath, tree', stage') /\ Done(Target, tree', stage')
        /\ stage' \in {"fill", "publish"} => ~Taken'
    <3>1. CASE Fetch
      BY <1>2, <2>1, <3>1 DEF Fetch, StepOr, Busy
    <3>2. CASE CreateTemp
      <4> DEFINE new == FileEntry(TempPath, current.doc, runs, FALSE)
      <4>1. stage = "create" /\ ~Taken /\ tree' = tree \cup {new} /\ stage' = "fill"
        BY <2>1, <3>2 DEF CreateTemp, StepOr
      <4>2. new.at = TempPath
        BY DEF FileEntry
      <4>3. ~Taken'
        BY <1>0, <2>1, <2>3, <2>4, <4>1, <4>2, StillFree
      <4> QED BY <4>1, <4>2, <4>3
    <3>3. CASE FillTemp
      <4> DEFINE new == FileEntry(TempPath, current.doc, runs, TRUE)
      <4>1. stage = "fill" /\ tree' = (tree \ {At(TempPath)}) \cup {new} /\ stage' = "publish"
        BY <2>1, <3>3 DEF FillTemp, StepOr
      <4>2. new.at = TempPath /\ new.whole
        BY DEF FileEntry
      <4>3. ~Taken'
        BY <1>0, <2>1, <2>3, <2>4, <2>5, <4>1, <4>2, StillFree
      <4> QED BY <4>1, <4>2, <4>3
    <3>4. CASE Replace
      <4>1. stage = "publish" /\ stage' = "record" /\ Published \in tree'
        BY <2>1, <3>4 DEF Replace, StepOr
      <4>2. /\ Published.at = Target /\ Published.kind = "file" /\ Published.doc = current.doc
            /\ Published.run = runs /\ Published.whole
        BY <4>1, PublishedType
      <4> QED BY <4>1, <4>2
    <3>5. CASE Link
      <4>1. stage = "publish" /\ stage' = "unlink" /\ tree' = tree \cup {Published}
        BY <2>1, <3>5 DEF Link, StepOr
      <4>2. /\ Published.at = Target /\ Published.kind = "file" /\ Published.doc = current.doc
            /\ Published.run = runs /\ Published.whole
        BY <4>1, PublishedType
      <4> QED BY <2>5, <4>1, <4>2
    <3>6. CASE Unlink
      <4>1. /\ stage = "unlink" /\ stage' = "record"
            /\ tree' = tree \/ tree' = tree \ {At(TempPath)}
        BY <3>6 DEF Unlink
      <4>2. At(TempPath).at = TempPath
        BY <4>1, PublishedType
      <4> QED BY <2>4, <2>5, <4>1, <4>2
    <3>7. CASE SaveElsewhere
      <4> DEFINE new == FileEntry(Target, NoId, 0, TRUE)
      <4>1. /\ stage \in {"create", "fill", "publish"} /\ stage' = stage /\ tree' = tree \cup {new}
            /\ ownFiles' = ownFiles
        BY <3>7 DEF SaveElsewhere, reportVars
      <4>2. new.doc = NoId
        BY DEF FileEntry
      <4>3. stage \in {"fill", "publish"} => ~Taken'
        BY <1>0, <2>1, <2>3, <2>5, <4>1, <4>2, StillFree
      <4> HIDE DEF new
      <4> QED BY <2>5, <4>1, <4>3
    <3>8. CASE NameTaken \/ Occupied
      BY <2>1, <3>8 DEF NameTaken, Occupied
    <3>9. CASE Record
      BY <1>2, <2>1, <3>9 DEF Record, StepOr, Busy
    <3> QED BY <1>2, <3>1, <3>2, <3>3, <3>4, <3>5, <3>6, <3>7, <3>8, <3>9 DEF Working
  <2> QED BY <2>1, <2>2, <2>3, <2>6 DEF InHand
<1>3. CASE stage' \notin Busy
  BY <1>3 DEF InHand, Busy
<1>4. CASE UNCHANGED exportVars
  <2>1. UNCHANGED <<tree, listing, stage, stack, current, ownFiles, runs>>
    BY <1>4 DEF exportVars, diskVars, inputVars, walkVars, reportVars, budget
  <2>2. Target' = Target /\ TempPath' = TempPath
    BY <2>1, SamePlaces
  <2>3. Taken' = Taken
    BY <2>1, <2>2 DEF Taken, Exists, At
  <2> QED BY <1>0, <2>1, <2>2, <2>3 DEF InHand, Busy
<1>5. CASE ExportStart \/ Prepare \/ List \/ FlushLevel \/ FlushParents \/ Finish \/ Kill
  <2>1. stage' \notin Busy
    BY <1>5 DEF ExportStart, Prepare, List, FlushLevel, FlushParents, Finish, Kill, Refuse, Busy
  <2> QED BY <1>3, <2>1
<1> QED BY <1>1, <1>2, <1>3, <1>4, <1>5, Steps

-----------------------------------------------------------------------------
(* The documents reported as written after a step.                          *)

\* A reported document stays where it is.
LEMMA LandingStays ==
  ASSUME ExportInv, [ExportNext]_exportVars, runs' = runs, ownFiles \subseteq ownFiles',
         NEW record, Landing(record),
         \A q \in Way(record.at) : Secured(q) => Secured(q)'
  PROVE  Landing(record)'
<1>1. PICK e \in tree : /\ e.at = record.at /\ e.kind = "file" /\ e.whole
                        /\ e.doc = record.doc /\ e.run = runs /\ ~IsTemp(e)
  BY DEF Landing
<1>2. [doc |-> record.doc, run |-> runs] \in ownFiles
  BY DEF Landing
<1>3. e \in tree'
  BY <1>1, <1>2, WhatStays
<1>4. \A q : DirAt(q) => DirAt(q)'
  BY WhatStays
<1>5. \A q \in Way(record.at) :
        /\ q = record.at \/ DirAt(q)
        /\ q \in Way(Root) \/ Secured(q)
  BY DEF Landing
<1>6. \E f \in tree' : /\ f.at = record.at /\ f.kind = "file" /\ f.whole
                      /\ f.doc = record.doc /\ f.run = runs' /\ ~IsTemp(f)
  BY <1>1, <1>3
<1>7. \A q \in Way(record.at) :
        /\ q = record.at \/ DirAt(q)'
        /\ q \in Way(Root) \/ Secured(q)'
  BY <1>4, <1>5
<1> QED BY <1>2, <1>6, <1>7 DEF Landing, IsTemp, Way, Root

\* What a step of the document in hand takes off the disk is not on the way.
LEMMA WorkSecures ==
  ASSUME ExportInv, Working, NEW record, Landing(record), NEW q \in Way(record.at), Secured(q)
  PROVE  Secured(q)'
<1>1. UNCHANGED <<undurable, stack>>
  BY WorkingFacts DEF ExportInv
<1>2. CASE flushed \ {Target} \subseteq flushed' /\ q # Target
  BY <1>1, <1>2 DEF Secured
<1>3. CASE flushed' = flushed
  BY <1>1, <1>3 DEF Secured
<1>4. CASE flushed' = flushed \ {Target} /\ stage = "publish" /\ ~IsDir(Target) /\ q = Target
  <2>1. ~Taken
    BY <1>4 DEF ExportInv, InHand, Busy
  <2>2. ~DirAt(Target)
    BY <1>4, AtType DEF ExportInv
  <2>3. q = record.at
    BY <1>4, <2>2 DEF Landing
  <2>4. PICK e \in tree : e.at = Target /\ e.kind = "file" /\ e.doc = record.doc /\ e.run = runs
    BY <1>4, <2>3 DEF Landing
  <2>5. Exists(Target) /\ At(Target) = e
    BY <2>4, AtType DEF ExportInv
  <2>6. [doc |-> record.doc, run |-> runs] \in ownFiles
    BY DEF Landing
  <2> QED BY <2>1, <2>4, <2>5, <2>6 DEF Taken
<1> QED BY <1>2, <1>3, <1>4, WorkingFacts DEF ExportInv

\* What was to be flushed with the last directory is flushed with it.
LEMMA FlushSecures ==
  ASSUME ExportInv, FlushLevel, NEW record, Landing(record), NEW q \in Way(record.at), Secured(q)
  PROVE  Secured(q)'
<1>1. /\ Len(stack) \in Nat \ {0} /\ Top = stack[Len(stack)] /\ Len(stack') = Len(stack) - 1
      /\ \A j \in 1 .. Len(stack) - 1 : stack'[j] = stack[j]
  BY LevelFacts
<1>2. \/ flushed' = flushed \cup {e.at : e \in EntriesOf(Top.dir)} /\ undurable' = undurable
      \/ undurable' = TRUE
  BY DEF FlushLevel, Flush
<1>3. CASE q \in flushed \/ undurable
  BY <1>2, <1>3 DEF Secured
<1>4. CASE \E j \in 1 .. Len(stack) : stack[j].dir = Front(q)
  <2>1. PICK j \in 1 .. Len(stack) : stack[j].dir = Front(q)
    BY <1>4
  <2>2. CASE j = Len(stack)
    <3>1. \E e \in tree : e.at = q
      BY DEF Landing, DirAt
    <3>2. PICK e \in tree : e.at = q
      BY <3>1
    <3>3. q # <<>>
      BY <3>2 DEF ExportInv, Typed, Entries
    <3>4. e \in EntriesOf(Top.dir)
      BY <1>1, <2>1, <2>2, <3>2, <3>3 DEF EntriesOf
    <3> QED BY <1>2, <3>2, <3>4 DEF Secured
  <2>3. CASE j # Len(stack)
    <3>1. j \in 1 .. Len(stack) - 1 /\ j \in 1 .. Len(stack')
      BY <1>1, <2>3
    <3>2. stack'[j].dir = Front(q)
      BY <1>1, <2>1, <3>1
    <3> QED BY <3>1, <3>2 DEF Secured
  <2> QED BY <2>2, <2>3
<1> QED BY <1>3, <1>4 DEF Secured

\* The record of a document, under another name.
LEMMA LandingNamed ==
  ASSUME NEW record, NEW i, record = exported'[i], Landing(record)'
  PROVE  (Landing(exported[i]))'
  BY DEF Landing, Secured, DirAt, Way, IsTemp

\* Every step keeps Landed.
LEMMA LandedStep ==
  ASSUME ExportInv, [ExportNext]_exportVars
  PROVE  Landed'
<1>0. Typed /\ Landed /\ exported \in Records
  BY DEF ExportInv, Typed
<1>1. CASE exported' = <<>>
  BY <1>1 DEF Landed
<1>2. ASSUME exported' = exported, runs' = runs, ownFiles \subseteq ownFiles',
             \A record : Landing(record) => \A q \in Way(record.at) : Secured(q) => Secured(q)'
      PROVE  Landed'
  <2>1. ASSUME NEW i \in 1 .. Len(exported) PROVE (Landing(exported[i]))'
    <3>1. PICK record : record = exported[i]
      OBVIOUS
    <3>2. Landing(record)
      BY <1>0, <3>1 DEF Landed
    <3>3. Landing(record)'
      BY <1>2, <3>2, LandingStays
    <3>4. record = exported'[i]
      BY <1>2, <3>1
    <3> QED BY <3>3, <3>4 DEF Landing, Secured, DirAt, Way, IsTemp
  <2> QED BY <1>2, <2>1 DEF Landed
<1>3. CASE ExportStart \/ Kill
  <2>1. exported' = <<>>
    BY <1>3 DEF ExportStart, Kill
  <2> QED BY <1>1, <2>1
<1>4. CASE Prepare \/ Finish \/ UNCHANGED exportVars
  <2>1. UNCHANGED <<flushed, stack, undurable, exported, ownFiles, runs>>
    BY <1>4 DEF Prepare, Finish, exportVars, diskVars, walkVars, reportVars, budget
  <2>2. \A q : Secured(q) => Secured(q)'
    BY <2>1 DEF Secured
  <2> QED BY <1>2, <2>1, <2>2
<1>5. CASE List
  <2>1. UNCHANGED <<flushed, undurable, exported, ownFiles, runs>> /\ stack = <<>>
    BY <1>5 DEF List, diskVars, ExportInv, Standing
  <2>2. \A q : Secured(q) => Secured(q)'
    BY <2>1 DEF Secured
  <2> QED BY <1>2, <2>1, <2>2
<1>6. CASE WriteHere \/ WriteBranch
  <2>1. UNCHANGED <<flushed, undurable, exported, ownFiles, runs>>
    BY <1>6 DEF WriteHere, WriteBranch, diskVars, reportVars, budget
  <2>2. /\ Len(stack) \in Nat /\ Len(stack') \in Nat /\ Len(stack) <= Len(stack')
        /\ \A j \in 1 .. Len(stack) : stack'[j].dir = stack[j].dir
    BY <1>6, HereFacts, BranchFacts
  <2>3. ASSUME NEW q, Secured(q) PROVE Secured(q)'
    <3>1. \A j \in 1 .. Len(stack) : j \in 1 .. Len(stack')
      BY <2>2
    <3> QED BY <2>1, <2>2, <2>3, <3>1 DEF Secured
  <2> QED BY <1>2, <2>1, <2>3
<1>7. CASE FlushLevel
  <2>1. UNCHANGED <<exported, ownFiles, runs>>
    BY <1>7 DEF FlushLevel
  <2> QED BY <1>2, <1>7, <2>1, FlushSecures
<1>8. CASE FlushParents
  <2>1. UNCHANGED <<exported, ownFiles, runs, stack>>
    BY <1>8 DEF FlushParents
  <2>2. flushed \subseteq flushed' /\ (undurable => undurable')
    BY <1>8 DEF FlushParents, Flush
  <2>3. \A q : Secured(q) => Secured(q)'
    BY <2>1, <2>2 DEF Secured
  <2> QED BY <1>2, <2>1, <2>3
<1>9. CASE Working /\ UNCHANGED <<exported, ownFiles>>
  <2>1. runs' = runs
    BY <1>0, <1>9, WorkingFacts
  <2> QED BY <1>2, <1>9, <2>1, WorkSecures
<1>10. CASE Working /\ ~UNCHANGED <<exported, ownFiles>>
  <2> DEFINE new == [doc |-> current.doc, at |-> Target]
  <2>1. /\ stage = "record" /\ UNCHANGED <<tree, flushed, stack, undurable, runs>>
        /\ exported' = Append(exported, new)
        /\ ownFiles' = ownFiles \cup {[doc |-> current.doc, run |-> runs]}
    BY <1>0, <1>10, WorkingFacts
  <2>2. /\ Target \in Paths \ {<<>>} /\ Last(Target)[1] # "tmp" /\ Front(Target) = Top.dir
        /\ Way(Target) = Way(Top.dir) \cup {Target} /\ stack # <<>>
    BY <2>1, PlacesType DEF ExportInv, Busy
  <2>3. Top = stack[Len(stack)] /\ Len(stack) \in Nat \ {0}
    BY <2>2, TopType DEF ExportInv
  <2>4. ASSUME NEW q \in Way(Top.dir)
        PROVE  /\ DirAt(q)
               /\ q \in Way(Root) \/ \E h \in 1 .. Len(stack) : stack[h].dir = Front(q)
    <3>1. Len(stack) \in 1 .. Len(stack) /\ \A h \in 1 .. Len(stack) - 1 : h \in 1 .. Len(stack)
      BY <2>3
    <3> QED BY <2>3, <3>1 DEF ExportInv, Stacked
  <2>5. \E h \in 1 .. Len(stack) : stack[h].dir = Front(Target)
    BY <2>2, <2>3
  <2>6. PICK made : made = new
    OBVIOUS
  <2>7. made.at = Target /\ made.doc = current.doc
    BY <2>6
  <2>8. Landing(made)'
    <3>1. PICK e \in tree : /\ e.at = Target /\ e.kind = "file" /\ e.whole
                            /\ e.doc = current.doc /\ e.run = runs
      BY <2>1 DEF ExportInv, InHand, Busy
    <3>2. ~IsTemp(e)
      BY <2>2, <3>1 DEF IsTemp
    <3>3. \A q \in Way(made.at) :
            /\ q = made.at \/ DirAt(q)
            /\ q \in Way(Root) \/ Secured(q)
      BY <2>2, <2>4, <2>5, <2>7 DEF Secured
    <3>4. \A q : (DirAt(q) => DirAt(q)') /\ (Secured(q) => Secured(q)')
      BY <2>1 DEF DirAt, Secured
    <3>5. \E f \in tree' : /\ f.at = made.at /\ f.kind = "file" /\ f.whole
                          /\ f.doc = made.doc /\ f.run = runs' /\ ~IsTemp(f)
      BY <2>1, <2>7, <3>1, <3>2
    <3>6. [doc |-> made.doc, run |-> runs'] \in ownFiles'
      BY <2>1, <2>7
    <3>7. \A q \in Way(made.at) :
            /\ q = made.at \/ DirAt(q)'
            /\ q \in Way(Root) \/ Secured(q)'
      BY <3>3, <3>4
    <3> QED BY <3>5, <3>6, <3>7 DEF Landing, IsTemp, Way, Root
  <2>9. \A r : Landing(r) => Landing(r)'
    <3>1. \A r : Landing(r) => \A q \in Way(r.at) : Secured(q) => Secured(q)'
      BY <2>1 DEF Secured
    <3>2. ownFiles \subseteq ownFiles' /\ runs' = runs
      BY <2>1
    <3> QED BY <3>1, <3>2, LandingStays
  <2>10. ASSUME NEW i \in 1 .. Len(exported') PROVE (Landing(exported[i]))'
    <3>1. /\ Len(exported') = Len(exported) + 1 /\ Len(exported) \in Nat
          /\ exported'[Len(exported) + 1] = new
          /\ \A k \in 1 .. Len(exported) : exported'[k] = exported[k]
      <4> HIDE DEF new
      <4> QED BY <1>0, <2>1 DEF Records
    <3>2. PICK r : r = exported'[i]
      OBVIOUS
    <3>3. Landing(r)'
      <4>1. CASE i = Len(exported) + 1
        BY <2>6, <2>8, <3>1, <3>2, <4>1
      <4>2. CASE i \in 1 .. Len(exported)
        <5>1. Landing(r)
          BY <1>0, <3>1, <3>2, <4>2 DEF Landed
        <5> QED BY <2>9, <5>1
      <4> QED BY <3>1, <4>1, <4>2
    <3> QED BY <3>2, <3>3, LandingNamed
  <2> QED BY <2>10 DEF Landed
<1> QED BY <1>3, <1>4, <1>5, <1>6, <1>7, <1>8, <1>9, <1>10, Steps

-----------------------------------------------------------------------------
(* The directories made for the output directory after a step.              *)

\* Only Prepare adds to the way to the output directory.
LEMMA NothingRooted ==
  ASSUME ExportInv, [ExportNext]_exportVars, stage # "prepare", runs' = runs,
         NEW e \in tree', e.at \in Way(Root)
  PROVE  e \in tree
<1> SUFFICES ASSUME e \notin tree PROVE FALSE
  OBVIOUS
<1>1. IsNew(e)
  BY EveryTreeStep DEF TreeStep
<1>2. stage \in Busy /\ e.at \in {TempPath, Target}
  BY <1>1 DEF IsNew
<1> QED BY <1>2, PlacesType DEF ExportInv

\* Every step keeps Rooted.
LEMMA RootedStep ==
  ASSUME ExportInv, [ExportNext]_exportVars
  PROVE  Rooted'
<1> DEFINE Safe(e) == e.at \in flushed \/ undurable \/ \E i \in 1 .. Len(fresh) : fresh[i] = Front(e.at)
<1>0. Typed /\ Rooted /\ fresh \in Seq(Paths) /\ Len(fresh) \in Nat
  BY DEF ExportInv, Typed
<1>1. CASE ~Underway'
  BY <1>1 DEF Rooted
<1>2. ASSUME Underway, runs' = runs, \A e \in tree' : e.at \in Way(Root) => e \in tree,
             \A e \in tree : e.at \in Way(Root) /\ Safe(e) => Safe(e)'
      PROVE  Rooted'
  <2>1. \A e \in tree : e.at \in Way(Root) /\ e.run = runs => Safe(e)
    BY <1>0, <1>2 DEF Rooted
  <2>2. \A e \in tree' : e.at \in Way(Root) /\ e.run = runs' => Safe(e)'
    BY <1>2, <2>1
  <2> QED BY <2>2 DEF Rooted, Way, Root
<1>3. CASE ExportStart
  <2>1. tree' = tree /\ runs' = runs + 1 /\ runs \in Nat
    BY <1>3, RunsGrow DEF ExportStart, diskVars, ExportInv
  <2>2. \A e \in tree : e.run \in Nat /\ e.run <= runs
    BY DEF ExportInv, Typed, Labelled, Entries
  <2>3. \A e \in tree' : e.run # runs'
    BY <2>1, <2>2
  <2> QED BY <2>3 DEF Rooted
<1>4. CASE Prepare /\ Underway'
  <2>1. /\ Underway /\ UNCHANGED <<flushed, undurable, runs>>
        /\ \/ UNCHANGED <<tree, fresh>>
           \/ \E path \in NextMissing : tree' = tree \cup {Dir(path)} /\ fresh' = <<Front(path)>> \o fresh
    BY <1>4 DEF Prepare, Underway, reportVars
  <2>2. CASE UNCHANGED <<tree, fresh>>
    BY <1>2, <2>1, <2>2
  <2>3. CASE ~UNCHANGED <<tree, fresh>>
    <3>1. PICK path \in NextMissing : tree' = tree \cup {Dir(path)} /\ fresh' = <<Front(path)>> \o fresh
      BY <2>1, <2>3
    <3>2. path \in Way(Root)
      BY DEF NextMissing, Way
    <3>3. path \in Seq(Components) /\ path # <<>>
      BY <3>2, RootWay DEF Paths
    <3> DEFINE up == Front(path)
    <3>4. up \in Paths
      BY <3>3, Shorter DEF Paths
    <3> HIDE DEF up
    <3>5. /\ Len(<<up>> \o fresh) = Len(fresh) + 1 /\ (<<up>> \o fresh)[1] = up
          /\ \A i \in 1 .. Len(fresh) : (<<up>> \o fresh)[i + 1] = fresh[i]
      BY <1>0, <3>4
    <3>6. /\ Len(fresh') = Len(fresh) + 1 /\ fresh'[1] = Front(path)
          /\ \A i \in 1 .. Len(fresh) : fresh'[i + 1] = fresh[i]
      BY <3>1, <3>5 DEF up
    <3>7. ASSUME NEW e \in tree', e.at \in Way(Root), e.run = runs'
          PROVE  \/ e.at \in flushed' \/ undurable'
                 \/ \E i \in 1 .. Len(fresh') : fresh'[i] = Front(e.at)
      <4>1. CASE e \in tree
        <5>1. Safe(e)
          BY <1>0, <2>1, <3>7, <4>1 DEF Rooted
        <5>2. \A i \in 1 .. Len(fresh) : i + 1 \in 1 .. Len(fresh')
          BY <1>0, <3>6
        <5> QED BY <2>1, <3>6, <5>1, <5>2
      <4>2. CASE e = Dir(path)
        <5>1. e.at = path
          BY <4>2 DEF Dir
        <5>2. 1 \in 1 .. Len(fresh')
          BY <1>0, <3>6
        <5> QED BY <3>6, <5>1, <5>2
      <4> QED BY <3>1, <3>7, <4>1, <4>2
    <3> QED BY <3>7 DEF Rooted, Way, Root
  <2> QED BY <2>2, <2>3
<1>5. CASE (List /\ Underway') \/ WriteHere \/ WriteBranch \/ FlushLevel \/ Finish
  <2>1. /\ Underway /\ stage # "prepare" /\ runs' = runs /\ fresh' = fresh
        /\ flushed \subseteq flushed' /\ (undurable => undurable')
    BY <1>5 DEF List, WriteHere, WriteBranch, FlushLevel, Flush, Finish, Underway, diskVars,
                reportVars, walkVars, budget
  <2>2. \A e \in tree' : e.at \in Way(Root) => e \in tree
    BY <2>1, NothingRooted
  <2>3. \A e : Safe(e) => Safe(e)'
    BY <2>1
  <2> QED BY <1>2, <2>1, <2>2, <2>3
<1>6. CASE Working
  <2>1. /\ UNCHANGED <<undurable, fresh, runs>> /\ flushed \ {Target} \subseteq flushed'
        /\ stage \in Busy
    BY <1>0, <1>6, WorkingFacts DEF Working
  <2>2. Underway /\ stage # "prepare"
    BY <2>1 DEF Underway, Busy
  <2>3. \A e \in tree' : e.at \in Way(Root) => e \in tree
    BY <2>1, <2>2, NothingRooted
  <2>4. Target \notin Way(Root)
    BY <2>1, PlacesType DEF ExportInv
  <2>5. \A e \in tree : e.at \in Way(Root) /\ Safe(e) => Safe(e)'
    BY <2>1, <2>4
  <2> QED BY <1>2, <2>1, <2>2, <2>3, <2>5
<1>7. CASE FlushParents
  <2>1. /\ UNCHANGED <<tree, runs>> /\ Underway
        /\ \/ UNCHANGED <<flushed, fresh, undurable>>
           \/ fresh # <<>> /\ fresh' = Tail(fresh) /\ Flush(Head(fresh))
    BY <1>7 DEF FlushParents, Underway
  <2>2. CASE UNCHANGED <<flushed, fresh, undurable>>
    BY <1>2, <2>1, <2>2
  <2>3. CASE fresh # <<>> /\ fresh' = Tail(fresh) /\ Flush(Head(fresh))
    <3>1. /\ Len(fresh) \in Nat \ {0} /\ Len(fresh') = Len(fresh) - 1 /\ Head(fresh) = fresh[1]
          /\ \A i \in 1 .. Len(fresh) - 1 : fresh'[i] = fresh[i + 1]
      BY <1>0, <2>3, Shorter
    <3>2. \/ flushed' = flushed \cup {e.at : e \in EntriesOf(Head(fresh))} /\ undurable' = undurable
          \/ undurable' = TRUE
      BY <2>3 DEF Flush
    <3>3. ASSUME NEW e \in tree, e.at \in Way(Root), Safe(e) PROVE Safe(e)'
      <4>1. CASE e.at \in flushed \/ undurable
        BY <3>2, <4>1
      <4>2. CASE \E i \in 1 .. Len(fresh) : fresh[i] = Front(e.at)
        <5>1. PICK i \in 1 .. Len(fresh) : fresh[i] = Front(e.at)
          BY <4>2
        <5>2. CASE i = 1
          <6>1. e.at # <<>>
            BY DEF ExportInv, Typed, Entries
          <6>2. e \in EntriesOf(Head(fresh))
            BY <3>1, <5>1, <5>2, <6>1 DEF EntriesOf
          <6> QED BY <3>2, <6>2
        <5>3. CASE i # 1
          <6>1. i - 1 \in 1 .. Len(fresh) - 1 /\ i - 1 \in 1 .. Len(fresh') /\ (i - 1) + 1 = i
            BY <3>1, <5>3
          <6>2. fresh'[i - 1] = Front(e.at)
            BY <3>1, <5>1, <6>1
          <6> QED BY <6>1, <6>2
        <5> QED BY <5>2, <5>3
      <4> QED BY <3>3, <4>1, <4>2
    <3> HIDE DEF Safe
    <3> QED BY <1>2, <2>1, <3>3
  <2> QED BY <2>1, <2>2, <2>3
<1>8. CASE UNCHANGED exportVars
  <2>1. UNCHANGED <<tree, flushed, stage, fresh, undurable, verdict, runs>>
    BY <1>8 DEF exportVars, diskVars, walkVars, reportVars, budget
  <2> QED BY <1>0, <2>1 DEF Rooted, Underway, Concluded, Way, Root
<1>9. CASE Kill
  BY <1>1, <1>9 DEF Kill, Underway, Concluded
<1> QED BY <1>1, <1>3, <1>4, <1>5, <1>6, <1>7, <1>8, <1>9, Steps

-----------------------------------------------------------------------------
(* The temporary files after a step.                                        *)

\* What was reported as failed stays reported.
LEMMA MoreFailed ==
  ASSUME NEW s \in Seq(Nat), NEW more \in Seq(Nat)
  PROVE  /\ ToSet(s) \subseteq ToSet(s \o more)
         /\ \A i \in 1 .. Len(more) : more[i] \in ToSet(s \o more)
<1>1. /\ Len(s \o more) = Len(s) + Len(more) /\ Len(s) \in Nat /\ Len(more) \in Nat
      /\ \A i \in 1 .. Len(s) : (s \o more)[i] = s[i]
      /\ \A i \in 1 .. Len(more) : (s \o more)[Len(s) + i] = more[i]
  OBVIOUS
<1> DEFINE all == s \o more
<1>2. DOMAIN s = 1 .. Len(s) /\ DOMAIN all = 1 .. Len(all)
  OBVIOUS
<1>3. /\ \A i \in 1 .. Len(s) : i \in 1 .. Len(all)
      /\ \A i \in 1 .. Len(more) : Len(s) + i \in 1 .. Len(all)
  BY <1>1
<1>4. ASSUME NEW i \in 1 .. Len(more) PROVE more[i] \in ToSet(all)
  <2>1. all[Len(s) + i] = more[i] /\ Len(s) + i \in DOMAIN all
    BY <1>1, <1>2, <1>3
  <2> HIDE DEF all
  <2> QED BY <2>1 DEF ToSet
<1>5. ASSUME NEW i \in 1 .. Len(s) PROVE s[i] \in ToSet(all)
  <2>1. all[i] = s[i] /\ i \in DOMAIN all
    BY <1>1, <1>2, <1>3
  <2> HIDE DEF all
  <2> QED BY <2>1 DEF ToSet
<1> HIDE DEF all
<1>6. ToSet(s) \subseteq ToSet(all)
  BY <1>2, <1>5 DEF ToSet
<1> QED BY <1>4, <1>6 DEF all

\* The copy in hand is given another name, removed, or reported.
LEMMA CopyGoesOn ==
  ASSUME ExportInv, Working, ~GiveUp, stage \in {"fill", "publish", "unlink"}
  PROVE  \/ stage' \in {"fill", "publish", "unlink"}
         \/ \A e \in tree : e.at = TempPath => e \notin tree'
         \/ TempPath \in strays'
<1>1. CASE FillTemp \/ Link \/ SaveElsewhere
  BY <1>1 DEF FillTemp, Link, SaveElsewhere, StepOr
<1>2. CASE Replace
  <2>1. stage = "publish" /\ tree' = (tree \ ({At(TempPath)} \cup AtTarget)) \cup {Published}
    BY <1>2 DEF Replace, StepOr
  <2>2. /\ \A e \in tree : e.at = TempPath => e = At(TempPath)
        /\ Published.at = Target /\ Target # TempPath
    BY <2>1, PublishedType
  <2> QED BY <2>1, <2>2
<1>3. CASE Unlink
  <2>1. stage = "unlink" /\ (tree' = tree \ {At(TempPath)} \/ TempPath \in strays')
    BY <1>3 DEF Unlink
  <2>2. \A e \in tree : e.at = TempPath => e = At(TempPath)
    BY <2>1, PublishedType
  <2> QED BY <2>1, <2>2
<1>4. CASE Fetch \/ NameTaken \/ CreateTemp \/ Occupied \/ Record
  BY <1>4 DEF Fetch, NameTaken, CreateTemp, Occupied, Record, StepOr
<1> QED BY <1>1, <1>2, <1>3, <1>4 DEF Working

\* Every step keeps Tidy.
LEMMA TidyStep ==
  ASSUME ExportInv, [ExportNext]_exportVars
  PROVE  Tidy'
<1>0. Typed /\ Tidy /\ Labelled /\ failed \in Seq(Nat)
  BY DEF ExportInv, Typed
<1>1. CASE ~Underway'
  BY <1>1 DEF Tidy
<1>2. CASE ExportStart
  <2>1. tree' = tree /\ runs' = runs + 1 /\ runs \in Nat
    BY <1>2, RunsGrow DEF ExportStart, diskVars, ExportInv
  <2>2. \A e \in tree : e.run \in Nat /\ e.run <= runs
    BY DEF ExportInv, Typed, Labelled, Entries
  <2>3. \A e \in tree' : e.run # runs'
    BY <2>1, <2>2
  <2> QED BY <2>3 DEF Tidy
<1>3. ASSUME Underway, stage \notin Busy, runs' = runs, strays' = strays,
             ToSet(failed) \subseteq ToSet(failed')
      PROVE  Tidy'
  <2>1. ASSUME NEW e \in tree', IsTemp(e) PROVE e \in tree
    <3>1. CASE e \notin tree
      <4>1. IsNew(e)
        BY <3>1, EveryTreeStep DEF TreeStep
      <4> QED BY <1>3, <2>1, <4>1 DEF IsNew
    <3> QED BY <3>1
  <2>2. \A e \in tree : IsTemp(e) /\ e.run = runs => e.at \in strays \/ e.doc \in ToSet(failed)
    BY <1>0, <1>3 DEF Tidy, Busy
  <2>3. \A e \in tree' : IsTemp(e) /\ e.run = runs' => e.at \in strays' \/ e.doc \in ToSet(failed')
    BY <1>3, <2>1, <2>2
  <2> QED BY <2>3 DEF Tidy, IsTemp
<1>4. CASE (Prepare /\ Underway') \/ WriteHere \/ FlushLevel \/ FlushParents \/ Finish
  <2>1. Underway /\ stage \notin Busy /\ UNCHANGED <<strays, failed, runs>>
    BY <1>4 DEF Prepare, WriteHere, FlushLevel, FlushParents, Finish, Underway, Busy, reportVars, budget
  <2> QED BY <1>3, <2>1
<1>5. CASE List /\ Underway'
  <2>1. Underway /\ stage \notin Busy /\ UNCHANGED <<strays, runs>> /\ failed = <<>>
    BY <1>5 DEF List, Underway, Busy, ExportInv, Standing
  <2>2. ToSet(failed) = {}
    BY <2>1 DEF ToSet
  <2> QED BY <1>3, <2>1, <2>2
<1>6. CASE WriteBranch
  <2>1. Underway /\ stage \notin Busy /\ UNCHANGED <<strays, runs>>
    BY <1>6 DEF WriteBranch, Underway, Busy
  <2>2. failed' = failed \/ \E more \in Seq(Nat) : failed' = failed \o more
    BY <1>6, BranchFacts
  <2>3. ToSet(failed) \subseteq ToSet(failed')
    BY <1>0, <2>2, MoreFailed
  <2> QED BY <1>3, <2>1, <2>3
<1>7. CASE Working
  <2>1. stage \in Busy /\ UNCHANGED <<stack, runs>> /\ Underway
    BY <1>0, <1>7, WorkingFacts DEF Working, Underway, Busy
  <2>2. /\ current.doc \in Nat /\ Last(TempPath) = <<"tmp", runs, current.doc>>
        /\ Last(Target)[1] # "tmp"
    BY <2>1, PlacesType DEF ExportInv
  <2>3. failed' = failed \/ failed' = failed \o <<current.doc>>
    BY <1>0, <1>7, WorkingFacts
  <2>4. <<current.doc>> \in Seq(Nat) /\ Len(<<current.doc>>) = 1 /\ <<current.doc>>[1] = current.doc
    BY <2>2
  <2>5. /\ ToSet(failed) \subseteq ToSet(failed')
        /\ failed' = failed \o <<current.doc>> => current.doc \in ToSet(failed')
    <3> DEFINE more == <<current.doc>>
    <3>1. more \in Seq(Nat) /\ 1 \in 1 .. Len(more) /\ more[1] = current.doc
      BY <2>4
    <3> HIDE DEF more
    <3>2. ToSet(failed) \subseteq ToSet(failed \o more) /\ current.doc \in ToSet(failed \o more)
      BY <1>0, <3>1, MoreFailed
    <3> QED BY <2>3, <3>2 DEF more
  <2>6. strays \subseteq strays'
    BY <1>0, <1>7, WorkingFacts
  <2>7. ASSUME NEW e \in tree', IsTemp(e), e.run = runs
        PROVE  \/ e.at \in strays' \/ e.doc \in ToSet(failed')
               \/ stage' \in {"fill", "publish", "unlink"} /\ e.at = TempPath'
    <3>1. CASE e \notin tree
      <4>1. IsNew(e)
        BY <3>1, EveryTreeStep DEF TreeStep
      <4>2. e.at # Target
        BY <2>2, <2>7 DEF IsTemp
      <4>3. stage' \in {"fill", "publish"} /\ UNCHANGED <<stack, current, runs>> /\ e.at = TempPath
        BY <2>7, <4>1, <4>2 DEF IsNew
      <4> QED BY <4>3, SamePlaces
    <3>2. CASE e \in tree /\ (e.at \in strays \/ e.doc \in ToSet(failed))
      BY <2>5, <2>6, <3>2
    <3>3. CASE e \in tree /\ stage \in {"fill", "publish", "unlink"} /\ e.at = TempPath
      <4>1. CASE GiveUp
        <5>1. Last(e.at) = <<"tmp", e.run, e.doc>>
          BY <1>0, <2>7, <3>3 DEF Labelled
        <5>2. e.doc = current.doc
          BY <2>2, <3>3, <5>1
        <5>3. failed' = failed \o <<current.doc>>
          BY <4>1 DEF GiveUp, Fail
        <5> QED BY <2>5, <5>2, <5>3
      <4>2. CASE ~GiveUp
        <5>1. current' = current
          BY <1>0, <1>7, <4>2, WorkingFacts
        <5>2. TempPath' = TempPath
          BY <2>1, <5>1, SamePlaces
        <5> QED BY <1>7, <2>7, <3>3, <4>2, <5>2, CopyGoesOn
      <4> QED BY <4>1, <4>2
    <3> QED BY <1>0, <2>1, <2>7, <3>1, <3>2, <3>3 DEF Tidy
  <2> QED BY <2>1, <2>7 DEF Tidy, IsTemp
<1>8. CASE UNCHANGED exportVars
  <2>1. UNCHANGED <<tree, stage, stack, current, strays, failed, verdict, runs>>
    BY <1>8 DEF exportVars, diskVars, walkVars, reportVars, budget
  <2>2. TempPath' = TempPath
    BY <2>1, SamePlaces
  <2> QED BY <1>0, <2>1, <2>2 DEF Tidy, Underway, Concluded, IsTemp
<1>9. CASE Kill
  BY <1>1, <1>9 DEF Kill, Underway, Concluded
<1> QED BY <1>1, <1>2, <1>4, <1>5, <1>6, <1>7, <1>8, <1>9, Steps

-----------------------------------------------------------------------------
(* The invariant, and what follows from it.                                 *)

\* The invariant holds initially.
LEMMA ExportInvInit ==
  ASSUME ExportInit
  PROVE  ExportInv
<1>1. Typed
  <2>1. 0 \in 0 .. MaxRuns /\ 0 \in 0 .. MaxFaults
    BY ExportBoundsAssumption
  <2> QED BY <2>1, NothingYet DEF ExportInit, Typed, Stages
<1>2. Labelled /\ NeverPartial /\ Standing /\ Stacked /\ InHand /\ Landed /\ Rooted /\ Tidy
  BY DEF ExportInit, Labelled, NeverPartial, Standing, Stacked, InHand, Landed, Rooted, Tidy, Busy,
         Concluded
<1> QED BY <1>1, <1>2 DEF ExportInv

\* Every step keeps the invariant.
LEMMA ExportInvStep ==
  ASSUME ExportInv, [ExportNext]_exportVars
  PROVE  ExportInv'
  BY TypedStep, LabelledStep, StandingStep, StackedStep, InHandStep, LandedStep, RootedStep, TidyStep
  DEF ExportInv

(* The invariant holds in every state of every sequence of exports.         *)
THEOREM ExportInvariance == ExportSpec => []ExportInv
<1>1. ExportInit => ExportInv
  BY ExportInvInit
<1>2. ExportInv /\ [ExportNext]_exportVars => ExportInv'
  BY ExportInvStep
<1> QED BY <1>1, <1>2, PTL DEF ExportSpec

\* What the invariant says of the disk.
LEMMA DurableOfInv ==
  ASSUME ExportInv
  PROVE  ExportIsDurable
<1>1. NoDocumentLost
  BY DEF ExportInv, Landed, Landing, NoDocumentLost
<1>2. CleanIsDurable
  <2> SUFFICES ASSUME verdict = "complete", NEW i \in 1 .. Len(exported),
                      NEW k \in 1 .. Len(exported[i].at),
                      k > Len(Root) \/ At(SubSeq(exported[i].at, 1, k)).run = runs
               PROVE  SubSeq(exported[i].at, 1, k) \in flushed
    BY DEF CleanIsDurable
  <2>1. stage = "done" /\ stack = <<>> /\ fresh = <<>> /\ ~undurable /\ Underway
    BY DEF ExportInv, Standing, Concluded, Underway
  <2>2. PICK place, path : place = exported[i].at /\ path = SubSeq(place, 1, k)
    OBVIOUS
  <2>3. path \in Way(place) /\ k \in 1 .. Len(place)
    BY <2>2 DEF Way
  <2>4. place \in Paths
    <3> DEFINE Record1 == [doc : Nat \ {NoId}, at : Paths \ {<<>>}]
    <3>1. exported \in Seq(Record1)
      BY DEF ExportInv, Typed, Records
    <3> HIDE DEF Record1
    <3>2. exported[i] \in Record1
      BY <3>1, ElementOfSeq
    <3>3. exported[i].at \in Paths
      BY <3>2 DEF Record1
    <3> QED BY <2>2, <3>3
  <2>5. /\ \E e \in tree : e.at = place
        /\ path = place \/ DirAt(path)
        /\ path \in Way(Root) \/ Secured(path)
    BY <2>2, <2>3 DEF ExportInv, Landed, Landing
  <2>6. path \in Way(Root) \/ path \in flushed
    BY <2>1, <2>5 DEF Secured
  <2>7. CASE path \in Way(Root) /\ k > Len(Root)
    <3>1. Len(path) = k
      BY <2>2, <2>3, <2>4 DEF Paths
    <3> QED BY <2>3, <2>7, <3>1, RootWay
  <2>8. CASE path \in Way(Root) /\ At(path).run = runs
    <3>1. Exists(path)
      BY <2>5 DEF DirAt, Exists
    <3>2. At(path) \in tree /\ At(path).at = path
      BY <3>1, AtType DEF ExportInv
    <3>3. \A e \in tree : e.at \in Way(Root) /\ e.run = runs => e.at \in flushed
      BY <2>1 DEF ExportInv, Rooted
    <3>4. path \in flushed
      BY <2>8, <3>2, <3>3
    <3> QED BY <2>2, <3>4
  <2> QED BY <2>2, <2>6, <2>7, <2>8
<1>3. StraysReported
  BY DEF ExportInv, Standing, Tidy, StraysReported, Concluded, Underway
<1> QED BY <1>1, <1>2, <1>3 DEF ExportIsDurable, ExportInv

(* Whatever fails and whenever the process is killed: a document reported   *)
(* as written is whole in a file of its own, no document is ever there in   *)
(* part, a clean exit means that every name on the way to the documents is  *)
(* flushed, and a temporary file is left only with a report.                *)
THEOREM ExportDurability == ExportSpec => []ExportIsDurable
<1>1. ExportInv => ExportIsDurable
  BY DurableOfInv
<1> QED BY <1>1, ExportInvariance, PTL

(* The types of docs export (commands/docs/export): a directory or a file   *)
(* under each path, one of them, and no path deeper than --depth allows.    *)
THEOREM ExportTypes == ExportSpec => []ExportTypeOK
<1>1. ExportInv => ExportTypeOK
  <2> SUFFICES ASSUME ExportInv PROVE ExportTypeOK
    OBVIOUS
  <2>1. \A e \in tree : e.kind \in {"dir", "file"} /\ e.whole \in BOOLEAN
    BY DEF ExportInv, Typed, Entries
  <2>2. /\ \A e, f \in tree : e.at = f.at => e = f
        /\ \A e \in tree : Len(e.at) <= Len(Root) + MaxDepth + 1
    BY DEF ExportInv, Labelled
  <2> QED BY <2>1, <2>2 DEF ExportInv, Typed, ExportTypeOK
<1> QED BY <1>1, ExportInvariance, PTL

(* Without --overwrite nothing that was there before, or that somebody else *)
(* saves while the export runs, is removed or replaced.                     *)
THEOREM ExportClobbersNothing == ExportSpec => NothingClobbered
<1> DEFINE Kept == ~overwrite => \A e \in tree : e.run # runs \/ e.doc = NoId => e \in tree'
<1>1. ExportInv /\ [ExportNext]_exportVars => [Kept]_exportVars
  <2> SUFFICES ASSUME ExportInv, [ExportNext]_exportVars, ~overwrite,
                      NEW e \in tree, e.run # runs \/ e.doc = NoId, e \notin tree'
               PROVE  FALSE
    OBVIOUS
  <2>1. stage \in Busy /\ e.at = TempPath
    BY EveryTreeStep DEF TreeStep, IsGone
  <2>2. Last(TempPath) = <<"tmp", runs, current.doc>> /\ Last(TempPath)[1] = "tmp" /\ current.doc # NoId
    BY <2>1, PlacesType DEF ExportInv
  <2>3. Last(e.at) = <<"tmp", e.run, e.doc>>
    BY <2>1, <2>2 DEF IsTemp, ExportInv, Labelled
  <2>4. e.run = runs /\ e.doc = current.doc
    BY <2>1, <2>2, <2>3
  <2> QED BY <2>2, <2>4
<1>2. ExportSpec => [][Kept]_exportVars
  BY <1>1, ExportInvariance, PTL DEF ExportSpec
<1> QED BY <1>2 DEF NothingClobbered

-----------------------------------------------------------------------------
(* Repeated steps: from b a step F is taken for every number from l to top. *)
Iterable(S, m, l, top, b, F) ==
  /\ m \in Nat /\ l \in Nat /\ l = m + 1 /\ top \in Nat /\ m <= top
  /\ b \in S /\ F \in [(l .. top) \X S -> S]
Iteration(S, m, l, top, b, F, g) ==
  /\ g \in [m .. top -> S] /\ g[m] = b
  /\ \A i \in l .. top : g[i] = F[<<i, g[i - 1]>>]

(* A step taken again and again from a start is a function of the number of *)
(* steps.                                                                   *)
LEMMA Iterates ==
  ASSUME NEW S, NEW m, NEW l, NEW top, NEW b, NEW F, Iterable(S, m, l, top, b, F)
  PROVE  \E g : Iteration(S, m, l, top, b, F, g)
<1>0. /\ m \in Nat /\ l \in Nat /\ l = m + 1 /\ top \in Nat /\ m <= top
      /\ b \in S /\ F \in [(l .. top) \X S -> S]
  BY DEF Iterable
<1> DEFINE Upto(k) == \E g \in [m .. k -> S] :
                        g[m] = b /\ \A i \in l .. k : g[i] = F[<<i, g[i - 1]>>]
           bad == {k \in m .. top : ~Upto(k)}
<1> SUFFICES ASSUME bad # {} PROVE FALSE
  <2>1. top \in m .. top
    BY <1>0
  <2>2. Upto(top)
    BY <2>1
  <2> QED BY <2>2 DEF Iteration
<1>1. bad \in SUBSET Nat
  BY <1>0
<1>2. PICK n \in bad : \A k \in bad : n <= k
  <2> HIDE DEF bad
  <2> QED BY <1>1, Least
<1>3. n \in m .. top /\ ~Upto(n)
  BY <1>2
<1>4. CASE n = m
  <2> DEFINE g == [i \in m .. m |-> b]
  <2>1. g \in [m .. n -> S] /\ g[m] = b /\ \A i \in l .. n : g[i] = F[<<i, g[i - 1]>>]
    BY <1>0, <1>4
  <2> QED BY <1>3, <2>1
<1>5. CASE n > m
  <2>1. n - 1 \in m .. top /\ n - 1 \notin bad
    <3> HIDE DEF bad
    <3> QED BY <1>0, <1>2, <1>3, <1>5
  <2>2. Upto(n - 1)
    BY <2>1
  <2>3. PICK g \in [m .. n - 1 -> S] :
               g[m] = b /\ \A i \in l .. n - 1 : g[i] = F[<<i, g[i - 1]>>]
    BY <2>2
  <2> DEFINE h == [i \in m .. n |-> IF i < n THEN g[i] ELSE F[<<n, g[n - 1]>>]]
  <2>4. n - 1 \in m .. n - 1 /\ n \in l .. top
    BY <1>0, <1>3, <1>5
  <2>5. g[n - 1] \in S /\ F[<<n, g[n - 1]>>] \in S
    BY <1>0, <2>3, <2>4
  <2>6. h \in [m .. n -> S]
    BY <1>0, <2>3, <2>5, <1>3
  <2>7. h[m] = b
    BY <1>0, <1>5, <2>3, <1>3
  <2>8. ASSUME NEW i \in l .. n PROVE h[i] = F[<<i, h[i - 1]>>]
    <3>1. i \in m .. n /\ i - 1 \in m .. n /\ i - 1 < n
      BY <1>0, <1>3
    <3>2. h[i - 1] = g[i - 1]
      BY <3>1
    <3>3. CASE i < n
      BY <1>0, <3>1, <3>2, <3>3, <2>3
    <3>4. CASE i = n
      BY <3>1, <3>2, <3>4
    <3> QED BY <1>0, <3>1, <3>3, <3>4
  <2> HIDE DEF h
  <2>9. Upto(n)
    BY <2>6, <2>7, <2>8
  <2> QED BY <1>3, <2>9
<1> QED BY <1>0, <1>3, <1>4, <1>5

(* A set of numbers up to one has a greatest.                               *)
LEMMA Greatest ==
  ASSUME NEW top \in Nat, NEW T \in SUBSET (0 .. top), T # {}
  PROVE  \E n \in T : \A m \in T : m <= n
<1> DEFINE From == {top - n : n \in T}
<1>1. From \in SUBSET Nat /\ From # {}
  <2>1. \A n \in T : top - n \in Nat
    OBVIOUS
  <2>2. PICK n : n \in T
    OBVIOUS
  <2>3. top - n \in From
    BY <2>2
  <2>4. From \subseteq Nat
    BY <2>1
  <2> HIDE DEF From
  <2> QED BY <2>3, <2>4
<1>2. PICK k \in From : \A m \in From : k <= m
  <2> HIDE DEF From
  <2> QED BY <1>1, Least
<1>3. PICK n \in T : k = top - n
  BY <1>2
<1>4. ASSUME NEW m \in T PROVE m <= n
  <2>1. k <= top - m
    BY <1>2
  <2> QED BY <1>3, <2>1
<1> QED BY <1>4

-----------------------------------------------------------------------------
(* The ancestors of a document.                                             *)

\* Nodes on the way up from a start: each is the parent of the one before.
IsTrail(N, parent, done, start, t) ==
  /\ parent \in [N -> N \cup {NoId}] /\ done \subseteq N
  /\ t \in Seq(N \ done) /\ Len(t) >= 1 /\ t[1] = start
  /\ \A j \in 1 .. Len(t) - 1 : parent[t[j]] = t[j + 1]
  /\ \A i, j \in 1 .. Len(t) : t[i] = t[j] => i = j

\* There the way leaves the unknown, or meets itself.
TrailEnds(parent, done, t) ==
  parent[t[Len(t)]] \in done \cup {NoId} \cup {t[j] : j \in 1 .. Len(t)}

\* What is in a sequence.
LEMMA InSeq ==
  ASSUME NEW S, NEW t \in Seq(S)
  PROVE  ToSet(t) = {t[j] : j \in 1 .. Len(t)} /\ Len(t) \in Nat /\ DOMAIN t = 1 .. Len(t)
BY DEF ToSet

(* One step more up the way.                                                *)
LEMMA TrailGrows ==
  ASSUME NEW N, NEW parent, NEW done, NEW start, NEW t,
         IsTrail(N, parent, done, start, t), ~TrailEnds(parent, done, t)
  PROVE  /\ IsTrail(N, parent, done, start, Append(t, parent[t[Len(t)]]))
         /\ Len(Append(t, parent[t[Len(t)]])) = Len(t) + 1
<1> DEFINE p == parent[t[Len(t)]]
           u == Append(t, p)
<1>0. t \in Seq(N \ done) /\ parent \in [N -> N \cup {NoId}]
  BY DEF IsTrail
<1>1. Len(t) \in Nat /\ Len(t) >= 1 /\ t[Len(t)] \in N
  BY <1>0 DEF IsTrail
<1>2. p \in N \ done /\ \A j \in 1 .. Len(t) : t[j] # p
  BY <1>0, <1>1 DEF TrailEnds
<1> HIDE DEF p
<1>3. /\ u \in Seq(N \ done) /\ Len(u) = Len(t) + 1 /\ u[Len(t) + 1] = p
      /\ \A j \in 1 .. Len(t) : u[j] = t[j]
  BY <1>0, <1>1, <1>2
<1> HIDE DEF u
<1>4. u[1] = start
  BY <1>1, <1>3 DEF IsTrail
<1>5. ASSUME NEW j \in 1 .. Len(u) - 1 PROVE parent[u[j]] = u[j + 1]
  <2>1. CASE j < Len(t)
    BY <1>1, <1>3, <2>1 DEF IsTrail
  <2>2. CASE j = Len(t)
    BY <1>1, <1>3, <2>2 DEF p
  <2> QED BY <1>1, <1>3, <2>1, <2>2
<1>6. ASSUME NEW i \in 1 .. Len(u), NEW j \in 1 .. Len(u), u[i] = u[j] PROVE i = j
  <2>1. (i \in 1 .. Len(t) \/ i = Len(t) + 1) /\ (j \in 1 .. Len(t) \/ j = Len(t) + 1)
    BY <1>1, <1>3
  <2> QED BY <1>2, <1>3, <1>6, <2>1 DEF IsTrail
<1>7. IsTrail(N, parent, done, start, u)
  BY <1>1, <1>3, <1>4, <1>5, <1>6 DEF IsTrail
<1> QED BY <1>3, <1>7 DEF u, p

(* A sequence in which nothing is twice is no longer than its set is large. *)
LEMMA NoLonger ==
  ASSUME NEW T, IsFiniteSet(T), NEW t \in Seq(T), \A i, j \in 1 .. Len(t) : t[i] = t[j] => i = j
  PROVE  Len(t) <= Cardinality(T)
<1>1. Len(t) \in Nat /\ Cardinality(T) \in Nat /\ t \in [1 .. Len(t) -> T]
  BY FS_CardinalityType
<1>2. IsFiniteSet(1 .. Len(t)) /\ Cardinality(1 .. Len(t)) = Len(t)
  <2> DEFINE k == Len(t)
  <2>1. k \in Nat /\ 1 \in Int /\ k \in Int
    BY <1>1
  <2> HIDE DEF k
  <2>2. IsFiniteSet(1 .. k) /\ Cardinality(1 .. k) = k
    BY <2>1, FS_Interval, SMTT(20)
  <2> QED BY <2>2 DEF k
<1>3. t \in Injection(1 .. Len(t), T)
  BY <1>1 DEF Injection, IsInjective
<1> QED BY <1>1, <1>2, <1>3, FS_Injection

\* What a walk starts from.
Sets(N, parent, done, start) ==
  /\ IsFiniteSet(N) /\ N \subseteq Nat \ {NoId} /\ parent \in [N -> N \cup {NoId}]
  /\ done \subseteq N /\ start \in N \ done

(* The walk up from a document ends, with a way on which nothing is twice.  *)
LEMMA WalkEnds ==
  ASSUME NEW N, NEW parent, NEW done, NEW start, Sets(N, parent, done, start)
  PROVE  \E t : /\ IsTrail(N, parent, done, start, t) /\ TrailEnds(parent, done, t)
                /\ WalkFrom(parent, done, start).path = ToSet(t)
                /\ WalkFrom(parent, done, start).cut = {parent[t[Len(t)]]} \cap ToSet(t)
<1> DEFINE Further(t) == LET p == parent[Last(t)]
                         IN  IF p = NoId \/ p \in done \/ p \in ToSet(t) THEN t ELSE Append(t, p)
           top == Cardinality(DOMAIN parent) + 1
           Goes(f) == f = [k \in 1 .. top |-> IF k = 1 THEN <<start>> ELSE Further(f[k - 1])]
           trail == CHOOSE f : Goes(f)
           S == {t \in Seq(N \ done) : Len(t) >= 1}
           F == [x \in (2 .. top) \X S |-> Further(x[2])]
           Trails(t) == IsTrail(N, parent, done, start, t)
           last == trail[top]
<1>0. /\ IsFiniteSet(N) /\ N \subseteq Nat \ {NoId} /\ parent \in [N -> N \cup {NoId}]
      /\ done \in SUBSET N /\ start \in N \ done
  BY DEF Sets
<1>1. Cardinality(N) \in Nat /\ DOMAIN parent = N /\ top = Cardinality(N) + 1 /\ top \in Nat /\ 1 <= top
  BY <1>0, FS_CardinalityType
<1>2. WalkFrom(parent, done, start) =
        [path |-> ToSet(last), cut |-> {parent[Last(last)]} \cap ToSet(last)]
  BY DEF WalkFrom
<1>3. <<start>> \in S /\ Trails(<<start>>)
  BY <1>0 DEF IsTrail
<1>4. ASSUME NEW t, Trails(t)
      PROVE  /\ Trails(Further(t))
             /\ TrailEnds(parent, done, t) => Further(t) = t
             /\ ~TrailEnds(parent, done, t) => Len(Further(t)) = Len(t) + 1
  <2>1. t \in Seq(N \ done) /\ Last(t) = t[Len(t)] /\ Len(t) \in Nat /\ Len(t) >= 1
    BY <1>4 DEF Last, IsTrail
  <2>2. ToSet(t) = {t[j] : j \in 1 .. Len(t)}
    BY <2>1, InSeq
  <2>3. TrailEnds(parent, done, t) => Further(t) = t
    BY <2>1, <2>2 DEF TrailEnds
  <2>4. ~TrailEnds(parent, done, t) => Further(t) = Append(t, parent[t[Len(t)]])
    BY <2>1, <2>2 DEF TrailEnds
  <2> DEFINE u == Append(t, parent[t[Len(t)]])
  <2> HIDE DEF Further, Trails
  <2>5. ~TrailEnds(parent, done, t) => Trails(u) /\ Len(u) = Len(t) + 1
    BY <1>4, TrailGrows DEF Trails
  <2> HIDE DEF u
  <2> QED BY <1>4, <2>3, <2>4, <2>5 DEF u
<1>5. F \in [(2 .. top) \X S -> S]
  <2>1. ASSUME NEW t \in S PROVE Further(t) \in S
    <3>1. t \in Seq(N \ done) /\ Last(t) = t[Len(t)] /\ Len(t) \in Nat /\ Len(t) >= 1
      BY DEF Last
    <3>2. t[Len(t)] \in N \ done
      BY <3>1, ElementOfSeq
    <3>3. Last(t) \in N /\ parent[Last(t)] \in N \cup {NoId}
      BY <1>0, <3>1, <3>2
    <3>4. parent[Last(t)] \in N \ done => Append(t, parent[Last(t)]) \in S
      BY <1>0, <3>1
    <3> QED BY <3>3, <3>4
  <2> HIDE DEF Further, S
  <2> QED BY <2>1
<1>6. PICK g : Iteration(S, 1, 2, top, <<start>>, F, g)
  <2> HIDE DEF S, F, top
  <2>1. Iterable(S, 1, 2, top, <<start>>, F)
    BY <1>1, <1>3, <1>5 DEF Iterable
  <2> QED BY <2>1, Iterates
<1>7. Goes(g)
  <2> HIDE DEF Further, S, top, F
  <2>0. g \in [1 .. top -> S] /\ g[1] = <<start>> /\ \A i \in 2 .. top : g[i] = F[<<i, g[i - 1]>>]
    BY <1>6 DEF Iteration
  <2>1. ASSUME NEW i \in 2 .. top PROVE g[i] = Further(g[i - 1])
    <3>1. i - 1 \in 1 .. top /\ g[i - 1] \in S
      BY <1>1, <2>0
    <3>2. F[<<i, g[i - 1]>>] = Further(g[i - 1])
      BY <3>1 DEF F
    <3> QED BY <2>0, <3>2
  <2>2. \A i \in 1 .. top : i = 1 \/ i \in 2 .. top
    BY <1>1
  <2>3. \A i \in 1 .. top : g[i] = IF i = 1 THEN <<start>> ELSE Further(g[i - 1])
    BY <2>0, <2>1, <2>2
  <2>4. DOMAIN g = 1 .. top /\ g = [i \in 1 .. top |-> g[i]]
    BY <2>0
  <2> QED BY <2>3, <2>4
<1>8. Goes(trail)
  <2> HIDE DEF Goes
  <2> QED BY <1>7
<1>9. trail[1] = <<start>> /\ \A k \in 2 .. top : trail[k] = Further(trail[k - 1])
  <2> HIDE DEF Further, trail, top
  <2>1. \A k \in 2 .. top : k \in 1 .. top /\ k # 1
    BY <1>1
  <2>2. \A k \in 1 .. top : trail[k] = IF k = 1 THEN <<start>> ELSE Further(trail[k - 1])
    BY <1>8
  <2>3. 1 \in 1 .. top
    BY <1>1
  <2> HIDE DEF Goes
  <2> QED BY <2>1, <2>2, <2>3
<1> DEFINE Fine(k) == /\ Trails(trail[k])
                      /\ TrailEnds(parent, done, trail[k]) \/ Len(trail[k]) = k
           bad == {k \in 1 .. top : ~Fine(k)}
<1>10. bad = {}
  <2> SUFFICES ASSUME bad # {} PROVE FALSE
    OBVIOUS
  <2>1. PICK n \in bad : \A k \in bad : n <= k
    <3>1. bad \in SUBSET Nat
      OBVIOUS
    <3> HIDE DEF bad
    <3> QED BY <3>1, Least
  <2>2. n \in 1 .. top /\ ~Fine(n)
    BY <2>1
  <2> HIDE DEF trail, S, Further, top, Trails
  <2>3. CASE n = 1
    <3>1. Len(trail[1]) = 1
      BY <1>9
    <3> QED BY <1>3, <1>9, <2>2, <2>3, <3>1
  <2>4. CASE n # 1
    <3>1. n - 1 \in 1 .. top /\ n - 1 \notin bad /\ n \in 2 .. top
      BY <1>1, <2>1, <2>2, <2>4
    <3>2. Fine(n - 1) /\ trail[n] = Further(trail[n - 1])
      BY <1>9, <3>1
    <3>3. Fine(n)
      BY <1>4, <3>1, <3>2
    <3> QED BY <2>2, <3>3
  <2> QED BY <2>3, <2>4
<1>11. Fine(top)
  <2> HIDE DEF top, Fine
  <2>1. top \in 1 .. top /\ top \notin bad
    <3> HIDE DEF bad
    <3> QED BY <1>1, <1>10
  <2> QED BY <2>1
<1> HIDE DEF trail, Further
<1>12. /\ Trails(last) /\ last \in Seq(N) /\ Len(last) \in Nat
       /\ \A i, j \in 1 .. Len(last) : last[i] = last[j] => i = j
  BY <1>0, <1>11 DEF IsTrail
<1>13. TrailEnds(parent, done, last)
  <2> HIDE DEF last, Trails
  <2>1. Len(last) <= Cardinality(N)
    BY <1>0, <1>12, NoLonger
  <2> QED BY <1>1, <1>11, <2>1 DEF last
<1>14. Last(last) = last[Len(last)]
  BY DEF Last
<1> HIDE DEF last
<1> QED BY <1>2, <1>12, <1>13, <1>14

\* No way up within a set goes on forever: it has an end in every part of it.
Grounded(S, parent) == \A T \in SUBSET S : T # {} => \E n \in T : parent[n] \notin T
\* The ways up from a set stay in it until they end.
Closed(S, parent) == \A n \in S : parent[n] \in S \cup {NoId}

\* The node that is found twice is made a root.
IsCut(N, parent, t, q) ==
  q = [n \in N |-> IF n \in {parent[t[Len(t)]]} \cap ToSet(t) THEN NoId ELSE parent[n]]

(* With the loop cut at which the way ends, the way is known too.           *)
LEMMA LoopCut ==
  ASSUME NEW N, N \subseteq Nat \ {NoId}, NEW parent, NEW done, NEW start, NEW t,
         IsTrail(N, parent, done, start, t), TrailEnds(parent, done, t),
         Closed(done, parent), Grounded(done, parent), NEW q, IsCut(N, parent, t, q)
  PROVE  /\ q \in [N -> N \cup {NoId}] /\ start \in ToSet(t) /\ ToSet(t) \subseteq N
         /\ Closed(done \cup ToSet(t), q) /\ Grounded(done \cup ToSet(t), q)
<1> DEFINE way == {t[j] : j \in 1 .. Len(t)}
           end == t[Len(t)]
<1>1. /\ parent \in [N -> N \cup {NoId}] /\ done \subseteq N /\ t \in Seq(N \ done)
      /\ Len(t) \in Nat /\ Len(t) >= 1 /\ t[1] = start
      /\ \A j \in 1 .. Len(t) - 1 : parent[t[j]] = t[j + 1]
      /\ \A i, j \in 1 .. Len(t) : t[i] = t[j] => i = j
  BY DEF IsTrail
<1>2. \A j \in 1 .. Len(t) : t[j] \in N \ done
  BY <1>1, ElementOfSeq
<1>3. ToSet(t) = way
  BY <1>1, InSeq
<1>4. way \subseteq N \ done /\ start \in way /\ end \in way
  BY <1>1, <1>2
<1>5. parent[end] \in done \cup {NoId} \cup way
  BY DEF TrailEnds
<1>6. \A n \in N : q[n] = IF n = parent[end] /\ n \in way THEN NoId ELSE parent[n]
  BY <1>3 DEF IsCut
<1>7. q \in [N -> N \cup {NoId}]
  BY <1>1 DEF IsCut
<1>8. \A j \in 1 .. Len(t) - 1 : q[t[j]] \in {t[j + 1], NoId} /\ t[j + 1] \in way
  <2> TAKE j \in 1 .. Len(t) - 1
  <2>1. j \in 1 .. Len(t) /\ j + 1 \in 1 .. Len(t) /\ parent[t[j]] = t[j + 1]
    BY <1>1
  <2>2. t[j] \in N /\ t[j + 1] \in way
    BY <1>2, <2>1
  <2>3. q[t[j]] \in {parent[t[j]], NoId}
    BY <1>6, <2>2
  <2> QED BY <2>1, <2>2, <2>3
<1>9. \A n \in done : q[n] = parent[n]
  BY <1>1, <1>4, <1>6
<1>10. Closed(done \cup way, q)
  <2> SUFFICES ASSUME NEW n \in done \cup way PROVE q[n] \in done \cup way \cup {NoId}
    BY DEF Closed
  <2>1. CASE n \in done
    BY <1>9, <2>1 DEF Closed
  <2>2. CASE n \in way
    <3>1. PICK j \in 1 .. Len(t) : n = t[j]
      BY <2>2
    <3>2. CASE j < Len(t)
      BY <1>1, <1>8, <3>1, <3>2
    <3>3. CASE j = Len(t)
      BY <1>2, <1>5, <1>6, <3>1, <3>3
    <3> QED BY <1>1, <3>2, <3>3
  <2> QED BY <2>1, <2>2
<1>11. Grounded(done \cup way, q)
  <2> SUFFICES ASSUME NEW T \in SUBSET (done \cup way), T # {} PROVE \E n \in T : q[n] \notin T
    BY DEF Grounded
  <2>0. NoId \notin T /\ T \subseteq N
    BY <1>1, <1>4
  <2>1. CASE T \cap done # {}
    <3>1. PICK n \in T \cap done : parent[n] \notin T \cap done
      BY <2>1 DEF Grounded
    <3>2. q[n] = parent[n] /\ parent[n] \in done \cup {NoId}
      BY <1>9 DEF Closed
    <3> QED BY <2>0, <3>1, <3>2
  <2>2. CASE T \cap done = {}
    <3> DEFINE here == {j \in 1 .. Len(t) : t[j] \in T}
    <3>1. here \in SUBSET (0 .. Len(t)) /\ here # {}
      <4>1. PICK n \in T : n \in way
        BY <2>2
      <4> QED BY <1>1, <4>1
    <3>2. PICK k \in here : \A j \in here : j <= k
      <4> HIDE DEF here
      <4> QED BY <1>1, <3>1, Greatest
    <3>3. k \in 1 .. Len(t) /\ t[k] \in T
      BY <3>2
    <3>4. CASE k < Len(t)
      <4>1. t[k + 1] \notin T
        <5>1. k + 1 \in 1 .. Len(t) /\ k + 1 \notin here
          <6> HIDE DEF here
          <6> QED BY <1>1, <3>2, <3>3, <3>4
        <5> QED BY <5>1
      <4>2. q[t[k]] \in {t[k + 1], NoId}
        BY <1>1, <1>8, <3>3, <3>4
      <4> QED BY <2>0, <3>3, <4>1, <4>2
    <3>5. CASE k = Len(t) /\ parent[end] \notin way
      <4>1. q[end] = parent[end] /\ end \in T
        BY <1>2, <1>4, <1>6, <3>3, <3>5
      <4> QED BY <1>5, <2>0, <2>2, <3>5, <4>1
    <3>6. CASE k = Len(t) /\ parent[end] \in way /\ parent[end] \in T
      <4>1. q[parent[end]] = NoId
        BY <1>4, <1>6, <3>6
      <4> QED BY <2>0, <3>6, <4>1
    <3>7. CASE k = Len(t) /\ parent[end] \in way /\ parent[end] \notin T
      <4>1. end \in T /\ end # parent[end]
        BY <3>3, <3>7
      <4>2. q[end] = parent[end]
        BY <1>4, <1>6, <4>1
      <4> QED BY <3>7, <4>1, <4>2
    <3> QED BY <1>1, <3>3, <3>4, <3>5, <3>6, <3>7
  <2> QED BY <2>1, <2>2
<1> QED BY <1>3, <1>4, <1>7, <1>10, <1>11

(* break_cycles: every way up from a document of the listing ends.          *)
LEMMA CyclesBroken ==
  ASSUME NEW rows \in Seq(GoodRows)
  PROVE  LET q == BreakCycles(rows, Resolved(rows))
         IN  /\ q \in [Nodes(rows) -> Nodes(rows) \cup {NoId}]
             /\ Grounded(Nodes(rows), q)
<1> DEFINE N == Nodes(rows)
           first == Resolved(rows)
           top == Len(rows)
           Cut(s, i) == LET walk == WalkFrom(s.parent, s.done, rows[i].id)
                        IN  IF i \notin KeptRows(rows) \/ rows[i].id \in s.done THEN s
                            ELSE [parent |-> [n \in DOMAIN first |->
                                                IF n \in walk.cut THEN NoId ELSE s.parent[n]],
                                  done |-> s.done \cup walk.path]
           none == [parent |-> first, done |-> {}]
           Goes(f) == f = [i \in 0 .. top |-> IF i = 0 THEN none ELSE Cut(f[i - 1], i)]
           step == CHOOSE f : Goes(f)
           S == [parent : [N -> N \cup {NoId}], done : SUBSET N]
           F == [x \in (1 .. top) \X S |-> Cut(x[2], x[1])]
           Known(s) == s \in S /\ Closed(s.done, s.parent) /\ Grounded(s.done, s.parent)
<1>1. /\ N \subseteq Nat \ {NoId} /\ IsFiniteSet(N) /\ top \in Nat
      /\ KeptRows(rows) \subseteq 1 .. top /\ \A i \in KeptRows(rows) : rows[i].id \in N
      /\ \A n \in N : \E i \in KeptRows(rows) : rows[i].id = n
  <2>1. N \subseteq Nat \ {NoId} /\ IsFiniteSet(N)
    BY NodesType
  <2>2. top \in Nat
    OBVIOUS
  <2>3. KeptRows(rows) \subseteq 1 .. top
    BY DEF KeptRows
  <2> QED BY <2>1, <2>2, <2>3 DEF Nodes
<1>2. BreakCycles(rows, first) = step[top].parent
  BY DEF BreakCycles
<1>3. first \in [N -> N \cup {NoId}]
  BY DEF Resolved
<1>4. none \in S /\ Known(none)
  BY <1>3 DEF Closed, Grounded
<1>5. ASSUME NEW i \in 1 .. top, NEW s \in S
      PROVE  /\ Cut(s, i) \in S /\ s.done \subseteq Cut(s, i).done
             /\ i \in KeptRows(rows) => rows[i].id \in Cut(s, i).done
             /\ Known(s) => Known(Cut(s, i))
  <2>1. CASE i \notin KeptRows(rows) \/ rows[i].id \in s.done
    <3>1. Cut(s, i) = s
      BY <2>1
    <3> HIDE DEF Cut, Known
    <3> QED BY <2>1, <3>1
  <2>2. CASE i \in KeptRows(rows) /\ rows[i].id \notin s.done
    <3> DEFINE start == rows[i].id
               walk == WalkFrom(s.parent, s.done, start)
    <3>1. start \in N \ s.done /\ s.parent \in [N -> N \cup {NoId}] /\ s.done \in SUBSET N
      BY <1>1, <2>2
    <3>2. PICK t : /\ IsTrail(N, s.parent, s.done, start, t) /\ TrailEnds(s.parent, s.done, t)
                   /\ walk.path = ToSet(t)
                   /\ walk.cut = {s.parent[t[Len(t)]]} \cap ToSet(t)
      <4> HIDE DEF N, start
      <4>1. Sets(N, s.parent, s.done, start)
        BY <1>1, <3>1 DEF Sets
      <4> QED BY <4>1, WalkEnds
    <3> DEFINE q == [n \in N |-> IF n \in {s.parent[t[Len(t)]]} \cap ToSet(t) THEN NoId ELSE s.parent[n]]
    <3>3. Cut(s, i) = [parent |-> q, done |-> s.done \cup ToSet(t)]
      <4>1. DOMAIN first = N
        BY <1>3
      <4> HIDE DEF walk, N, start, first
      <4> QED BY <2>2, <3>2, <4>1 DEF start, walk
    <3>4. t \in Seq(N \ s.done) /\ Len(t) \in Nat /\ Len(t) >= 1 /\ t[1] = start
      BY <3>2 DEF IsTrail
    <3>5. ToSet(t) = {t[j] : j \in 1 .. Len(t)} /\ \A j \in 1 .. Len(t) : t[j] \in N
      BY <3>4, InSeq, ElementOfSeq
    <3>6. ToSet(t) \subseteq N /\ start \in ToSet(t)
      BY <3>4, <3>5
    <3>7. q \in [N -> N \cup {NoId}]
      BY <3>1
    <3>8. Closed(s.done, s.parent) /\ Grounded(s.done, s.parent)
            => Closed(s.done \cup ToSet(t), q) /\ Grounded(s.done \cup ToSet(t), q)
      <4> SUFFICES ASSUME Closed(s.done, s.parent), Grounded(s.done, s.parent)
                   PROVE  Closed(s.done \cup ToSet(t), q) /\ Grounded(s.done \cup ToSet(t), q)
        OBVIOUS
      <4>1. IsCut(N, s.parent, t, q)
        BY DEF IsCut
      <4> HIDE DEF q, N, start, S
      <4> QED BY <1>1, <3>2, <4>1, LoopCut
    <3> HIDE DEF Cut, q, N, start, walk
    <3>9. Cut(s, i) \in S /\ Cut(s, i).done = s.done \cup ToSet(t) /\ Cut(s, i).parent = q
      BY <3>1, <3>3, <3>6, <3>7
    <3> HIDE DEF S
    <3> QED BY <3>6, <3>8, <3>9 DEF start
  <2> QED BY <2>1, <2>2
<1>6. PICK g : Iteration(S, 0, 1, top, none, F, g)
  <2>1. F \in [(1 .. top) \X S -> S]
    <3> HIDE DEF Cut, S, top
    <3> QED BY <1>5
  <2> HIDE DEF S, F, top, none
  <2>2. Iterable(S, 0, 1, top, none, F)
    BY <1>1, <1>4, <2>1 DEF Iterable
  <2> QED BY <2>2, Iterates
<1>7. Goes(g)
  <2> HIDE DEF Cut, S, top, F, none
  <2>0. g \in [0 .. top -> S] /\ g[0] = none /\ \A i \in 1 .. top : g[i] = F[<<i, g[i - 1]>>]
    BY <1>6 DEF Iteration
  <2>1. ASSUME NEW i \in 1 .. top PROVE g[i] = Cut(g[i - 1], i)
    <3>1. i - 1 \in 0 .. top /\ g[i - 1] \in S
      BY <1>1, <2>0
    <3>2. F[<<i, g[i - 1]>>] = Cut(g[i - 1], i)
      BY <3>1 DEF F
    <3> QED BY <2>0, <3>2
  <2>2. \A i \in 0 .. top : i = 0 \/ i \in 1 .. top
    BY <1>1
  <2>3. \A i \in 0 .. top : g[i] = IF i = 0 THEN none ELSE Cut(g[i - 1], i)
    BY <2>0, <2>1, <2>2
  <2>4. DOMAIN g = 0 .. top /\ g = [i \in 0 .. top |-> g[i]]
    BY <2>0
  <2> QED BY <2>3, <2>4
<1>8. Goes(step)
  <2> HIDE DEF Goes
  <2> QED BY <1>7
<1>9. step[0] = none /\ \A k \in 1 .. top : step[k] = Cut(step[k - 1], k)
  <2> HIDE DEF Cut, step, top, none
  <2>1. \A k \in 1 .. top : k \in 0 .. top /\ k # 0
    BY <1>1
  <2>2. \A k \in 0 .. top : step[k] = IF k = 0 THEN none ELSE Cut(step[k - 1], k)
    BY <1>8
  <2>3. 0 \in 0 .. top
    BY <1>1
  <2> HIDE DEF Goes
  <2> QED BY <2>1, <2>2, <2>3
<1> DEFINE Fine(k) == /\ Known(step[k])
                      /\ \A i \in KeptRows(rows) : i <= k => rows[i].id \in step[k].done
           bad == {k \in 0 .. top : ~Fine(k)}
<1>10. bad = {}
  <2> SUFFICES ASSUME bad # {} PROVE FALSE
    OBVIOUS
  <2>1. PICK n \in bad : \A k \in bad : n <= k
    <3>1. bad \in SUBSET Nat
      <4> HIDE DEF Fine, top
      <4> QED BY <1>1
    <3> HIDE DEF bad
    <3> QED BY <3>1, Least
  <2>2. n \in 0 .. top /\ ~Fine(n)
    BY <2>1
  <2> HIDE DEF step, Cut, top, none
  <2>3. CASE n = 0
    <3>1. \A i \in KeptRows(rows) : ~(i <= 0)
      BY <1>1
    <3> HIDE DEF Known
    <3> QED BY <1>4, <1>9, <2>2, <2>3, <3>1
  <2>4. CASE n # 0
    <3>1. n - 1 \in 0 .. top /\ n - 1 \notin bad /\ n \in 1 .. top
      BY <1>1, <2>1, <2>2, <2>4
    <3>2. Fine(n - 1) /\ step[n] = Cut(step[n - 1], n) /\ step[n - 1] \in S
      BY <1>9, <3>1
    <3> HIDE DEF S, Known
    <3>3. /\ Known(step[n]) /\ step[n - 1].done \subseteq step[n].done
          /\ n \in KeptRows(rows) => rows[n].id \in step[n].done
      BY <1>5, <3>1, <3>2
    <3>4. \A i \in KeptRows(rows) : i <= n => i = n \/ i <= n - 1
      BY <1>1, <3>1
    <3>5. Fine(n)
      BY <3>2, <3>3, <3>4
    <3> QED BY <2>2, <3>5
  <2> QED BY <2>3, <2>4
<1>11. Fine(top)
  <2> HIDE DEF top, Fine
  <2>1. top \in 0 .. top /\ top \notin bad
    <3> HIDE DEF bad
    <3> QED BY <1>1, <1>10
  <2> QED BY <2>1
<1> HIDE DEF step
<1>12. N \subseteq step[top].done /\ step[top] \in S
  BY <1>1, <1>11
<1>13. step[top].done = N
  BY <1>12
<1> QED BY <1>2, <1>11, <1>12, <1>13

\* A set of nodes with everything below it.
WithBelow(N, parent, B) == \A m \in N : parent[m] \in B => m \in B

(* descendants: a document and what is below it is what there is below it,  *)
(* and nothing else.                                                        *)
LEMMA AllBelow ==
  ASSUME NEW rows \in Seq(GoodRows), NEW n \in Nodes(rows)
  PROVE  LET N == Nodes(rows)
             parent == Plan(rows).parent
             D == Descendants(Plan(rows), n)
         IN  /\ D \subseteq N \ {n} /\ WithBelow(N, parent, D \cup {n})
             /\ \A m \in D : parent[m] \in D \cup {n}
<1> DEFINE N == Nodes(rows)
           plan1 == Plan(rows)
           parent == Plan(rows).parent
           top == Len(rows)
           Wider(B) == B \cup {m \in N : parent[m] \in B}
           Goes(f) == f = [k \in 0 .. top |-> IF k = 0 THEN {n} ELSE Wider(f[k - 1])]
           below == CHOOSE f : Goes(f)
           S == SUBSET N
           F == [x \in (1 .. top) \X S |-> Wider(x[2])]
           D == Descendants(Plan(rows), n)
<1>1. N \subseteq Nat \ {NoId} /\ IsFiniteSet(N) /\ top \in Nat
  <2>1. N \subseteq Nat \ {NoId} /\ IsFiniteSet(N)
    BY NodesType
  <2>2. top \in Nat
    OBVIOUS
  <2> QED BY <2>1, <2>2
<1>2. Cardinality(N) <= top /\ Cardinality(N) \in Nat
  <2> DEFINE f == [i \in KeptRows(rows) |-> rows[i].id]
  <2>1. KeptRows(rows) \subseteq 1 .. top
    BY DEF KeptRows
  <2>2. f \in Surjection(KeptRows(rows), N)
    BY DEF Surjection, Nodes
  <2>3. IsFiniteSet(1 .. top) /\ Cardinality(1 .. top) = top
    <3> HIDE DEF top
    <3>1. 1 \in Int /\ top \in Int
      BY <1>1
    <3> QED BY <1>1, <3>1, FS_Interval, SMTT(20)
  <2>4. IsFiniteSet(KeptRows(rows)) /\ Cardinality(KeptRows(rows)) <= top
    <3> HIDE DEF top
    <3> QED BY <2>1, <2>3, FS_Subset
  <2>5. Cardinality(N) <= Cardinality(KeptRows(rows))
    <3> HIDE DEF f, N
    <3> QED BY <2>2, <2>4, FS_Surjection
  <2>6. Cardinality(N) \in Nat /\ Cardinality(KeptRows(rows)) \in Nat
    BY <1>1, <2>4, FS_CardinalityType
  <2> HIDE DEF top, N
  <2> QED BY <1>1, <2>4, <2>5, <2>6
<1>3. D = {m \in N \ {n} : m \in below[top]}
  <2>1. plan1.rows = rows
    BY DEF Plan
  <2> HIDE DEF Plan
  <2> QED BY <2>1 DEF Descendants
<1>4. PICK g : Iteration(S, 0, 1, top, {n}, F, g)
  <2>1. F \in [(1 .. top) \X S -> S]
    <3> HIDE DEF top
    <3> QED OBVIOUS
  <2>2. {n} \in S
    OBVIOUS
  <2> HIDE DEF S, F, top
  <2>3. Iterable(S, 0, 1, top, {n}, F)
    BY <1>1, <2>1, <2>2 DEF Iterable
  <2> QED BY <2>3, Iterates
<1>5. Goes(g)
  <2> HIDE DEF Wider, S, top, F
  <2>0. g \in [0 .. top -> S] /\ g[0] = {n} /\ \A i \in 1 .. top : g[i] = F[<<i, g[i - 1]>>]
    BY <1>4 DEF Iteration
  <2>1. ASSUME NEW i \in 1 .. top PROVE g[i] = Wider(g[i - 1])
    <3>1. i - 1 \in 0 .. top /\ g[i - 1] \in S
      BY <1>1, <2>0
    <3>2. F[<<i, g[i - 1]>>] = Wider(g[i - 1])
      BY <3>1 DEF F
    <3> QED BY <2>0, <3>2
  <2>2. \A i \in 0 .. top : i = 0 \/ i \in 1 .. top
    BY <1>1
  <2>3. \A i \in 0 .. top : g[i] = IF i = 0 THEN {n} ELSE Wider(g[i - 1])
    BY <2>0, <2>1, <2>2
  <2>4. DOMAIN g = 0 .. top /\ g = [i \in 0 .. top |-> g[i]]
    BY <2>0
  <2> QED BY <2>3, <2>4
<1>6. Goes(below)
  <2> HIDE DEF Goes
  <2> QED BY <1>5
<1>7. below[0] = {n} /\ \A k \in 1 .. top : below[k] = Wider(below[k - 1])
  <2> HIDE DEF Wider, below, top
  <2>1. \A k \in 1 .. top : k \in 0 .. top /\ k # 0
    BY <1>1
  <2>2. \A k \in 0 .. top : below[k] = IF k = 0 THEN {n} ELSE Wider(below[k - 1])
    BY <1>6
  <2>3. 0 \in 0 .. top
    BY <1>1
  <2> HIDE DEF Goes
  <2> QED BY <2>1, <2>2, <2>3
<1> DEFINE Part(B) == /\ B \subseteq N /\ n \in B
                      /\ \A m \in B : m = n \/ parent[m] \in B
           Fine(k) == /\ Part(below[k])
                      /\ WithBelow(N, parent, below[k]) \/ Cardinality(below[k]) >= k + 1
           bad == {k \in 0 .. top : ~Fine(k)}
<1>8. ASSUME NEW B, Part(B)
      PROVE  /\ Part(Wider(B))
             /\ WithBelow(N, parent, B) => Wider(B) = B
             /\ Cardinality(B) \in Nat /\ IsFiniteSet(B)
             /\ ~WithBelow(N, parent, B) =>
                  Cardinality(Wider(B)) \in Nat /\ Cardinality(B) < Cardinality(Wider(B))
  <2>1. Part(Wider(B))
    BY <1>8
  <2>2. WithBelow(N, parent, B) => Wider(B) = B
    BY <1>8 DEF WithBelow
  <2>3. ~WithBelow(N, parent, B) => Wider(B) # B
    BY DEF WithBelow
  <2>4. B \subseteq Wider(B) /\ Wider(B) \subseteq N
    BY <1>8
  <2> HIDE DEF Wider
  <2>5. IsFiniteSet(Wider(B)) /\ IsFiniteSet(B)
    <3>1. B \subseteq N
      BY <2>4
    <3> HIDE DEF N
    <3> QED BY <1>1, <2>4, <3>1, FS_Subset
  <2>6. Cardinality(Wider(B)) \in Nat /\ Cardinality(B) \in Nat
    BY <2>5, FS_CardinalityType
  <2>7. Wider(B) # B => Cardinality(B) < Cardinality(Wider(B))
    <3> DEFINE W == Wider(B)
    <3>1. IsFiniteSet(W) /\ B \in SUBSET W /\ Cardinality(W) \in Nat /\ Cardinality(B) \in Nat
      BY <2>4, <2>5, <2>6
    <3> HIDE DEF W
    <3>2. Cardinality(B) <= Cardinality(W) /\ (Cardinality(B) = Cardinality(W) => B = W)
      BY <3>1, FS_Subset
    <3>3. W # B => Cardinality(B) < Cardinality(W)
      BY <3>1, <3>2
    <3> QED BY <3>3 DEF W
  <2> HIDE DEF Part, N
  <2> QED BY <2>1, <2>2, <2>3, <2>5, <2>6, <2>7
<1>9. bad = {}
  <2> SUFFICES ASSUME bad # {} PROVE FALSE
    OBVIOUS
  <2>1. PICK k \in bad : \A j \in bad : k <= j
    <3>1. bad \in SUBSET Nat
      <4> HIDE DEF Fine, top
      <4> QED BY <1>1
    <3> HIDE DEF bad
    <3> QED BY <3>1, Least
  <2>2. k \in 0 .. top /\ ~Fine(k)
    BY <2>1
  <2> HIDE DEF below, Wider, top, N
  <2>3. CASE k = 0
    <3>1. Part({n})
      BY DEF N
    <3>2. Cardinality({n}) = 1
      BY FS_Singleton
    <3> HIDE DEF Part
    <3>3. Part(below[0]) /\ Cardinality(below[0]) >= 0 + 1
      BY <1>7, <3>1, <3>2
    <3> QED BY <2>2, <2>3, <3>3
  <2>4. CASE k # 0
    <3>1. k - 1 \in 0 .. top /\ k - 1 \notin bad /\ k \in 1 .. top
      BY <1>1, <2>1, <2>2, <2>4
    <3>2. Fine(k - 1) /\ below[k] = Wider(below[k - 1])
      BY <1>7, <3>1
    <3>3. Fine(k)
      <4> HIDE DEF Part
      <4> DEFINE A == below[k - 1]
      <4>1. /\ Part(A) /\ below[k] = Wider(A)
            /\ WithBelow(N, parent, A) \/ Cardinality(A) >= (k - 1) + 1
        BY <3>2
      <4> HIDE DEF A
      <4>2. /\ Part(Wider(A)) /\ Cardinality(A) \in Nat
            /\ WithBelow(N, parent, A) => Wider(A) = A
            /\ ~WithBelow(N, parent, A) =>
                 Cardinality(Wider(A)) \in Nat /\ Cardinality(A) < Cardinality(Wider(A))
        BY <1>8, <4>1
      <4>3. CASE WithBelow(N, parent, A)
        BY <4>1, <4>2, <4>3
      <4>4. CASE ~WithBelow(N, parent, A)
        <5>1. Cardinality(Wider(A)) >= k + 1
          BY <3>1, <4>1, <4>2, <4>4
        <5> QED BY <4>1, <4>2, <5>1
      <4> QED BY <4>3, <4>4
    <3> QED BY <2>2, <3>3
  <2> QED BY <2>3, <2>4
<1>10. Fine(top)
  <2> HIDE DEF top, Fine
  <2>1. top \in 0 .. top /\ top \notin bad
    <3> HIDE DEF bad
    <3> QED BY <1>1, <1>9
  <2> QED BY <2>1
<1> DEFINE B == below[top]
<1> HIDE DEF below
<1>11. Part(B) /\ IsFiniteSet(B) /\ Cardinality(B) \in Nat
  <2> HIDE DEF Part
  <2> QED BY <1>8, <1>10
<1>12. Cardinality(B) <= Cardinality(N)
  <2>1. B \subseteq N
    BY <1>11
  <2> HIDE DEF N, B
  <2> QED BY <1>1, <2>1, FS_Subset
<1>13. WithBelow(N, parent, B)
  <2> HIDE DEF N, top
  <2> QED BY <1>1, <1>2, <1>10, <1>11, <1>12
<1>14. B = D \cup {n}
  BY <1>3, <1>11
<1>15. D \subseteq N \ {n} /\ \A m \in D : parent[m] \in D \cup {n}
  <2>1. D \subseteq N \ {n}
    BY <1>3
  <2>2. \A m \in D : m \in B /\ m # n
    BY <1>14, <2>1
  <2> HIDE DEF D, N
  <2> QED BY <1>11, <1>14, <2>1, <2>2
<1>16. WithBelow(N, parent, D \cup {n})
  <2> HIDE DEF D, N, B, parent
  <2> QED BY <1>13, <1>14
<1> HIDE DEF D, N
<1> QED BY <1>15, <1>16 DEF D, N

-----------------------------------------------------------------------------
(* The children of a document.                                              *)

\* The documents below another, in the order they are written in.
LEMMA ChildrenList ==
  ASSUME NEW rows \in Seq(GoodRows), NEW n
  PROVE  Lists(Children(Plan(rows), n), {m \in Nodes(rows) : Plan(rows).parent[m] = n})
<1>1. Plan(rows).rows = rows
  BY DEF Plan
<1> DEFINE parent == Plan(rows).parent
<1>2. Lists(Siblings(rows, parent, n), Under(rows, parent, n))
  BY SiblingsType
<1> HIDE DEF parent
<1>3. Under(rows, parent, n) = {m \in Nodes(rows) : parent[m] = n}
  BY DEF Under
<1>4. Children(Plan(rows), n) = Siblings(rows, parent, n)
  BY <1>1 DEF Children, parent
<1> QED BY <1>2, <1>3, <1>4 DEF parent

\* What is below a document, one after the other.
LEMMA BelowList ==
  ASSUME NEW rows \in Seq(GoodRows), NEW n
  PROVE  Lists(SetToSeq(Descendants(Plan(rows), n)), Descendants(Plan(rows), n))
<1>1. Plan(rows).rows = rows
  BY DEF Plan
<1>2. Descendants(Plan(rows), n) \subseteq Nodes(rows)
  BY <1>1, Zenon DEF Descendants
<1> DEFINE D == Descendants(Plan(rows), n)
           N == Nodes(rows)
<1>3. N \subseteq Nat /\ IsFiniteSet(N) /\ D \subseteq N
  BY <1>2, NodesType
<1> HIDE DEF D, N
<1>4. D \in SUBSET Nat /\ IsFiniteSet(D)
  BY <1>3, FS_Subset
<1>5. Lists(SetToSeq(D), D)
  BY <1>4, AsList
<1> QED BY <1>5 DEF D

-----------------------------------------------------------------------------
(* A forest that is worked off: the nodes still open, and those of them that*)
(* wait.  A node is open with everything below it, and what is open toDo   *)
(* or is below something that does.                                         *)
Forest(N, parent, open, toDo) ==
  /\ toDo \subseteq open /\ open \subseteq N
  /\ \A n \in N : parent[n] \in open => n \in open \ toDo
  /\ \A n \in open : n \in toDo \/ parent[n] \in open

\* A node is taken, and its children wait.
LEMMA TakesOne ==
  ASSUME NEW N, NEW parent, NEW open, NEW toDo, Forest(N, parent, open, toDo), NEW n \in toDo
  PROVE  LET kids == {m \in N : parent[m] = n}
         IN  /\ Forest(N, parent, open \ {n}, (toDo \ {n}) \cup kids)
             /\ kids \cap toDo = {} /\ n \in open
BY DEF Forest

\* What is below a node, and nothing else.
AllUnder(N, parent, n, D) ==
  /\ D \subseteq N \ {n} /\ WithBelow(N, parent, D \cup {n})
  /\ \A m \in D : parent[m] \in D \cup {n}

\* A node is taken with everything below it.
LEMMA TakesAll ==
  ASSUME NEW N, NEW parent, NEW open, NEW toDo, Forest(N, parent, open, toDo), NEW n \in toDo,
         Grounded(N, parent), NEW D, AllUnder(N, parent, n, D)
  PROVE  /\ Forest(N, parent, open \ (D \cup {n}), toDo \ {n})
         /\ D \subseteq open \ toDo /\ n \in open
<1>0. /\ D \subseteq N \ {n} /\ WithBelow(N, parent, D \cup {n})
      /\ \A m \in D : parent[m] \in D \cup {n}
  BY DEF AllUnder
<1>1. n \in open /\ open \subseteq N /\ toDo \subseteq open
  BY DEF Forest
<1>2. D \subseteq open
  <2> DEFINE T == D \ open
  <2> SUFFICES ASSUME T # {} PROVE FALSE
    OBVIOUS
  <2>1. T \in SUBSET N
    BY <1>0, <1>1
  <2>2. PICK m \in T : parent[m] \notin T
    <3> HIDE DEF T
    <3> QED BY <2>1 DEF Grounded
  <2>3. parent[m] \in open /\ m \in N
    BY <1>0, <1>1, <2>2
  <2> QED BY <2>2, <2>3 DEF Forest
<1>3. D \cap toDo = {}
  BY <1>0, <1>1, <1>2 DEF Forest
<1> QED BY <1>0, <1>1, <1>2, <1>3 DEF Forest, WithBelow

\* When nothing toDo, nothing is open.
LEMMA NothingOpen ==
  ASSUME NEW N, NEW parent, NEW open, Forest(N, parent, open, {}), Grounded(N, parent)
  PROVE  open = {}
BY DEF Forest, Grounded

\* At first everything is open, and the documents without a parent wait.
LEMMA AllOpen ==
  ASSUME NEW N, NEW parent \in [N -> N \cup {NoId}], NoId \notin N
  PROVE  Forest(N, parent, N, {n \in N : parent[n] = NoId})
BY DEF Forest

-----------------------------------------------------------------------------
(* The stack, and what toDo in it.                                         *)
WaitingIn(s) == UNION {{s[f].pending[i] : i \in 1 .. Len(s[f].pending)} : f \in 1 .. Len(s)}
Once(s) ==
  \A f, g \in 1 .. Len(s) : \A i \in 1 .. Len(s[f].pending), j \in 1 .. Len(s[g].pending) :
    s[f].pending[i] = s[g].pending[j] => f = g /\ i = j

\* Two stacks that differ in what toDo at the top.
Retopped(s, r, more) ==
  /\ s \in Stacks /\ r \in Stacks /\ s # <<>> /\ Len(r) = Len(s)
  /\ \A f \in 1 .. Len(s) - 1 : r[f] = s[f]
  /\ s[Len(s)].pending # <<>> /\ more \in Seq(Nat)
  /\ r[Len(s)].pending = Tail(s[Len(s)].pending) \o more

\* The first of the top is taken off, and others put at the end.
LEMMA TopTaken ==
  ASSUME NEW s, NEW r, NEW more, Retopped(s, r, more),
         NEW C, Lists(more, C), Once(s), C \cap WaitingIn(s) = {}
  PROVE  LET head == Head(s[Len(s)].pending)
         IN  Once(r) /\ WaitingIn(r) = (WaitingIn(s) \ {head}) \cup C /\ head \in WaitingIn(s)
<1> DEFINE top == Len(s)
           p == s[top].pending
           size == Len(p)
           q == r[top].pending
           head == p[1]
<1>1. /\ top \in Nat /\ top >= 1 /\ Len(r) = top
      /\ \A f \in 1 .. top - 1 : r[f] = s[f]
      /\ p \in Seq(Nat) /\ p # <<>> /\ more \in Seq(Nat) /\ q = Tail(p) \o more
      /\ \A f \in 1 .. top : s[f].pending \in Seq(Nat) /\ Len(s[f].pending) \in Nat
  <2>1. s \in Seq(Frames) /\ s # <<>> /\ Len(s) \in Nat /\ Len(s) >= 1
    BY DEF Retopped, Stacks
  <2>2. \A f \in 1 .. Len(s) : s[f] \in Frames
    BY <2>1, ElementOfSeq
  <2>3. \A f \in 1 .. Len(s) : s[f].pending \in Seq(Nat)
    BY <2>2 DEF Frames
  <2> QED BY <2>1, <2>3 DEF Retopped
<1> HIDE DEF p, q
<1>2. size \in Nat /\ size >= 1 /\ Len(more) \in Nat /\ head = Head(p)
  BY <1>1
<1>3. /\ Len(q) = size - 1 + Len(more) /\ Len(q) \in Nat
      /\ \A i \in 1 .. size - 1 : q[i] = p[i + 1]
      /\ \A i \in 1 .. Len(more) : q[size - 1 + i] = more[i]
  <2>1. /\ Tail(p) \in Seq(Nat) /\ Len(Tail(p)) = size - 1
        /\ \A i \in 1 .. size - 1 : Tail(p)[i] = p[i + 1]
    BY <1>1, <1>2
  <2> DEFINE t == Tail(p)
  <2> HIDE DEF t
  <2>2. /\ Len(t \o more) = Len(t) + Len(more)
        /\ \A i \in 1 .. Len(t) : (t \o more)[i] = t[i]
        /\ \A i \in 1 .. Len(more) : (t \o more)[Len(t) + i] = more[i]
    BY <1>1, <2>1 DEF t
  <2> QED BY <1>1, <1>2, <2>1, <2>2 DEF t
<1>4. \A i \in 1 .. Len(q) : \/ i \in 1 .. size - 1 /\ q[i] = p[i + 1] /\ i + 1 \in 2 .. size
                             \/ \E k \in 1 .. Len(more) : i = size - 1 + k /\ q[i] = more[k]
  <2> TAKE i \in 1 .. Len(q)
  <2>1. CASE i <= size - 1
    BY <1>2, <1>3, <2>1
  <2>2. CASE i > size - 1
    <3>1. i - (size - 1) \in 1 .. Len(more) /\ i = size - 1 + (i - (size - 1))
      BY <1>2, <1>3, <2>2
    <3> QED BY <1>3, <3>1
  <2> QED BY <1>2, <1>3, <2>1, <2>2
<1>5. /\ \A k \in 1 .. Len(more) : more[k] \in C
      /\ \A n \in C : \E k \in 1 .. Len(more) : more[k] = n
      /\ \A j, k \in 1 .. Len(more) : more[j] = more[k] => j = k
  BY ElementOfSeq DEF Lists
<1> DEFINE At_(f) == s[f].pending
<1>6. /\ \A f \in 1 .. top : \A i \in 1 .. Len(At_(f)) : At_(f)[i] \in WaitingIn(s)
      /\ \A n \in WaitingIn(s) : \E f \in 1 .. top : \E i \in 1 .. Len(At_(f)) : At_(f)[i] = n
  BY DEF WaitingIn
<1>7. top \in 1 .. top /\ At_(top) = p /\ 1 \in 1 .. Len(At_(top)) /\ head \in WaitingIn(s)
  BY <1>1, <1>2, <1>6 DEF p
<1>8. \A f \in 1 .. top : f = top \/ (f \in 1 .. top - 1 /\ r[f].pending = At_(f))
  BY <1>1
<1>9. WaitingIn(r) = (WaitingIn(s) \ {head}) \cup C
  <2>1. ASSUME NEW f \in 1 .. top, NEW i \in 1 .. Len(r[f].pending)
        PROVE  r[f].pending[i] \in (WaitingIn(s) \ {head}) \cup C
    <3>1. CASE f \in 1 .. top - 1 /\ r[f].pending = At_(f)
      <4>1. At_(f)[i] # head
        BY <1>1, <1>2, <1>7, <3>1 DEF Once, p
      <4> QED BY <1>6, <3>1, <4>1
    <3>2. CASE f = top
      <4>1. q[i] \in (WaitingIn(s) \ {head}) \cup C
        <5>1. i \in 1 .. Len(q)
          BY <3>2 DEF q
        <5>2. CASE i \in 1 .. size - 1 /\ q[i] = p[i + 1] /\ i + 1 \in 2 .. size
          <6>1. p[i + 1] \in WaitingIn(s) /\ i + 1 \in 1 .. size /\ i + 1 # 1
            BY <1>2, <1>6, <1>7, <5>2
          <6>2. p[i + 1] # p[1]
            BY <1>2, <1>7, <6>1 DEF Once, p
          <6> QED BY <5>2, <6>1, <6>2
        <5>3. CASE \E k \in 1 .. Len(more) : i = size - 1 + k /\ q[i] = more[k]
          BY <1>5, <5>3
        <5> QED BY <1>4, <5>1, <5>2, <5>3
      <4> QED BY <3>2, <4>1 DEF q
    <3> QED BY <1>8, <3>1, <3>2
  <2>2. ASSUME NEW n \in WaitingIn(s), n # head
        PROVE  \E f \in 1 .. top : \E i \in 1 .. Len(r[f].pending) : r[f].pending[i] = n
    <3>0. PICK f \in 1 .. top : \E i \in 1 .. Len(At_(f)) : At_(f)[i] = n
      BY <1>6
    <3>1. PICK i \in 1 .. Len(At_(f)) : At_(f)[i] = n
      BY <3>0
    <3>2. CASE f \in 1 .. top - 1 /\ r[f].pending = At_(f)
      BY <3>1, <3>2
    <3>3. CASE f = top
      <4>1. i \in 1 .. size /\ p[i] = n /\ i # 1
        BY <2>2, <3>1, <3>3 DEF p
      <4>2. i - 1 \in 1 .. size - 1 /\ i - 1 \in 1 .. Len(q) /\ q[i - 1] = n
        BY <1>2, <1>3, <4>1
      <4> QED BY <1>7, <4>2 DEF q
    <3> QED BY <1>8, <3>2, <3>3
  <2>3. ASSUME NEW n \in C
        PROVE  \E f \in 1 .. top : \E i \in 1 .. Len(r[f].pending) : r[f].pending[i] = n
    <3>1. PICK k \in 1 .. Len(more) : more[k] = n
      BY <1>5
    <3>2. size - 1 + k \in 1 .. Len(q) /\ q[size - 1 + k] = n
      BY <1>2, <1>3, <3>1
    <3> QED BY <1>7, <3>2 DEF q
  <2> DEFINE R(f) == {r[f].pending[i] : i \in 1 .. Len(r[f].pending)}
  <2>4. WaitingIn(r) = UNION {R(f) : f \in 1 .. top}
    BY <1>1 DEF WaitingIn
  <2>5. WaitingIn(r) \subseteq (WaitingIn(s) \ {head}) \cup C
    BY <2>1, <2>4
  <2>6. (WaitingIn(s) \ {head}) \cup C \subseteq WaitingIn(r)
    BY <2>2, <2>3, <2>4
  <2> QED BY <2>5, <2>6
<1>10. Once(r)
  <2> DEFINE From(f, i) ==
               \/ \E k \in 1 .. Len(At_(f)) : /\ r[f].pending[i] = At_(f)[k]
                                              /\ k = IF f = top THEN i + 1 ELSE i
               \/ f = top /\ \E k \in 1 .. Len(more) : r[f].pending[i] = more[k] /\ i = size - 1 + k
  <2>1. ASSUME NEW f \in 1 .. top, NEW i \in 1 .. Len(r[f].pending) PROVE From(f, i)
    <3>1. CASE f = top
      <4>1. i \in 1 .. Len(q) /\ q = r[f].pending /\ At_(f) = p
        BY <3>1 DEF q, p
      <4>2. CASE i \in 1 .. size - 1 /\ q[i] = p[i + 1] /\ i + 1 \in 2 .. size
        <5>1. i + 1 \in 1 .. Len(At_(f))
          BY <1>2, <4>1, <4>2
        <5> QED BY <3>1, <4>1, <4>2, <5>1
      <4>3. CASE \E k \in 1 .. Len(more) : i = size - 1 + k /\ q[i] = more[k]
        BY <3>1, <4>1, <4>3
      <4> QED BY <1>4, <4>1, <4>2, <4>3
    <3>2. CASE f # top
      BY <1>8, <3>2
    <3> QED BY <3>1, <3>2
  <2> SUFFICES ASSUME NEW f \in 1 .. top, NEW g \in 1 .. top,
                      NEW i \in 1 .. Len(r[f].pending), NEW j \in 1 .. Len(r[g].pending),
                      r[f].pending[i] = r[g].pending[j]
               PROVE  f = g /\ i = j
    BY <1>1 DEF Once
  <2>0. i \in Int /\ j \in Int
    OBVIOUS
  <2>2. CASE /\ \E k \in 1 .. Len(At_(f)) : /\ r[f].pending[i] = At_(f)[k]
                                            /\ k = IF f = top THEN i + 1 ELSE i
             /\ \E k \in 1 .. Len(At_(g)) : /\ r[g].pending[j] = At_(g)[k]
                                            /\ k = IF g = top THEN j + 1 ELSE j
    <3>1. PICK k \in 1 .. Len(At_(f)) : /\ r[f].pending[i] = At_(f)[k]
                                        /\ k = IF f = top THEN i + 1 ELSE i
      BY <2>2
    <3>2. PICK l \in 1 .. Len(At_(g)) : /\ r[g].pending[j] = At_(g)[l]
                                        /\ l = IF g = top THEN j + 1 ELSE j
      BY <2>2
    <3>3. s[f].pending[k] = s[g].pending[l]
      BY <3>1, <3>2
    <3>4. f \in 1 .. Len(s) /\ g \in 1 .. Len(s) /\ k \in 1 .. Len(s[f].pending) /\ l \in 1 .. Len(s[g].pending)
      BY <3>1, <3>2
    <3> HIDE DEF top, At_
    <3>5. f = g /\ k = l
      BY <3>3, <3>4 DEF Once
    <3> QED BY <2>0, <3>1, <3>2, <3>5
  <2>3. CASE /\ f = top /\ \E k \in 1 .. Len(more) : r[f].pending[i] = more[k] /\ i = size - 1 + k
             /\ g = top /\ \E k \in 1 .. Len(more) : r[g].pending[j] = more[k] /\ j = size - 1 + k
    BY <1>5, <2>3
  <2>4. ASSUME NEW h \in 1 .. top, NEW k \in 1 .. Len(At_(h)), NEW l \in 1 .. Len(more)
        PROVE  At_(h)[k] # more[l]
    BY <1>5, <1>6
  <2>5. From(f, i) /\ From(g, j)
    BY <2>1
  <2> HIDE DEF At_
  <2> QED BY <2>2, <2>3, <2>4, <2>5
<1> HIDE DEF size
<1> QED BY <1>2, <1>7, <1>9, <1>10 DEF p

\* A stack with one more level on it.
Pushed(s, r, more) ==
  /\ s \in Stacks /\ r \in Stacks /\ Len(r) = Len(s) + 1
  /\ \A f \in 1 .. Len(s) : r[f] = s[f]
  /\ r[Len(r)].pending = more /\ more \in Seq(Nat)

(* What waits on one level more, or less.                                   *)
LEMMA OneLevel ==
  ASSUME NEW s, NEW r, NEW more, Pushed(s, r, more), NEW C, Lists(more, C), C \cap WaitingIn(s) = {}
  PROVE  WaitingIn(r) = WaitingIn(s) \cup C /\ (Once(s) <=> Once(r))
<1> DEFINE top == Len(r)
           At_(f) == r[f].pending
<1>1. /\ Len(s) \in Nat /\ top = Len(s) + 1 /\ top \in Nat /\ top \in 1 .. top
      /\ \A f \in 1 .. top : f = top \/ f \in 1 .. Len(s)
      /\ \A f \in 1 .. Len(s) : f \in 1 .. top /\ f # top
      /\ \A f \in 1 .. Len(s) : At_(f) = s[f].pending
      /\ At_(top) = more
  <2>1. s \in Seq(Frames)
    BY DEF Pushed, Stacks
  <2>2. Len(s) \in Nat
    BY <2>1
  <2> QED BY <2>2 DEF Pushed
<1>2. /\ \A k \in 1 .. Len(more) : more[k] \in C
      /\ \A n \in C : \E k \in 1 .. Len(more) : more[k] = n
      /\ \A j, k \in 1 .. Len(more) : more[j] = more[k] => j = k
  BY ElementOfSeq DEF Lists
<1> DEFINE In(f) == {At_(f)[i] : i \in 1 .. Len(At_(f))}
<1>3. WaitingIn(r) = UNION {In(f) : f \in 1 .. top}
  BY DEF WaitingIn
<1>4. WaitingIn(s) = UNION {In(f) : f \in 1 .. Len(s)}
  <2>1. \A f \in 1 .. Len(s) : In(f) = {s[f].pending[i] : i \in 1 .. Len(s[f].pending)}
    BY <1>1
  <2> HIDE DEF In
  <2> QED BY <2>1 DEF WaitingIn
<1>5. In(top) = C
  <2>1. In(top) = {more[i] : i \in 1 .. Len(more)}
    BY <1>1
  <2> HIDE DEF In
  <2> QED BY <1>2, <2>1
<1>6. WaitingIn(r) = WaitingIn(s) \cup C
  <2> HIDE DEF In, top
  <2>1. WaitingIn(r) \subseteq WaitingIn(s) \cup C
    BY <1>1, <1>3, <1>4, <1>5
  <2>2. WaitingIn(s) \subseteq WaitingIn(r)
    BY <1>1, <1>3, <1>4
  <2>3. C \subseteq WaitingIn(r)
    BY <1>1, <1>3, <1>5
  <2> QED BY <2>1, <2>2, <2>3
<1>7. ASSUME Once(r) PROVE Once(s)
  <2> SUFFICES ASSUME NEW f \in 1 .. Len(s), NEW g \in 1 .. Len(s),
                      NEW i \in 1 .. Len(s[f].pending), NEW j \in 1 .. Len(s[g].pending),
                      s[f].pending[i] = s[g].pending[j]
               PROVE  f = g /\ i = j
    BY DEF Once
  <2>1. f \in 1 .. Len(r) /\ g \in 1 .. Len(r) /\ r[f].pending = s[f].pending /\ r[g].pending = s[g].pending
    BY <1>1
  <2> QED BY <1>7, <2>1 DEF Once
<1>8. ASSUME Once(s) PROVE Once(r)
  <2> SUFFICES ASSUME NEW f \in 1 .. top, NEW g \in 1 .. top,
                      NEW i \in 1 .. Len(At_(f)), NEW j \in 1 .. Len(At_(g)), At_(f)[i] = At_(g)[j]
               PROVE  f = g /\ i = j
    BY DEF Once
  <2>1. ASSUME NEW h \in 1 .. Len(s), NEW k \in 1 .. Len(At_(h)) PROVE At_(h)[k] \in WaitingIn(s)
    <3>1. At_(h)[k] \in In(h)
      OBVIOUS
    <3> HIDE DEF In
    <3> QED BY <1>4, <3>1
  <2>2. \A k \in 1 .. Len(At_(top)) : At_(top)[k] \in C
    BY <1>1, <1>2
  <2> HIDE DEF top, At_
  <2>3. CASE f = top /\ g = top
    BY <1>1, <1>2, <2>3
  <2>4. CASE f = top /\ g # top
    BY <1>1, <2>1, <2>2, <2>4
  <2>5. CASE f # top /\ g = top
    BY <1>1, <2>1, <2>2, <2>5
  <2>6. CASE f # top /\ g # top
    <3>1. f \in 1 .. Len(s) /\ g \in 1 .. Len(s)
      BY <1>1, <2>6
    <3>2. At_(f) = s[f].pending /\ At_(g) = s[g].pending
      BY <1>1, <3>1
    <3> QED BY <1>8, <3>1, <3>2 DEF Once
  <2> QED BY <2>3, <2>4, <2>5, <2>6
<1> QED BY <1>6, <1>7, <1>8

-----------------------------------------------------------------------------
(* The reports.                                                             *)

\* A report: first the rows without an id, then every document of a set once.
ReportOf(s, size, S) ==
  /\ s \in Seq(Nat) /\ size \in Nat /\ size <= Len(s)
  /\ \A i \in 1 .. Len(s) : (i <= size <=> s[i] = NoId) /\ (i > size => s[i] \in S)
  /\ \A n \in S : n # NoId /\ \E i \in 1 .. Len(s) : s[i] = n
  /\ \A i, j \in 1 .. Len(s) : i > size /\ s[i] = s[j] => i = j


(* More documents are reported.                                             *)
LEMMA ReportsMore ==
  ASSUME NEW s, NEW size, NEW S, ReportOf(s, size, S),
         NEW more \in Seq(Nat), NEW D, Lists(more, D), NoId \notin D, D \cap S = {}
  PROVE  ReportOf(s \o more, size, S \cup D)
<1> DEFINE r == s \o more
<1>1. s \in Seq(Nat) /\ size \in Nat /\ size <= Len(s) /\ Len(s) \in Nat /\ Len(more) \in Nat
  BY DEF ReportOf
<1>2. /\ r \in Seq(Nat) /\ Len(r) = Len(s) + Len(more)
      /\ \A i \in 1 .. Len(s) : r[i] = s[i]
      /\ \A i \in 1 .. Len(more) : r[Len(s) + i] = more[i]
  BY <1>1
<1> HIDE DEF r
<1>3. /\ \A k \in 1 .. Len(more) : more[k] \in D
      /\ \A n \in D : \E k \in 1 .. Len(more) : more[k] = n
      /\ \A j, k \in 1 .. Len(more) : more[j] = more[k] => j = k
  BY ElementOfSeq DEF Lists
<1>4. ASSUME NEW i \in 1 .. Len(r)
      PROVE  \/ i \in 1 .. Len(s) /\ r[i] = s[i]
             \/ i > Len(s) /\ i - Len(s) \in 1 .. Len(more) /\ r[i] = more[i - Len(s)]
  <2>1. CASE i <= Len(s)
    BY <1>1, <1>2, <2>1
  <2>2. CASE i > Len(s)
    <3>1. i - Len(s) \in 1 .. Len(more) /\ Len(s) + (i - Len(s)) = i
      BY <1>1, <1>2, <2>2
    <3> QED BY <1>2, <2>2, <3>1
  <2> QED BY <1>1, <2>1, <2>2
<1>5. ASSUME NEW i \in 1 .. Len(r)
      PROVE  (i <= size <=> r[i] = NoId) /\ (i > size => r[i] \in S \cup D)
  <2>1. CASE i \in 1 .. Len(s) /\ r[i] = s[i]
    BY <2>1 DEF ReportOf
  <2>2. CASE i > Len(s) /\ i - Len(s) \in 1 .. Len(more) /\ r[i] = more[i - Len(s)]
    BY <1>1, <1>3, <2>2
  <2> QED BY <1>4, <2>1, <2>2
<1>6. ASSUME NEW n \in S \cup D PROVE n # NoId /\ \E i \in 1 .. Len(r) : r[i] = n
  <2>1. CASE n \in S
    <3>1. PICK i \in 1 .. Len(s) : s[i] = n
      BY <2>1 DEF ReportOf
    <3>2. i \in 1 .. Len(r) /\ n # NoId
      BY <1>1, <1>2, <2>1 DEF ReportOf
    <3> QED BY <1>2, <3>1, <3>2
  <2>2. CASE n \in D
    <3>1. PICK i \in 1 .. Len(more) : more[i] = n
      BY <1>3, <2>2
    <3>2. Len(s) + i \in 1 .. Len(r) /\ r[Len(s) + i] = n
      BY <1>1, <1>2, <3>1
    <3> QED BY <2>2, <3>2
  <2> QED BY <2>1, <2>2
<1>7. ASSUME NEW i \in 1 .. Len(r), NEW j \in 1 .. Len(r), i > size, r[i] = r[j] PROVE i = j
  <2>1. CASE i \in 1 .. Len(s) /\ j \in 1 .. Len(s)
    BY <1>2, <1>7, <2>1 DEF ReportOf
  <2>2. CASE i > Len(s) /\ j > Len(s)
    <3>0. i \notin 1 .. Len(s) /\ j \notin 1 .. Len(s)
      BY <1>1, <2>2
    <3>1. /\ i - Len(s) \in 1 .. Len(more) /\ j - Len(s) \in 1 .. Len(more)
          /\ r[i] = more[i - Len(s)] /\ r[j] = more[j - Len(s)]
      BY <1>4, <3>0
    <3>2. i - Len(s) = j - Len(s)
      BY <1>3, <1>7, <3>1
    <3> QED BY <1>1, <3>2
  <2>3. CASE i \in 1 .. Len(s) /\ j > Len(s)
    <3>1. r[j] \in D /\ r[i] \in S
      <4>3. j \notin 1 .. Len(s)
        BY <1>1, <2>3
      <4>1. r[j] \in D
        BY <1>3, <1>4, <4>3
      <4>2. r[i] \in S
        BY <1>2, <1>7, <2>3 DEF ReportOf
      <4> QED BY <4>1, <4>2
    <3> QED BY <1>7, <3>1
  <2>4. CASE i > Len(s) /\ j \in 1 .. Len(s)
    <3>1. r[i] \in D /\ r[j] \in S \cup {NoId}
      <4>1. j > size => r[j] \in S
        BY <1>2, <2>4 DEF ReportOf
      <4>2. j <= size => r[j] = NoId
        BY <1>2, <2>4 DEF ReportOf
      <4>3. r[i] \in D
        BY <1>1, <1>3, <1>4, <2>4
      <4> QED BY <1>1, <4>1, <4>2, <4>3
    <3> QED BY <1>7, <3>1
  <2> QED BY <1>4, <2>1, <2>2, <2>3, <2>4
<1> QED BY <1>1, <1>2, <1>5, <1>6, <1>7 DEF ReportOf, r

(* Two reports in which no document is twice, one after the other.          *)
LEMMA ReportsOnce ==
  ASSUME NEW s, NEW r, NEW size, NEW S, NEW R, ReportOf(s, 0, S), ReportOf(r, size, R), S \cap R = {}
  PROVE  /\ \A d \in S \cup R : TimesReported(s \o r, d) = 1
         /\ TimesReported(r, NoId) = size
<1> DEFINE t == s \o r
<1>1. /\ s \in Seq(Nat) /\ r \in Seq(Nat) /\ Len(s) \in Nat /\ Len(r) \in Nat
      /\ size \in Nat /\ size <= Len(r)
  BY DEF ReportOf
<1>2. /\ Len(t) = Len(s) + Len(r)
      /\ \A i \in 1 .. Len(s) : t[i] = s[i]
      /\ \A i \in 1 .. Len(r) : t[Len(s) + i] = r[i]
  BY <1>1
<1> HIDE DEF t
<1>3. ASSUME NEW i \in 1 .. Len(t)
      PROVE  \/ i \in 1 .. Len(s) /\ t[i] = s[i]
             \/ i > Len(s) /\ i - Len(s) \in 1 .. Len(r) /\ t[i] = r[i - Len(s)]
  <2>1. CASE i <= Len(s)
    BY <1>1, <1>2, <2>1
  <2>2. CASE i > Len(s)
    <3>1. i - Len(s) \in 1 .. Len(r) /\ Len(s) + (i - Len(s)) = i
      BY <1>1, <1>2, <2>2
    <3> QED BY <1>2, <2>2, <3>1
  <2> QED BY <1>1, <2>1, <2>2
<1>4. ASSUME NEW i \in 1 .. Len(s) PROVE s[i] \in S /\ s[i] # NoId
  BY DEF ReportOf
<1>5. ASSUME NEW i \in 1 .. Len(r)
      PROVE  r[i] = NoId \/ (r[i] \in R /\ i > size)
  BY <1>1 DEF ReportOf
<1>6. ASSUME NEW d \in S \cup R PROVE TimesReported(t, d) = 1
  <2> DEFINE where == {i \in 1 .. Len(t) : t[i] = d}
  <2>1. d # NoId /\ \E i \in 1 .. Len(t) : t[i] = d
    <3>1. CASE d \in S
      <4>1. PICK i \in 1 .. Len(s) : s[i] = d
        BY <3>1 DEF ReportOf
      <4>2. i \in 1 .. Len(t) /\ t[i] = d
        BY <1>1, <1>2, <4>1
      <4> QED BY <3>1, <4>2 DEF ReportOf
    <3>2. CASE d \in R
      <4>1. PICK i \in 1 .. Len(r) : r[i] = d
        BY <3>2 DEF ReportOf
      <4>2. Len(s) + i \in 1 .. Len(t) /\ t[Len(s) + i] = d
        BY <1>1, <1>2, <4>1
      <4> QED BY <3>2, <4>2 DEF ReportOf
    <3> QED BY <3>1, <3>2
  <2>2. ASSUME NEW i \in 1 .. Len(t), NEW j \in 1 .. Len(t), t[i] = d, t[j] = d PROVE i = j
    <3>1. CASE i \in 1 .. Len(s) /\ j \in 1 .. Len(s)
      <4>1. i > 0 /\ s[i] = s[j]
        BY <1>2, <2>2, <3>1
      <4> QED BY <3>1, <4>1 DEF ReportOf
    <3>2. CASE i > Len(s) /\ j > Len(s)
      <4>1. /\ i - Len(s) \in 1 .. Len(r) /\ j - Len(s) \in 1 .. Len(r)
            /\ r[i - Len(s)] = d /\ r[j - Len(s)] = d
        BY <1>1, <1>3, <2>2, <3>2
      <4>2. i - Len(s) > size
        BY <1>5, <2>1, <4>1
      <4>3. i - Len(s) = j - Len(s)
        BY <4>1, <4>2 DEF ReportOf
      <4> QED BY <1>1, <4>3
    <3>3. ASSUME NEW k \in 1 .. Len(t), NEW l \in 1 .. Len(t), k \in 1 .. Len(s), l > Len(s),
                 t[k] = d, t[l] = d
          PROVE  FALSE
      <4>1. d \in S
        BY <1>2, <1>4, <3>3
      <4>4. l \notin 1 .. Len(s)
        BY <1>1, <3>3
      <4>2. l - Len(s) \in 1 .. Len(r) /\ r[l - Len(s)] = d
        BY <1>3, <3>3, <4>4
      <4>3. d \in R
        BY <1>5, <2>1, <4>2
      <4> QED BY <4>1, <4>3
    <3> QED BY <1>3, <2>2, <3>1, <3>2, <3>3
  <2>3. PICK i \in 1 .. Len(t) : where = {i}
    BY <2>1, <2>2
  <2> HIDE DEF where
  <2>4. Cardinality(where) = 1
    BY <2>3, FS_Singleton
  <2> QED BY <2>4 DEF TimesReported, where
<1>7. TimesReported(r, NoId) = size
  <2> DEFINE where == {i \in 1 .. Len(r) : r[i] = NoId}
  <2>1. where = 1 .. size
    BY <1>1 DEF ReportOf
  <2>2. Cardinality(1 .. size) = size
    <3>1. 1 \in Int /\ size \in Int
      BY <1>1
    <3> QED BY <1>1, <3>1, FS_Interval, SMTT(20)
  <2> HIDE DEF where
  <2>3. Cardinality(where) = size
    BY <2>1, <2>2
  <2> QED BY <2>3 DEF TimesReported, where
<1> QED BY <1>6, <1>7 DEF t

-----------------------------------------------------------------------------
(* The invariant.                                                           *)

\* The document in hand.
Hand == IF stage \in Busy THEN {current.doc} ELSE {}

(* What was written, what failed and what is in hand is one document each;  *)
(* all the others are open, and what is open waits or is below what waits.  *)
Tally(written, lost) ==
  LET N == Nodes(listing)
  IN  /\ ReportOf(Written, 0, written)
      /\ ReportOf(failed, Cardinality(Unusable(listing)), lost)
      /\ written \cap lost = {} /\ Hand \cap (written \cup lost) = {}
      /\ written \cup lost \cup Hand \subseteq N
      /\ Once(stack)
      /\ Forest(N, Plan(listing).parent, N \ (written \cup lost \cup Hand), WaitingIn(stack))

Tallied == stage \in {"walk", "parents", "finish"} \cup Busy \/ Concluded

CountInv ==
  /\ stage \in {"prepare", "list"} => exported = <<>>
  /\ Tallied => \E written, lost \in SUBSET Nodes(listing) : Tally(written, lost)
  /\ Tallied /\ cut = "no" => listing = collection
  /\ verdict = "complete" => failed = <<>> /\ cut # "cap"

\* A sequence over a set is one over every larger set.
LEMMA WiderSeq ==
  ASSUME NEW S, NEW T, S \subseteq T, NEW s \in Seq(S)
  PROVE  s \in Seq(T)
<1>1. Len(s) \in Nat /\ s \in [1 .. Len(s) -> S]
  OBVIOUS
<1>2. s \in [1 .. Len(s) -> T]
  BY <1>1
<1> QED BY <1>1, <1>2

\* The plan of what is listed: a forest, whose documents are numbers.
LEMMA PlanIsForest ==
  ASSUME NEW rows \in Listings
  PROVE  /\ rows \in Seq(GoodRows) /\ IsFiniteSet(Nodes(rows))
         /\ Nodes(rows) \subseteq Nat /\ NoId \notin Nodes(rows)
         /\ Plan(rows).parent \in [Nodes(rows) -> Nodes(rows) \cup {NoId}]
         /\ Grounded(Nodes(rows), Plan(rows).parent)
         /\ Plan(rows).unusable = Unusable(rows)
         /\ Cardinality(Unusable(rows)) \in Nat
<1>1. rows \in Seq(GoodRows)
  BY DEF Listings
<1>2. /\ Plan(rows).parent = BreakCycles(rows, Resolved(rows))
      /\ Plan(rows).unusable = Unusable(rows)
  BY DEF Plan
<1>3. /\ Nodes(rows) \subseteq Nat \ {NoId} /\ IsFiniteSet(Nodes(rows))
      /\ Cardinality(Unusable(rows)) \in Nat
  BY <1>1, NodesType
<1>4. LET q == BreakCycles(rows, Resolved(rows))
      IN  q \in [Nodes(rows) -> Nodes(rows) \cup {NoId}] /\ Grounded(Nodes(rows), q)
  BY <1>1, CyclesBroken
<1> QED BY <1>1, <1>2, <1>3, <1>4

\* The children of a document are listed, and so is what is below it.
LEMMA NodeLists ==
  ASSUME ExportInv, stack # <<>>, Top.pending # <<>>
  PROVE  /\ Node \in Nodes(listing)
         /\ Children(Planned, Node) \in Seq(Nodes(listing)) /\ Children(Planned, Node) \in Seq(Nat)
         /\ Lists(Children(Planned, Node), {m \in Nodes(listing) : Plan(listing).parent[m] = Node})
         /\ SetToSeq(Descendants(Planned, Node)) \in Seq(Nat)
         /\ Lists(SetToSeq(Descendants(Planned, Node)), Descendants(Planned, Node))
<1>1. /\ Node \in Nodes(listing) /\ Children(Planned, Node) \in Seq(Nodes(listing))
      /\ SetToSeq(Descendants(Planned, Node)) \in Seq(Nat)
  BY NodeType
<1>2. listing \in Seq(GoodRows) /\ Nodes(listing) \subseteq Nat
  BY PlanIsForest DEF ExportInv, Typed
<1>3. Children(Planned, Node) \in Seq(Nat)
  BY <1>1, <1>2, WiderSeq
<1>4. Lists(Children(Planned, Node), {m \in Nodes(listing) : Plan(listing).parent[m] = Node})
  BY <1>2, ChildrenList DEF Planned
<1>5. Lists(SetToSeq(Descendants(Planned, Node)), Descendants(Planned, Node))
  BY <1>2, BelowList DEF Planned
<1> QED BY <1>1, <1>3, <1>4, <1>5

\* The document that is taken up waits first at the top.
LEMMA TopAdvanced ==
  ASSUME ExportInv, stack # <<>>, Top.pending # <<>>, NEW more \in Seq(Nodes(listing))
  PROVE  /\ Retopped(stack, WithTop(Advanced(more)), more)
         /\ Head(stack[Len(stack)].pending) = Node
<1>1. /\ Len(stack) \in Nat \ {0} /\ Top = stack[Len(stack)] /\ Top \in Frames
      /\ Top.pending \in Seq(Nodes(listing)) /\ stack \in Stacks
  BY TopType DEF ExportInv, Typed
<1>2. Advanced(more) \in Frames
  BY AdvancedType
<1>3. /\ WithTop(Advanced(more)) \in Stacks /\ Len(WithTop(Advanced(more))) = Len(stack)
      /\ WithTop(Advanced(more))[Len(stack)] = Advanced(more)
      /\ \A i \in 1 .. Len(stack) - 1 : WithTop(Advanced(more))[i] = stack[i]
  BY <1>2, TopReplaced DEF ExportInv
<1>4. Advanced(more).pending = Tail(Top.pending) \o more
  BY <1>1 DEF Advanced, Frames
<1>5. more \in Seq(Nat)
  <2>1. Nodes(listing) \subseteq Nat
    BY PlanIsForest DEF ExportInv, Typed
  <2> QED BY <2>1, WiderSeq
<1>6. Head(stack[Len(stack)].pending) = Node
  BY <1>1 DEF Node
<1> HIDE DEF Advanced
<1> QED BY <1>1, <1>3, <1>4, <1>5, <1>6 DEF Retopped

\* What the listing starts with is nothing reported and everything open.
LEMMA ListCounts ==
  ASSUME ExportInv, List, stage' = "walk", exported = <<>>
  PROVE  Tally({}, {})'
<1>1. Typed'
  BY ListTyped
<1>2. /\ listing' \in Seq(GoodRows) /\ Nodes(listing') \subseteq Nat /\ NoId \notin Nodes(listing')
      /\ Plan(listing').parent \in [Nodes(listing') -> Nodes(listing') \cup {NoId}]
      /\ Plan(listing').unusable = Unusable(listing') /\ Cardinality(Unusable(listing')) \in Nat
  BY <1>1, PlanIsForest DEF Typed
<1> DEFINE N == Nodes(listing')
           parent == Plan(listing').parent
           kids == Children(Plan(listing'), NoId)
           size == Cardinality(Unusable(listing'))
           C == {n \in N : parent[n] = NoId}
<1>3. /\ stack' = <<[dir |-> Root, pending |-> kids, names |-> {}]>>
      /\ failed' = [k \in 1 .. size |-> NoId] /\ exported' = exported
  BY <1>2 DEF List, Refuse
<1>4. Lists(kids, C)
  BY <1>2, ChildrenList
<1>5. kids \in Seq(Nat)
  <2>1. kids \in Seq(C) /\ C \subseteq Nat
    BY <1>2, <1>4 DEF Lists
  <2> HIDE DEF kids, C
  <2> QED BY <2>1, WiderSeq
<1>6. stack' \in Stacks
  BY <1>1 DEF Typed
<1> HIDE DEF kids, C, size
<1>7. WaitingIn(stack') = C /\ Once(stack')
  <2> DEFINE none == <<>>
  <2>1. none \in Stacks /\ Len(none) = 0
    BY NothingYet
  <2>2. Len(stack') = 1 /\ stack'[1].pending = kids
    BY <1>3
  <2>3. WaitingIn(none) = {} /\ Once(none)
    BY <2>1 DEF WaitingIn, Once
  <2>4. Pushed(none, stack', kids)
    BY <1>5, <1>6, <2>1, <2>2 DEF Pushed
  <2> HIDE DEF none
  <2> QED BY <1>4, <2>3, <2>4, OneLevel
<1>8. ReportOf(Written', 0, {})
  <2>1. Written' = <<>>
    BY <1>3 DEF Written
  <2>2. <<>> \in Seq(Nat) /\ Len(<<>>) = 0
    OBVIOUS
  <2> QED BY <2>1, <2>2 DEF ReportOf
<1>9. ReportOf(failed', size, {})
  <2>1. size \in Nat
    BY <1>2 DEF size
  <2>2. [k \in 1 .. size |-> 0] \in Seq(Nat) /\ Len([k \in 1 .. size |-> 0]) = size
    BY <2>1
  <2> QED BY <1>3, <2>1, <2>2 DEF ReportOf, NoId
<1>10. Hand' = {}
  BY DEF Hand, Busy
<1>11. Forest(N, parent, N, C)
  <2> HIDE DEF N, parent
  <2> QED BY <1>2, AllOpen DEF C, N, parent
<1>12. N \ ({} \cup {} \cup Hand') = N
  BY <1>10
<1> QED BY <1>7, <1>8, <1>9, <1>10, <1>11, <1>12 DEF Tally, size

\* A document that is taken up leaves the rest as it was.
LEMMA HereCounts ==
  ASSUME ExportInv, WriteHere, NEW w, NEW l, Tally(w, l)
  PROVE  Tally(w, l)'
<1> DEFINE kids == Children(Planned, Node)
           N == Nodes(listing)
           parent == Plan(listing).parent
           C == {m \in N : parent[m] = Node}
           open == N \ (w \cup l \cup Hand)
<1>1. /\ stack # <<>> /\ Top.pending # <<>> /\ stack' = WithTop(Advanced(kids))
      /\ current'.doc = Node /\ stage = "walk" /\ stage' = "fetch"
      /\ UNCHANGED <<listing, exported, failed>>
  BY DEF WriteHere, inputVars, reportVars
<1>2. Node \in N /\ kids \in Seq(N) /\ Lists(kids, C)
  BY <1>1, NodeLists
<1>3. Retopped(stack, stack', kids) /\ Head(stack[Len(stack)].pending) = Node
  BY <1>1, <1>2, TopAdvanced
<1>4. Hand = {} /\ Hand' = {Node}
  BY <1>1 DEF Hand, Busy
<1>5. /\ Once(stack) /\ Forest(N, parent, open, WaitingIn(stack))
      /\ ReportOf(Written, 0, w) /\ ReportOf(failed, Cardinality(Unusable(listing)), l)
      /\ w \cap l = {} /\ w \cup l \subseteq N
  BY DEF Tally
<1>6. Node \in WaitingIn(stack)
  <2>1. stack[Len(stack)].pending # <<>> /\ stack \in Seq(Frames) /\ stack # <<>>
    BY <1>3 DEF Retopped, Stacks
  <2> DEFINE p == stack[Len(stack)].pending
  <2>2. Len(stack) \in 1 .. Len(stack) /\ p \in Seq(Nat)
    BY <1>1, <2>1, TopType DEF ExportInv, Frames
  <2>3. 1 \in 1 .. Len(p) /\ Head(p) = p[1]
    BY <2>1, <2>2
  <2> QED BY <1>3, <2>2, <2>3 DEF WaitingIn
<1> HIDE DEF kids, N, parent, C, open
<1>7. /\ Forest(N, parent, open \ {Node}, (WaitingIn(stack) \ {Node}) \cup C)
      /\ C \cap WaitingIn(stack) = {} /\ Node \in open
  BY <1>5, <1>6, TakesOne DEF C
<1>8. Once(stack') /\ WaitingIn(stack') = (WaitingIn(stack) \ {Node}) \cup C
  BY <1>2, <1>3, <1>5, <1>7, TopTaken
<1>9. N \ (w \cup l \cup Hand') = open \ {Node}
  BY <1>4 DEF open
<1>10. Hand' \cap (w \cup l) = {} /\ w \cup l \cup Hand' \subseteq N
  BY <1>2, <1>4, <1>5, <1>7 DEF open
<1>11. Written' = Written
  BY <1>1 DEF Written
<1> QED BY <1>1, <1>5, <1>7, <1>8, <1>9, <1>10, <1>11 DEF Tally, N, parent

\* One more in front.
LEMMA OneInFront ==
  ASSUME NEW n \in Nat, NEW s \in Seq(Nat), NEW D, Lists(s, D), n \notin D
  PROVE  <<n>> \o s \in Seq(Nat) /\ Lists(<<n>> \o s, D \cup {n})
<1> DEFINE r == <<n>> \o s
<1>1. /\ s \in Seq(D) /\ Len(s) \in Nat
      /\ \A k \in 1 .. Len(s) : s[k] \in D
      /\ \A m \in D : \E k \in 1 .. Len(s) : s[k] = m
      /\ \A j, k \in 1 .. Len(s) : s[j] = s[k] => j = k
  BY ElementOfSeq DEF Lists
<1>2. /\ r \in Seq(Nat) /\ Len(r) = Len(s) + 1 /\ r[1] = n
      /\ \A k \in 1 .. Len(s) : r[k + 1] = s[k]
  BY <1>1
<1>3. r \in Seq(D \cup {n})
  <2>1. s \in Seq(D \cup {n}) /\ <<n>> \in Seq(D \cup {n})
    BY <1>1, WiderSeq
  <2> QED BY <2>1
<1> HIDE DEF r
<1>4. ASSUME NEW i \in 1 .. Len(r)
      PROVE  i = 1 \/ (i # 1 /\ i - 1 \in 1 .. Len(s) /\ r[i] = s[i - 1])
  <2>1. CASE i # 1
    <3>1. i - 1 \in 1 .. Len(s) /\ (i - 1) + 1 = i
      BY <1>1, <1>2, <2>1
    <3> QED BY <1>2, <2>1, <3>1
  <2> QED BY <2>1
<1>5. ASSUME NEW m \in D \cup {n} PROVE \E i \in 1 .. Len(r) : r[i] = m
  <2>1. CASE m = n
    <3>1. 1 \in 1 .. Len(r)
      BY <1>1, <1>2
    <3> QED BY <1>2, <2>1, <3>1
  <2>2. CASE m \in D
    <3>1. PICK k \in 1 .. Len(s) : s[k] = m
      BY <1>1, <2>2
    <3>2. k + 1 \in 1 .. Len(r)
      BY <1>1, <1>2
    <3>3. r[k + 1] = m
      BY <1>2, <3>1
    <3> QED BY <3>2, <3>3
  <2> QED BY <2>1, <2>2
<1>6. ASSUME NEW i \in 1 .. Len(r), NEW j \in 1 .. Len(r), r[i] = r[j] PROVE i = j
  <2>1. ASSUME NEW k \in 1 .. Len(r), k # 1 PROVE r[k] \in D /\ r[k] # r[1]
    <3>1. k - 1 \in 1 .. Len(s) /\ r[k] = s[k - 1]
      BY <1>4, <2>1
    <3>2. r[k] \in D
      BY <1>1, <3>1
    <3> QED BY <1>2, <3>2
  <2>2. CASE i # 1 /\ j # 1
    <3>1. /\ i - 1 \in 1 .. Len(s) /\ j - 1 \in 1 .. Len(s) /\ s[i - 1] = s[j - 1]
      BY <1>4, <1>6, <2>2
    <3>2. i - 1 = j - 1
      BY <1>1, <3>1
    <3> QED BY <3>2
  <2> QED BY <1>6, <2>1, <2>2
<1> QED BY <1>2, <1>3, <1>5, <1>6 DEF Lists, r

\* The document that is taken up was one that waits.
LEMMA NodeWaits ==
  ASSUME ExportInv, stack # <<>>, Top.pending # <<>>
  PROVE  Node \in WaitingIn(stack)
<1> DEFINE p == stack[Len(stack)].pending
<1>1. /\ Len(stack) \in Nat \ {0} /\ Top = stack[Len(stack)]
      /\ Top.pending \in Seq(Nodes(listing))
  BY TopType DEF ExportInv
<1>2. Len(stack) \in 1 .. Len(stack) /\ 1 \in 1 .. Len(p) /\ Node = p[1]
  BY <1>1 DEF Node
<1> QED BY <1>2 DEF WaitingIn

(* A document whose directory cannot be had is reported with everything     *)
(* below it; of one that has its directory, the children wait.              *)
LEMMA BranchCounts ==
  ASSUME ExportInv, WriteBranch, NEW w, NEW l, Tally(w, l)
  PROVE  \E lost \in SUBSET Nodes(listing) : Tally(w, lost)'
<1> DEFINE kids == Children(Planned, Node)
           N == Nodes(listing)
           parent == Plan(listing).parent
           C == {m \in N : parent[m] = Node}
           open == N \ (w \cup l \cup Hand)
           D == Descendants(Planned, Node)
           below == SetToSeq(D)
           size == Cardinality(Unusable(listing))
           base == WithTop(Advanced(<<>>))
           inside == [dir |-> Inner, pending |-> kids, names |-> {KeyOf(Name)}]
<1>1. /\ stack # <<>> /\ Top.pending # <<>> /\ stage = "walk"
      /\ UNCHANGED <<listing, exported>>
      /\ \/ /\ stack' = Append(base, inside)
            /\ current'.doc = Node /\ stage' = "fetch" /\ failed' = failed
         \/ stack' = base /\ stage' = stage /\ failed' = failed \o (<<Node>> \o below)
  BY DEF WriteBranch, Fail, Inner, inputVars
<1>2. /\ Node \in N /\ kids \in Seq(Nat) /\ Lists(kids, C)
      /\ below \in Seq(Nat) /\ Lists(below, D)
  BY <1>1, NodeLists
<1>3. Retopped(stack, base, <<>>) /\ Head(stack[Len(stack)].pending) = Node
  <2>1. <<>> \in Seq(N)
    OBVIOUS
  <2> QED BY <1>1, <2>1, TopAdvanced
<1>4. Hand = {} /\ Node \in WaitingIn(stack)
  BY <1>1, NodeWaits DEF Hand, Busy
<1>5. /\ Once(stack) /\ Forest(N, parent, open, WaitingIn(stack))
      /\ ReportOf(Written, 0, w) /\ ReportOf(failed, size, l)
      /\ w \cap l = {} /\ w \cup l \subseteq N
  BY DEF Tally
<1>6. /\ N \subseteq Nat /\ NoId \notin N /\ Grounded(N, parent) /\ listing \in Seq(GoodRows)
  BY PlanIsForest DEF ExportInv, Typed
<1>7. Written' = Written
  BY <1>1 DEF Written
<1>8. AllUnder(N, parent, Node, D) /\ D \subseteq N \ {Node}
  BY <1>2, <1>6, AllBelow DEF Planned, AllUnder
<1> HIDE DEF kids, N, parent, C, open, D, below, size, base, inside
<1>9. Once(base) /\ WaitingIn(base) = WaitingIn(stack) \ {Node}
  <2>1. Lists(<<>>, {})
    BY DEF Lists
  <2> QED BY <1>3, <1>5, <2>1, TopTaken
<1>10. CASE /\ stack' = Append(base, inside)
            /\ current'.doc = Node /\ stage' = "fetch" /\ failed' = failed
  <2>1. /\ Forest(N, parent, open \ {Node}, (WaitingIn(stack) \ {Node}) \cup C)
        /\ C \cap WaitingIn(stack) = {} /\ Node \in open
    BY <1>4, <1>5, TakesOne DEF C
  <2>2. Pushed(base, stack', kids)
    <3>1. base \in Stacks /\ base \in Seq(Frames) /\ Len(base) \in Nat
      BY <1>3 DEF Retopped, Stacks
    <3>2. stack' \in Stacks
      BY BranchFacts
    <3>3. /\ Len(Append(base, inside)) = Len(base) + 1
          /\ Append(base, inside)[Len(base) + 1] = inside
          /\ \A j \in 1 .. Len(base) : Append(base, inside)[j] = base[j]
      BY <3>1
    <3>4. inside.pending = kids
      BY DEF inside
    <3> QED BY <1>2, <1>10, <3>1, <3>2, <3>3, <3>4 DEF Pushed
  <2>3. Once(stack') /\ WaitingIn(stack') = (WaitingIn(stack) \ {Node}) \cup C
    <3>1. C \cap WaitingIn(base) = {}
      BY <1>9, <2>1
    <3> QED BY <1>2, <1>9, <2>2, <3>1, OneLevel
  <2>4. Hand' = {Node}
    BY <1>10 DEF Hand, Busy
  <2>5. /\ N \ (w \cup l \cup Hand') = open \ {Node}
        /\ Hand' \cap (w \cup l) = {} /\ w \cup l \cup Hand' \subseteq N
    BY <1>2, <1>4, <1>5, <2>1, <2>4 DEF open
  <2>6. Tally(w, l)'
    BY <1>1, <1>5, <1>7, <1>10, <2>1, <2>3, <2>5 DEF Tally, N, parent, size
  <2>7. l \in SUBSET N
    BY <1>5
  <2> QED BY <2>6, <2>7 DEF N
<1>11. CASE stack' = base /\ stage' = stage /\ failed' = failed \o (<<Node>> \o below)
  <2>0. PICK lost : lost = l \cup (D \cup {Node})
    OBVIOUS
  <2>1. /\ Forest(N, parent, open \ (D \cup {Node}), WaitingIn(stack) \ {Node})
        /\ D \subseteq open \ WaitingIn(stack) /\ Node \in open
    BY <1>4, <1>5, <1>6, <1>8, TakesAll
  <2>2. /\ <<Node>> \o below \in Seq(Nat) /\ Lists(<<Node>> \o below, D \cup {Node})
    BY <1>2, <1>6, <1>8, OneInFront
  <2>3. NoId \notin D \cup {Node} /\ (D \cup {Node}) \cap l = {} /\ (D \cup {Node}) \cap w = {}
        /\ D \cup {Node} \subseteq N
    BY <1>2, <1>6, <1>8, <2>1 DEF open
  <2>4. ReportOf(failed', size, lost)
    BY <1>5, <1>11, <2>0, <2>2, <2>3, ReportsMore
  <2>5. Hand' = {}
    BY <1>1, <1>11 DEF Hand, Busy
  <2>6. /\ N \ (w \cup lost \cup Hand') = open \ (D \cup {Node})
        /\ Hand' \cap (w \cup lost) = {} /\ w \cup lost \cup Hand' \subseteq N /\ w \cap lost = {}
    BY <1>4, <1>5, <2>0, <2>3, <2>5 DEF open
  <2>7. Tally(w, lost)'
    BY <1>1, <1>5, <1>7, <1>9, <1>11, <2>1, <2>4, <2>6 DEF Tally, N, parent, size
  <2>8. lost \in SUBSET N
    BY <2>6
  <2> QED BY <2>7, <2>8 DEF N
<1> QED BY <1>1, <1>10, <1>11

(* The document in hand is reported when it is put away.                    *)
LEMMA WorkCounts ==
  ASSUME ExportInv, Working, NEW w, NEW l, Tally(w, l)
  PROVE  \E written, lost \in SUBSET Nodes(listing) : Tally(written, lost)'
<1> DEFINE N == Nodes(listing)
           doc == current.doc
           size == Cardinality(Unusable(listing))
           open == N \ (w \cup l \cup Hand)
<1>1. UNCHANGED <<listing, stack>> /\ stage \in Busy
  BY WorkingFacts DEF ExportInv, Working
<1>2. Hand = {doc} /\ doc \in N /\ N \subseteq Nat /\ NoId \notin N
  BY <1>1, PlanIsForest DEF Hand, ExportInv, InHand, Typed
<1>3. /\ Once(stack) /\ Forest(N, Plan(listing).parent, open, WaitingIn(stack))
      /\ ReportOf(Written, 0, w) /\ ReportOf(failed, size, l)
      /\ w \cap l = {} /\ doc \notin w \cup l /\ w \cup l \subseteq N
  BY <1>2 DEF Tally
<1>4. <<doc>> \in Seq(Nat) /\ Lists(<<doc>>, {doc})
  <2>1. doc \in Nat
    BY <1>2
  <2> HIDE DEF doc
  <2>2. <<doc>> \in Seq(Nat) /\ <<doc>> \in Seq({doc}) /\ Len(<<doc>>) = 1 /\ <<doc>>[1] = doc
    BY <2>1
  <2> QED BY <2>2 DEF Lists
<1>5. CASE GiveUp /\ stage' = "walk" /\ failed' = failed \o <<doc>> /\ exported' = exported
  <2> HIDE DEF N, doc, size, open
  <2>0. PICK lost : lost = l \cup {doc}
    OBVIOUS
  <2>1. Hand' = {}
    BY <1>5 DEF Hand, Busy
  <2>2. ReportOf(failed', size, lost)
    BY <1>2, <1>3, <1>4, <1>5, <2>0, ReportsMore
  <2>3. /\ N \ (w \cup lost \cup Hand') = open
        /\ w \cap lost = {} /\ Hand' \cap (w \cup lost) = {}
        /\ w \cup lost \cup Hand' \subseteq N
    BY <1>2, <1>3, <2>0, <2>1 DEF open
  <2>4. Written' = Written
    BY <1>5 DEF Written
  <2>5. Tally(w, lost)'
    BY <1>1, <1>3, <2>2, <2>3, <2>4 DEF Tally, N, size
  <2>6. w \in SUBSET N /\ lost \in SUBSET N
    BY <1>2, <1>3, <2>0
  <2> QED BY <2>5, <2>6 DEF N
<1>6. CASE /\ UNCHANGED <<current, failed>> /\ stage = "record" /\ stage' = "walk"
           /\ exported' = Append(exported, [doc |-> doc, at |-> Target])
  <2>1. Written' = Written \o <<doc>>
    <3>1. exported \in Records /\ exported \in Seq([doc : Nat \ {NoId}, at : Paths \ {<<>>}])
      BY DEF ExportInv, Typed, Records
    <3> DEFINE record == [doc |-> doc, at |-> Target]
               R == [doc : Nat \ {NoId}, at : Paths \ {<<>>}]
    <3>2. record \in R /\ record.doc = doc
      <4>1. Target \in Paths \ {<<>>}
        BY <1>1, PlacesType DEF ExportInv
      <4> QED BY <1>2, <4>1
    <3> HIDE DEF record, R, doc
    <3>3. exported \in Seq(R)
      BY <3>1 DEF R
    <3>4. /\ exported' \in Seq(R) /\ Len(exported') = Len(exported) + 1 /\ Len(exported) \in Nat
          /\ exported'[Len(exported) + 1] = record
          /\ \A i \in 1 .. Len(exported) : exported'[i] = exported[i]
      BY <1>6, <3>2, <3>3 DEF record
    <3>5. /\ Written \in Seq(Nat) /\ Len(Written) = Len(exported)
          /\ \A i \in 1 .. Len(exported) : Written[i] = exported[i].doc
      <4>1. Written \in Seq(Nat)
        BY <1>3 DEF ReportOf
      <4> QED BY <3>4, <4>1 DEF Written
    <3>6. /\ Written \o <<doc>> \in Seq(Nat) /\ Len(Written \o <<doc>>) = Len(exported) + 1
          /\ \A i \in 1 .. Len(exported) : (Written \o <<doc>>)[i] = exported[i].doc
          /\ (Written \o <<doc>>)[Len(exported) + 1] = doc
      <4> DEFINE t == Written
      <4>1. /\ t \in Seq(Nat) /\ doc \in Nat /\ Len(t) = Len(exported) /\ Len(t) \in Nat
            /\ \A i \in 1 .. Len(exported) : t[i] = exported[i].doc
        <5>1. doc \in Nat
          BY <1>2 DEF doc
        <5> QED BY <3>4, <3>5, <5>1
      <4> HIDE DEF t
      <4>2. /\ t \o <<doc>> \in Seq(Nat) /\ Len(t \o <<doc>>) = Len(t) + 1
            /\ \A i \in 1 .. Len(t) : (t \o <<doc>>)[i] = t[i]
            /\ (t \o <<doc>>)[Len(t) + 1] = doc
        BY <4>1
      <4> QED BY <4>1, <4>2 DEF t
    <3> DEFINE s == Written \o <<doc>>
    <3>7. s = [i \in 1 .. Len(exported) + 1 |-> s[i]]
      BY <3>4, <3>6
    <3> HIDE DEF s
    <3>8. ASSUME NEW i \in 1 .. Len(exported) + 1 PROVE s[i] = exported'[i].doc
      <4>1. i \in 1 .. Len(exported) \/ i = Len(exported) + 1
        BY <3>4
      <4> QED BY <3>2, <3>4, <3>6, <4>1 DEF s
    <3>9. Written' = [i \in 1 .. Len(exported) + 1 |-> exported'[i].doc]
      BY <3>4 DEF Written
    <3> QED BY <3>7, <3>8, <3>9 DEF s
  <2> HIDE DEF N, doc, size, open
  <2>2. Hand' = {}
    BY <1>6 DEF Hand, Busy
  <2>0. PICK written : written = w \cup {doc}
    OBVIOUS
  <2>3. ReportOf(Written', 0, written)
    BY <1>2, <1>3, <1>4, <2>0, <2>1, ReportsMore
  <2>4. /\ N \ (written \cup l \cup Hand') = open
        /\ written \cap l = {} /\ Hand' \cap (written \cup l) = {}
        /\ written \cup l \cup Hand' \subseteq N
    BY <1>2, <1>3, <2>0, <2>2 DEF open
  <2>5. Tally(written, l)'
    BY <1>1, <1>3, <1>6, <2>3, <2>4 DEF Tally, N, size
  <2>6. written \in SUBSET N /\ l \in SUBSET N
    BY <1>2, <1>3, <2>0
  <2> QED BY <2>5, <2>6 DEF N
<1>7. CASE UNCHANGED <<current, failed, exported>> /\ stage' \in Busy
  <2>1. Hand' = Hand
    BY <1>1, <1>7 DEF Hand
  <2>2. Written' = Written
    BY <1>7 DEF Written
  <2>3. Tally(w, l)'
    BY <1>1, <1>7, <2>1, <2>2 DEF Tally
  <2>4. w \in SUBSET N /\ l \in SUBSET N
    BY <1>3
  <2> QED BY <2>3, <2>4
<1> QED BY <1>5, <1>6, <1>7, WorkingFacts DEF ExportInv

\* A level on which nothing waits is taken off.
LEMMA LevelCounts ==
  ASSUME ExportInv, FlushLevel, NEW w, NEW l, Tally(w, l)
  PROVE  Tally(w, l)'
<1>1. /\ Top.pending = <<>> /\ stage = "walk"
      /\ UNCHANGED <<listing, exported, failed>>
  BY DEF FlushLevel, inputVars
<1>2. /\ stack # <<>> /\ Len(stack) \in Nat \ {0} /\ Top = stack[Len(stack)]
      /\ stack' \in Stacks /\ Len(stack') = Len(stack) - 1
      /\ \A j \in 1 .. Len(stack) - 1 : stack'[j] = stack[j]
      /\ stage' \in {"walk", "parents"} /\ stack \in Stacks
  BY LevelFacts DEF ExportInv, Typed
<1>3. Pushed(stack', stack, <<>>)
  BY <1>1, <1>2 DEF Pushed
<1>4. WaitingIn(stack') = WaitingIn(stack) /\ (Once(stack') <=> Once(stack))
  <2>1. Lists(<<>>, {})
    BY DEF Lists
  <2> QED BY <1>3, <2>1, OneLevel
<1>5. Hand = {} /\ Hand' = {}
  BY <1>1, <1>2 DEF Hand, Busy
<1>6. Written' = Written
  BY <1>1 DEF Written
<1> QED BY <1>1, <1>4, <1>5, <1>6 DEF Tally

\* Directories are flushed and the command ends: nothing is reported any more.
LEMMA RestCounts ==
  ASSUME stage \notin Busy, stage' \notin Busy, UNCHANGED <<listing, stack, exported, failed>>,
         NEW w, NEW l, Tally(w, l)
  PROVE  Tally(w, l)'
<1>1. Hand = {} /\ Hand' = {} /\ Written' = Written
  BY DEF Hand, Written
<1> QED BY <1>1 DEF Tally

\* The count after a step that is not one of an export under way, or its start.
LEMMA StartCounts ==
  ASSUME ExportInv, CountInv, ExportStart \/ Prepare \/ List \/ Kill
  PROVE  CountInv'
<1>1. CASE ExportStart
  BY <1>1 DEF ExportStart, CountInv, Tallied, Concluded, Busy
<1>2. CASE Kill
  BY <1>2 DEF Kill, CountInv, Tallied, Concluded, Busy
<1>3. CASE Prepare
  <2>1. stage = "prepare" /\ stage' \in {"prepare", "list", "done"} /\ exported' = exported
    BY <1>3 DEF Prepare, Refuse, reportVars
  <2>2. verdict = "none"
    BY <2>1 DEF ExportInv, Standing, Typed
  <2>3. verdict' \in {"none", "refused"}
    BY <1>3, <2>2 DEF Prepare, Refuse
  <2>4. stage' = "done" \/ stage' \in {"prepare", "list"}
    BY <2>1
  <2> QED BY <2>1, <2>3, <2>4 DEF CountInv, Tallied, Concluded, Busy
<1>4. CASE List
  <2>1. stage = "list" /\ exported = <<>> /\ verdict = "none"
    BY <1>4 DEF List, CountInv, ExportInv, Standing, Typed
  <2>2. CASE stage' = "walk"
    <3>1. Tally({}, {})'
      BY <1>4, <2>1, <2>2, ListCounts
    <3>2. {} \in SUBSET Nodes(listing')
      OBVIOUS
    <3>3. cut' = "no" => listing' = collection'
      BY <1>4, <2>2 DEF List, Refuse
    <3>4. verdict' = "none"
      BY <1>4, <2>1, <2>2 DEF List, Refuse
    <3> QED BY <2>2, <3>1, <3>2, <3>3, <3>4 DEF CountInv
  <2>3. CASE stage' # "walk"
    <3>1. stage' = "done" /\ verdict' = "refused"
      BY <1>4, <2>3 DEF List, Refuse
    <3> QED BY <3>1 DEF CountInv, Tallied, Concluded, Busy
  <2> QED BY <2>2, <2>3
<1> QED BY <1>1, <1>2, <1>3, <1>4

\* The count after a step of an export that is under way.
LEMMA CountGoesOn ==
  ASSUME ExportInv, CountInv, UNCHANGED <<collection, listing, cut>>,
         Tallied, stage' \notin {"prepare", "list"},
         verdict' = "complete" => failed' = <<>> /\ cut' # "cap",
         \A w, l \in SUBSET Nodes(listing) :
           Tally(w, l) => \E written, lost \in SUBSET Nodes(listing) : Tally(written, lost)'
  PROVE  CountInv'
<1>1. PICK w, l \in SUBSET Nodes(listing) : Tally(w, l)
  BY DEF CountInv
<1>2. PICK written, lost \in SUBSET Nodes(listing) : Tally(written, lost)'
  BY <1>1
<1>3. written \in SUBSET Nodes(listing') /\ lost \in SUBSET Nodes(listing')
  BY <1>2
<1>4. cut' = "no" => listing' = collection'
  BY DEF CountInv
<1> QED BY <1>2, <1>3, <1>4 DEF CountInv

\* Every step keeps the count.
LEMMA CountStep ==
  ASSUME ExportInv, CountInv, [ExportNext]_exportVars
  PROVE  CountInv'
<1> DEFINE Kept == \A w, l \in SUBSET Nodes(listing) :
                     Tally(w, l) => \E written, lost \in SUBSET Nodes(listing) : Tally(written, lost)'
<1>1. CASE WriteHere \/ WriteBranch \/ Working \/ FlushLevel
  <2>1. Tallied /\ verdict = "none" /\ stage \in Busy \cup {"walk"}
    BY <1>1 DEF WriteHere, WriteBranch, Working, FlushLevel, Tallied, ExportInv, Standing, Typed, Busy
  <2>2. UNCHANGED <<collection, listing, cut, verdict>>
    <3>1. CASE Working
      BY <3>1, WorkingFacts DEF ExportInv
    <3>2. CASE WriteHere \/ WriteBranch \/ FlushLevel
      BY <3>2 DEF WriteHere, WriteBranch, FlushLevel, inputVars
    <3> QED BY <1>1, <3>1, <3>2
  <2>3. stage' \notin {"prepare", "list"}
    <3>1. CASE Working
      BY <3>1, WorkingFacts DEF ExportInv, Busy
    <3>2. CASE WriteHere
      BY <3>2 DEF WriteHere
    <3>3. CASE WriteBranch
      BY <2>1, <3>3 DEF WriteBranch, Busy
    <3>4. CASE FlushLevel
      BY <3>4 DEF FlushLevel
    <3> QED BY <1>1, <3>1, <3>2, <3>3, <3>4
  <2>4. Kept
    <3> SUFFICES ASSUME NEW w \in SUBSET Nodes(listing), NEW l \in SUBSET Nodes(listing), Tally(w, l)
                 PROVE  \E written, lost \in SUBSET Nodes(listing) : Tally(written, lost)'
      OBVIOUS
    <3>1. CASE Working
      BY <3>1, WorkCounts
    <3>2. CASE WriteBranch
      BY <3>2, BranchCounts
    <3>3. CASE WriteHere \/ FlushLevel
      <4>1. Tally(w, l)'
        BY <3>3, HereCounts, LevelCounts
      <4> QED BY <4>1
    <3> QED BY <1>1, <3>1, <3>2, <3>3
  <2> HIDE DEF Kept
  <2> QED BY <2>1, <2>2, <2>3, <2>4, CountGoesOn DEF Kept
<1>2. CASE FlushParents \/ Finish
  <2>1. stage \in {"parents", "finish"} /\ stage' \in {"parents", "finish", "done"}
        /\ UNCHANGED <<collection, listing, cut, stack, exported, failed>>
    BY <1>2 DEF FlushParents, Finish, inputVars, walkVars, reportVars
  <2>2. Tallied /\ verdict # "complete"
    BY <2>1 DEF Tallied, ExportInv, Standing
  <2>3. verdict' = "complete" => failed' = <<>> /\ cut' # "cap"
    BY <1>2, <2>1, <2>2 DEF FlushParents, Finish
  <2>4. Kept
    BY <2>1, RestCounts DEF Busy
  <2> HIDE DEF Kept
  <2>5. stage' \notin {"prepare", "list"}
    BY <2>1
  <2> QED BY <2>1, <2>2, <2>3, <2>4, <2>5, CountGoesOn DEF Kept
<1>3. CASE UNCHANGED exportVars
  <2>1. UNCHANGED <<collection, listing, cut, stack, exported, failed, verdict, current, stage>>
    BY <1>3 DEF exportVars, inputVars, walkVars, reportVars
  <2>2. Written' = Written /\ Hand' = Hand /\ (Tallied' <=> Tallied)
    BY <2>1 DEF Written, Hand, Tallied, Concluded
  <2>3. ASSUME NEW w, NEW l, Tally(w, l) PROVE Tally(w, l)'
    BY <2>1, <2>2, <2>3 DEF Tally
  <2>4. Tallied => \E w, l \in SUBSET Nodes(listing) : Tally(w, l)'
    BY <2>3 DEF CountInv
  <2> QED BY <2>1, <2>2, <2>4 DEF CountInv
<1> QED BY <1>1, <1>2, <1>3, StartCounts, Steps

\* An id of the listing is that of a document.
LEMMA IdIsNode ==
  ASSUME NEW rows \in Seq(GoodRows), NEW k \in 1 .. Len(rows), rows[k].id # NoId
  PROVE  rows[k].id \in Nodes(rows)
<1> DEFINE same == {j \in 1 .. Len(rows) : rows[j].id = rows[k].id}
<1>1. same \in SUBSET Nat /\ same # {}
  OBVIOUS
<1>2. PICK i \in same : \A j \in same : i <= j
  <2> HIDE DEF same
  <2> QED BY <1>1, Least
<1>3. i \in KeptRows(rows)
  <2>1. ASSUME NEW j \in 1 .. i - 1, rows[j].id = rows[i].id PROVE FALSE
    <3>1. j \in 1 .. Len(rows) /\ j < i
      BY <1>2
    <3> QED BY <1>2, <2>1, <3>1
  <2> QED BY <1>2, <2>1 DEF KeptRows
<1> QED BY <1>2, <1>3 DEF Nodes

(* At the end nothing waits, so nothing is open.                            *)
LEMMA CompleteOfInv ==
  ASSUME ExportInv, CountInv
  PROVE  ExportIsComplete
<1> DEFINE N == Nodes(listing)
           size == Cardinality(Unusable(listing))
<1> SUFFICES ASSUME Concluded PROVE ExportIsComplete
  BY DEF ExportIsComplete, Accounted, CleanIsComplete, Concluded
<1>1. stage = "done" /\ stack = <<>> /\ Tallied
  BY DEF Tallied, Concluded, ExportInv, Standing
<1>2. PICK w, l \in SUBSET N : Tally(w, l)
  BY <1>1 DEF CountInv
<1>3. /\ ReportOf(Written, 0, w) /\ ReportOf(failed, size, l) /\ w \cap l = {}
      /\ Forest(N, Plan(listing).parent, N \ (w \cup l \cup Hand), WaitingIn(stack))
  BY <1>2 DEF Tally
<1>4. Hand = {} /\ WaitingIn(stack) = {}
  BY <1>1 DEF Hand, Busy, WaitingIn
<1>5. Grounded(N, Plan(listing).parent) /\ listing \in Seq(GoodRows)
  BY PlanIsForest DEF ExportInv, Typed
<1>6. w \cup l = N
  <2> DEFINE open == N \ (w \cup l \cup Hand)
             parent == Plan(listing).parent
  <2>1. Forest(N, parent, open, {}) /\ Grounded(N, parent)
    BY <1>3, <1>4, <1>5
  <2> HIDE DEF open, parent, N
  <2>2. open = {}
    BY <2>1, NothingOpen
  <2> QED BY <1>2, <1>4, <2>2 DEF open
<1>7. /\ \A d \in w \cup l : TimesReported(Written \o failed, d) = 1
      /\ TimesReported(failed, NoId) = size
  BY <1>3, ReportsOnce
<1>8. Accounted
  BY <1>6, <1>7 DEF Accounted
<1>9. ASSUME verdict = "complete", cut # "limit", NEW k \in 1 .. Len(collection)
      PROVE  collection[k].id \in ToSet(Written)
  <2>1. failed = <<>> /\ listing = collection
    <3>1. cut = "no"
      BY <1>9 DEF CountInv, ExportInv, Typed
    <3> QED BY <1>1, <1>9, <3>1 DEF CountInv
  <2>2. size = 0 /\ l = {}
    <3>1. Len(failed) = 0 /\ size \in Nat /\ size <= Len(failed)
      BY <1>3, <2>1 DEF ReportOf
    <3>2. l = {}
      BY <1>3, <3>1 DEF ReportOf
    <3> QED BY <3>1, <3>2
  <2>3. Unusable(listing) = {}
    <3>1. Unusable(listing) \subseteq 1 .. Len(listing) /\ Len(listing) \in Nat
      BY <1>5 DEF Unusable
    <3>2. IsFiniteSet(1 .. Len(listing))
      BY <3>1, FS_Interval
    <3>3. IsFiniteSet(Unusable(listing))
      BY <3>1, <3>2, FS_Subset
    <3> QED BY <2>2, <3>3, FS_EmptySet
  <2>4. listing[k].id # NoId /\ k \in 1 .. Len(listing)
    BY <1>9, <2>1, <2>3 DEF Unusable
  <2>5. listing[k].id \in w
    <3>1. listing[k].id \in N
      BY <1>5, <2>4, IdIsNode
    <3> QED BY <1>6, <2>2, <3>1
  <2>6. \E i \in 1 .. Len(Written) : Written[i] = listing[k].id
    BY <1>3, <2>5 DEF ReportOf
  <2>7. ToSet(Written) = {Written[i] : i \in 1 .. Len(Written)}
    BY <1>3, InSeq DEF ReportOf
  <2> QED BY <2>1, <2>6, <2>7
<1>10. CleanIsComplete
  BY <1>9 DEF CleanIsComplete
<1> QED BY <1>8, <1>10 DEF ExportIsComplete

(* Whatever the listing, whatever fails, is killed or is run again: an      *)
(* export that ends has reported every document of the listing exactly      *)
(* once, and one that ends clean without --limit has written them all.      *)
THEOREM ExportCompleteness == ExportSpec => []ExportIsComplete
<1>1. ExportInit => ExportInv /\ CountInv
  <2>1. ExportInit => CountInv
    BY DEF ExportInit, CountInv, Tallied, Concluded, Busy
  <2> QED BY <2>1, ExportInvInit
<1>2. ExportInv /\ CountInv /\ [ExportNext]_exportVars => (ExportInv /\ CountInv)'
  BY ExportInvStep, CountStep
<1>3. ExportInv /\ CountInv => ExportIsComplete
  BY CompleteOfInv
<1> QED BY <1>1, <1>2, <1>3, PTL DEF ExportSpec

-----------------------------------------------------------------------------
(* Lines and parts of bodies.                                               *)

Texts == Seq(BodyLines)

\* The lines that are written without a text are lines.
LEMMA PlainLines ==
  /\ Blank \in BodyLines /\ Rule \in BodyLines /\ Rule # Blank
  /\ <<>> \in Texts /\ Len(<<>>) = 0
BY DEF BodyLines, Blank, Text, Rule, Texts

\* A body of one line.
LEMMA OneLine ==
  ASSUME NEW line \in BodyLines
  PROVE  <<line>> \in Texts /\ Len(<<line>>) = 1 /\ <<line>>[1] = line
BY DEF Texts

\* A part of a body is one, line by line.
LEMMA PartOf ==
  ASSUME NEW s \in Texts, NEW m \in Nat \ {0}, NEW n \in Nat, n <= Len(s)
  PROVE  /\ SubSeq(s, m, n) \in Texts
         /\ Len(SubSeq(s, m, n)) = IF m <= n THEN n - m + 1 ELSE 0
         /\ \A i \in 1 .. n - m + 1 : SubSeq(s, m, n)[i] = s[m + i - 1]
<1>1. \A i \in m .. n : s[i] \in BodyLines
  BY ElementOfSeq DEF Texts
<1> QED BY <1>1, SubSeqProperties DEF Texts

\* Two bodies, one after the other.
LEMMA Joining ==
  ASSUME NEW s \in Texts, NEW t \in Texts
  PROVE  /\ s \o t \in Texts
         /\ Len(s \o t) = Len(s) + Len(t)
         /\ \A i \in 1 .. Len(s) : (s \o t)[i] = s[i]
         /\ \A i \in 1 .. Len(t) : (s \o t)[Len(s) + i] = t[i]
         /\ \A i \in Len(s) + 1 .. Len(s) + Len(t) : (s \o t)[i] = t[i - Len(s)]
<1>1. Len(s) \in Nat /\ Len(t) \in Nat
  BY DEF Texts
<1>2. /\ s \o t \in Texts /\ Len(s \o t) = Len(s) + Len(t)
      /\ \A i \in 1 .. Len(s) + Len(t) :
           (s \o t)[i] = IF i <= Len(s) THEN s[i] ELSE t[i - Len(s)]
  BY ConcatProperties DEF Texts
<1> QED BY <1>1, <1>2

\* How three bodies are put together makes no difference.
Associative(s, t, u) == (s \o t) \o u = s \o (t \o u)

\* It makes none.
LEMMA Associates ==
  ASSUME NEW s \in Texts, NEW t \in Texts, NEW u \in Texts
  PROVE  Associative(s, t, u)
BY ConcatAssociative DEF Texts, Associative

\* The same for the five parts of a changed body.
Regrouped(a, b, c, d, e) == a \o (b \o c \o d) \o e = (a \o b) \o c \o (d \o e)

\* It makes none there either.
LEMMA FiveParts ==
  ASSUME NEW a \in Texts, NEW b \in Texts, NEW c \in Texts, NEW d \in Texts, NEW e \in Texts
  PROVE  Regrouped(a, b, c, d, e)
<1> DEFINE bc == b \o c
           ab == a \o b
           abc == ab \o c
<1>1. bc \in Texts /\ ab \in Texts
  BY Joining
<1>2. a \o bc = abc
  <2>1. Associative(a, b, c)
    BY Associates
  <2> QED BY <2>1 DEF Associative
<1> HIDE DEF bc, ab
<1>3. abc \in Texts
  BY <1>1, Joining
<1> HIDE DEF abc
<1>4. a \o (bc \o d) = abc \o d
  <2>1. Associative(a, bc, d)
    BY <1>1, Associates
  <2> QED BY <1>2, <2>1 DEF Associative
<1>5. (abc \o d) \o e = abc \o (d \o e)
  <2>1. Associative(abc, d, e)
    BY <1>3, Associates
  <2> QED BY <2>1 DEF Associative
<1>6. a \o (bc \o d) \o e = abc \o (d \o e)
  BY <1>4, <1>5
<1> QED BY <1>6 DEF Regrouped, abc, ab, bc

\* Two parts that meet are one.
LEMMA Adjacent ==
  ASSUME NEW s \in Texts, NEW m \in Nat \ {0}, NEW k \in Nat \ {0}, NEW n \in Nat,
         m <= k, k <= n + 1, n <= Len(s)
  PROVE  SubSeq(s, m, k - 1) \o SubSeq(s, k, n) = SubSeq(s, m, n)
<1> DEFINE j == k - 1
<1>0. s \in Seq(BodyLines) /\ Len(s) \in Nat
  BY DEF Texts
<1>1. m \in 1 .. Len(s) + 1 /\ j \in m - 1 .. Len(s) /\ n \in j .. Len(s) /\ j + 1 = k
  BY <1>0
<1> HIDE DEF j
<1>2. SubSeq(s, m, j) \o SubSeq(s, j + 1, n) = SubSeq(s, m, n)
  BY <1>0, <1>1, ConcatAdjacentSubSeq
<1>3. SubSeq(s, m, j) \o SubSeq(s, k, n) = SubSeq(s, m, n)
  BY <1>1, <1>2
<1> QED BY <1>3 DEF j

\* A body has a length, and its lines are lines.
LEMMA BodyType ==
  ASSUME NEW s \in Texts
  PROVE  Len(s) \in Nat /\ (\A i \in 1 .. Len(s) : s[i] \in BodyLines) /\ DOMAIN s = 1 .. Len(s)
BY ElementOfSeq, LenProperties DEF Texts

\* Two bodies with the same lines are the same.
LEMMA SameLines ==
  ASSUME NEW s \in Texts, NEW t \in Texts, Len(s) = Len(t), \A i \in 1 .. Len(s) : s[i] = t[i]
  PROVE  s = t
BY SeqEqual DEF Texts

\* What is in two bodies is in one of them.
LEMMA LinesOfBoth ==
  ASSUME NEW s \in Texts, NEW t \in Texts
  PROVE  /\ ToSet(s \o t) = ToSet(s) \cup ToSet(t)
         /\ IsBlank(s \o t) <=> IsBlank(s) /\ IsBlank(t)
<1>1. Len(s) \in Nat /\ Len(t) \in Nat /\ DOMAIN s = 1 .. Len(s) /\ DOMAIN t = 1 .. Len(t)
  BY BodyType
<1> DEFINE u == s \o t
<1>2. /\ u \in Texts /\ Len(u) = Len(s) + Len(t)
      /\ \A i \in 1 .. Len(s) : u[i] = s[i]
      /\ \A i \in 1 .. Len(t) : u[Len(s) + i] = t[i]
  BY Joining
<1>3. DOMAIN u = 1 .. Len(u)
  BY <1>2, BodyType
<1> HIDE DEF u
<1>4. \A i \in 1 .. Len(u) : i \in 1 .. Len(s) \/ (i - Len(s) \in 1 .. Len(t) /\ i = Len(s) + (i - Len(s)))
  BY <1>1, <1>2
<1>5. \A i \in 1 .. Len(s) : i \in 1 .. Len(u)
  BY <1>1, <1>2
<1>6. \A i \in 1 .. Len(t) : Len(s) + i \in 1 .. Len(u)
  BY <1>1, <1>2
<1>7. ToSet(u) = ToSet(s) \cup ToSet(t)
  <2>1. ASSUME NEW x \in ToSet(u) PROVE x \in ToSet(s) \cup ToSet(t)
    <3>1. PICK i \in 1 .. Len(u) : x = u[i]
      BY <1>3, <2>1 DEF ToSet
    <3>2. CASE i \in 1 .. Len(s)
      BY <1>1, <1>2, <3>1, <3>2 DEF ToSet
    <3>3. CASE i - Len(s) \in 1 .. Len(t)
      <4>1. u[i] = t[i - Len(s)]
        BY <1>2, <1>4, <3>1, <3>3
      <4> QED BY <1>1, <3>1, <3>3, <4>1 DEF ToSet
    <3> QED BY <1>4, <3>1, <3>2, <3>3
  <2>2. ToSet(s) \subseteq ToSet(u)
    BY <1>1, <1>2, <1>3, <1>5 DEF ToSet
  <2>3. ToSet(t) \subseteq ToSet(u)
    <3>1. \A i \in 1 .. Len(t) : t[i] = u[Len(s) + i] /\ Len(s) + i \in DOMAIN u
      BY <1>2, <1>3, <1>6
    <3> QED BY <1>1, <3>1 DEF ToSet
  <2> QED BY <2>1, <2>2, <2>3
<1>8. IsBlank(u) <=> IsBlank(s) /\ IsBlank(t)
  BY <1>2, <1>4, <1>5, <1>6 DEF IsBlank
<1> QED BY <1>7, <1>8 DEF u

\* What is in a part is in the whole.
LEMMA LinesOfPart ==
  ASSUME NEW s \in Texts, NEW m \in Nat \ {0}, NEW n \in Nat, n <= Len(s)
  PROVE  ToSet(SubSeq(s, m, n)) \subseteq ToSet(s)
<1> DEFINE u == SubSeq(s, m, n)
<1>1. u \in Texts /\ Len(u) = (IF m <= n THEN n - m + 1 ELSE 0) /\ \A i \in 1 .. n - m + 1 : u[i] = s[m + i - 1]
  BY PartOf
<1>2. DOMAIN u = 1 .. Len(u) /\ DOMAIN s = 1 .. Len(s) /\ Len(s) \in Nat
  BY <1>1, BodyType
<1> HIDE DEF u
<1>3. \A i \in 1 .. Len(u) : i \in 1 .. n - m + 1 /\ m + i - 1 \in 1 .. Len(s)
  BY <1>1, <1>2
<1>4. ToSet(u) \subseteq ToSet(s)
  BY <1>1, <1>2, <1>3 DEF ToSet
<1> QED BY <1>4 DEF u

-----------------------------------------------------------------------------
(* The file of a caller: what its block says is what the export said.       *)

\* The block of an exported document.
BlockFor(id, revision) == Block([id |-> id, urlId |-> 0, title |-> 1, revision |-> revision])

\* What is in it.
LEMMA BlockOf ==
  ASSUME NEW id \in Nat \ {0}, NEW revision \in Nat
  PROVE  /\ BlockFor(id, revision) \in Texts
         /\ Len(BlockFor(id, revision)) = IF revision = 0 THEN 4 ELSE 5
         /\ BlockFor(id, revision)[1] = Rule
         /\ BlockFor(id, revision)[2] = Entry("outline_id:", id)
         /\ BlockFor(id, revision)[3] = Entry("title:", 1)
         /\ revision # 0 => BlockFor(id, revision)[4] = Entry("revision:", revision)
         /\ BlockFor(id, revision)[Len(BlockFor(id, revision))] = Rule
<1> DEFINE a == <<Entry("outline_id:", id)>>
           b == <<Entry("title:", 1)>>
           c == EntryIfAny("revision:", revision)
           first == a \o <<>>
           second == first \o b
           fields == second \o c
           rule == <<Rule>>
           head == rule \o fields
           block == head \o rule
<1>0. /\ Entry("outline_id:", id) \in BodyLines /\ Entry("title:", 1) \in BodyLines
      /\ Entry("revision:", revision) \in BodyLines
  BY DEF Entry, BodyLines, EntryKeys, IdKeys
<1>1. a \in Texts /\ Len(a) = 1 /\ a[1] = Entry("outline_id:", id)
  BY <1>0 DEF Texts
<1>2. b \in Texts /\ Len(b) = 1 /\ b[1] = Entry("title:", 1)
  BY <1>0 DEF Texts
<1>3. /\ c \in Texts /\ Len(c) = (IF revision = 0 THEN 0 ELSE 1)
      /\ revision # 0 => c[1] = Entry("revision:", revision)
  <2>1. CASE revision = 0
    BY <2>1, PlainLines DEF EntryIfAny
  <2>2. CASE revision # 0
    <3>1. c = <<Entry("revision:", revision)>>
      BY <2>2 DEF EntryIfAny
    <3>2. LET one == <<Entry("revision:", revision)>>
          IN  one \in Texts /\ Len(one) = 1 /\ one[1] = Entry("revision:", revision)
      BY <1>0, OneLine
    <3> QED BY <3>1, <3>2, <2>2
  <2> QED BY <2>1, <2>2
<1>4. rule \in Texts /\ Len(rule) = 1 /\ rule[1] = Rule
  BY PlainLines DEF Texts
<1>5. first = a
  BY <1>1, ConcatEmptySeq DEF Texts
<1> DEFINE all == EntryIfAny("outline_id:", id) \o EntryIfAny("outline_url_id:", 0)
                  \o EntryIfAny("title:", 1) \o EntryIfAny("revision:", revision)
<1>6. BlockFor(id, revision) = IF all = <<>> THEN <<>> ELSE rule \o all \o rule
  BY DEF BlockFor, Block
<1>7. all = fields
  <2>1. EntryIfAny("outline_id:", id) = a /\ EntryIfAny("title:", 1) = b /\ EntryIfAny("outline_url_id:", 0) = <<>>
    BY DEF EntryIfAny
  <2> QED BY <2>1
<1> HIDE DEF a, b, c, all, rule, first
<1>8. /\ second \in Texts /\ Len(second) = 2
      /\ second[1] = Entry("outline_id:", id) /\ second[2] = Entry("title:", 1)
  <2>1. /\ first \in Texts /\ Len(first) = 1 /\ first[1] = Entry("outline_id:", id)
    BY <1>1, <1>5
  <2>2. /\ second \in Texts /\ Len(second) = Len(first) + Len(b)
        /\ \A i \in 1 .. Len(first) : second[i] = first[i]
        /\ \A i \in Len(first) + 1 .. Len(first) + Len(b) : second[i] = b[i - Len(first)]
    BY <1>2, <2>1, Joining
  <2> HIDE DEF second
  <2> QED BY <1>2, <2>1, <2>2
<1> HIDE DEF second
<1>9. /\ fields \in Texts /\ Len(fields) = (IF revision = 0 THEN 2 ELSE 3)
      /\ fields[1] = Entry("outline_id:", id) /\ fields[2] = Entry("title:", 1)
      /\ revision # 0 => fields[3] = Entry("revision:", revision)
  <2>1. /\ fields \in Texts /\ Len(fields) = Len(second) + Len(c)
        /\ \A i \in 1 .. Len(second) : fields[i] = second[i]
        /\ \A i \in Len(second) + 1 .. Len(second) + Len(c) : fields[i] = c[i - Len(second)]
    BY <1>3, <1>8, Joining
  <2> HIDE DEF fields
  <2> QED BY <1>3, <1>8, <2>1
<1> HIDE DEF fields
<1>10. /\ head \in Texts /\ Len(head) = 1 + Len(fields) /\ head[1] = Rule
       /\ \A i \in 2 .. Len(fields) + 1 : head[i] = fields[i - 1]
  <2>1. /\ head \in Texts /\ Len(head) = Len(rule) + Len(fields)
        /\ \A i \in 1 .. Len(rule) : head[i] = rule[i]
        /\ \A i \in Len(rule) + 1 .. Len(rule) + Len(fields) : head[i] = fields[i - Len(rule)]
    BY <1>4, <1>9, Joining
  <2> HIDE DEF head
  <2> QED BY <1>4, <1>9, <2>1
<1> HIDE DEF head
<1>11. /\ block \in Texts /\ Len(block) = 2 + Len(fields)
       /\ \A i \in 1 .. Len(head) : block[i] = head[i]
       /\ block[Len(head) + 1] = Rule
  <2>1. /\ block \in Texts /\ Len(block) = Len(head) + Len(rule)
        /\ \A i \in 1 .. Len(head) : block[i] = head[i]
        /\ \A i \in Len(head) + 1 .. Len(head) + Len(rule) : block[i] = rule[i - Len(head)]
    BY <1>4, <1>10, Joining
  <2> HIDE DEF block
  <2> QED BY <1>4, <1>9, <1>10, <2>1
<1>12. BlockFor(id, revision) = block
  <2>1. all # <<>>
    <3>1. Len(fields) # 0
      BY <1>9
    <3> QED BY <3>1, <1>7, PlainLines
  <2> QED BY <2>1, <1>6, <1>7 DEF head
<1> HIDE DEF block
<1>13. block[1] = Rule
  BY <1>9, <1>10, <1>11
<1>14. block[2] = fields[1] /\ block[3] = fields[2]
  BY <1>9, <1>10, <1>11
<1>15. ASSUME revision # 0 PROVE block[4] = fields[3]
  BY <1>15, <1>9, <1>10, <1>11
<1>16. block[Len(block)] = Rule /\ Len(block) = IF revision = 0 THEN 4 ELSE 5
  BY <1>9, <1>10, <1>11
<1> QED BY <1>9, <1>11, <1>12, <1>13, <1>14, <1>15, <1>16

\* The front of a block that is a document's own.
FrontOf(id, revision) == [id |-> id, urlId |-> 0, revision |-> revision]

\* A file is what its block says and the text it was made with.
LEMMA FileSplits ==
  ASSUME UpdateAssumption, NEW text \in NewTexts \cup {<<>>}, NEW withBlock \in BOOLEAN,
         copy.revision \in Nat, withBlock => copy.id \in Documents
  PROVE  /\ Split(File(text, withBlock)).body = text
         /\ Split(File(text, withBlock)).found <=> withBlock
         /\ Split(File(text, withBlock)).front =
              IF withBlock THEN FrontOf(copy.id, copy.revision) ELSE NoFront
<1>1. text \in Texts /\ Rule \notin ToSet(text)
  <2>1. CASE text \in NewTexts
    BY <2>1 DEF UpdateAssumption, Texts
  <2>2. CASE text = <<>>
    <3>1. ToSet(<<>>) = {}
      BY DEF ToSet
    <3> QED BY <2>2, <3>1, PlainLines
  <2> QED BY <2>1, <2>2
<1>2. Len(text) \in Nat /\ DOMAIN text = 1 .. Len(text)
  BY <1>1, BodyType
<1>3. CASE ~withBlock
  <2>1. text # <<>> => text[1] # Rule
    <3>1. text # <<>> => 1 \in 1 .. Len(text)
      BY <1>1, <1>2, EmptySeq DEF Texts
    <3> QED BY <1>1, <1>2, <3>1 DEF ToSet
  <2>2. File(text, withBlock) = text
    BY <1>3 DEF File
  <2>3. Split(text) = [front |-> NoFront, found |-> FALSE, body |-> text]
    BY <2>1 DEF Split
  <2>4. withBlock = FALSE
    BY <1>3
  <2> QED BY <1>3, <2>2, <2>3, <2>4
<1>4. CASE withBlock
  <2> DEFINE id == copy.id
             revision == copy.revision
             block == BlockFor(id, revision)
             n == Len(block)
             blank == <<Blank>>
             head == block \o blank
             file == head \o text
  <2>1. id \in Nat \ {0} /\ revision \in Nat
    BY <1>4 DEF UpdateAssumption
  <2>2. File(text, withBlock) = file
    BY <1>4 DEF File, BlockFor
  <2> HIDE DEF id, revision
  <2>3. /\ block \in Texts /\ n = IF revision = 0 THEN 4 ELSE 5
        /\ block[1] = Rule /\ block[2] = Entry("outline_id:", id) /\ block[3] = Entry("title:", 1)
        /\ revision # 0 => block[4] = Entry("revision:", revision)
        /\ block[n] = Rule
    BY <2>1, BlockOf
  <2> HIDE DEF block, n
  <2>4. blank \in Texts /\ Len(blank) = 1 /\ blank[1] = Blank
    BY PlainLines, OneLine
  <2> HIDE DEF blank
  <2>5. /\ head \in Texts /\ Len(head) = n + 1
        /\ \A i \in 1 .. n : head[i] = block[i]
        /\ head[n + 1] = Blank
    <3>1. /\ head \in Texts /\ Len(head) = Len(block) + Len(blank)
          /\ \A i \in 1 .. Len(block) : head[i] = block[i]
          /\ \A i \in Len(block) + 1 .. Len(block) + Len(blank) : head[i] = blank[i - Len(block)]
      BY <2>3, <2>4, Joining
    <3>2. Len(block) = n /\ n \in Nat
      BY <2>3 DEF n
    <3> HIDE DEF head
    <3> QED BY <2>4, <3>1, <3>2
  <2> HIDE DEF head
  <2>6. /\ file \in Texts /\ Len(file) = n + 1 + Len(text)
        /\ \A i \in 1 .. n : file[i] = block[i]
        /\ file[n + 1] = Blank
        /\ \A i \in 1 .. Len(text) : file[n + 1 + i] = text[i]
    <3>1. /\ file \in Texts /\ Len(file) = Len(head) + Len(text)
          /\ \A i \in 1 .. Len(head) : file[i] = head[i]
          /\ \A i \in 1 .. Len(text) : file[Len(head) + i] = text[i]
      BY <1>1, <2>5, Joining
    <3>2. n \in Nat
      BY <2>3
    <3> HIDE DEF file
    <3> QED BY <1>2, <2>5, <3>1, <3>2
  <2> HIDE DEF file
  <2> DEFINE closing == CHOOSE k \in Closings(file) : \A j \in Closings(file) : k <= j
             lines == SubSeq(file, 2, closing - 1)
             body == SubSeq(file, closing + 1, Len(file))
  <2>7. /\ Entry("outline_id:", id) # Rule /\ Entry("title:", 1) # Rule
        /\ Entry("revision:", revision) # Rule
    BY DEF Entry, Rule
  <2>8. n \in Closings(file) /\ \A j \in Closings(file) : n <= j
    <3>1. n \in Closings(file)
      BY <1>2, <2>3, <2>6 DEF Closings
    <3>2. ASSUME NEW j \in Closings(file) PROVE n <= j
      <4>1. j \in Nat /\ j >= 2 /\ file[j] = Rule
        BY <1>2, <2>3, <2>6 DEF Closings
      <4>2. j < n => j = 2 \/ j = 3 \/ (j = 4 /\ revision # 0)
        BY <2>3, <4>1
      <4> QED BY <2>3, <2>6, <2>7, <4>1, <4>2
    <3> QED BY <3>1, <3>2
  <2>9. Closings(file) \subseteq Nat
    BY <1>2, <2>6, <2>3 DEF Closings
  <2>10. closing = n
    <3>1. closing \in Closings(file) /\ \A j \in Closings(file) : closing <= j
      BY <2>8
    <3> HIDE DEF closing
    <3> QED BY <2>8, <2>9, <3>1
  <2> HIDE DEF closing
  <2>11. /\ Len(lines) = n - 2
         /\ lines[1] = Entry("outline_id:", id) /\ lines[2] = Entry("title:", 1)
         /\ revision # 0 => lines[3] = Entry("revision:", revision)
    <3>1. /\ Len(lines) = n - 2
          /\ \A i \in 1 .. n - 2 : lines[i] = file[2 + i - 1]
      <4>1. n - 1 \in Nat /\ n - 1 <= Len(file) /\ 2 <= n - 1
        BY <1>2, <2>3, <2>6
      <4>2. /\ Len(SubSeq(file, 2, n - 1)) = n - 1 - 2 + 1
            /\ \A i \in 1 .. n - 1 - 2 + 1 : SubSeq(file, 2, n - 1)[i] = file[2 + i - 1]
        BY <2>6, <4>1, PartOf
      <4> QED BY <2>3, <2>10, <4>2
    <3> HIDE DEF lines
    <3> QED BY <2>3, <2>6, <3>1
  <2>12. body # <<>> /\ body[1] = Blank /\ Tail(body) = text
    <3>1. /\ body \in Texts /\ Len(body) = 1 + Len(text)
          /\ \A i \in 1 .. 1 + Len(text) : body[i] = file[n + i]
      <4>1. /\ SubSeq(file, n + 1, Len(file)) \in Texts
            /\ Len(SubSeq(file, n + 1, Len(file))) = Len(file) - (n + 1) + 1
            /\ \A i \in 1 .. Len(file) - (n + 1) + 1 :
                 SubSeq(file, n + 1, Len(file))[i] = file[n + 1 + i - 1]
        BY <1>2, <2>3, <2>6, PartOf
      <4> QED BY <1>2, <2>3, <2>6, <2>10, <4>1
    <3> HIDE DEF body
    <3>2. body # <<>>
      BY <1>2, <3>1, PlainLines
    <3>3. body[1] = Blank
      BY <1>2, <2>3, <2>6, <3>1
    <3>4. /\ Tail(body) \in Texts /\ Len(Tail(body)) = Len(body) - 1
          /\ \A i \in 1 .. Len(Tail(body)) : Tail(body)[i] = body[i + 1]
      BY <3>1, <3>2, HeadTailProperties DEF Texts
    <3>5. ASSUME NEW i \in 1 .. Len(text) PROVE Tail(body)[i] = text[i]
      <4>1. Tail(body)[i] = body[i + 1]
        BY <1>2, <3>1, <3>4
      <4>2. body[i + 1] = file[n + (i + 1)] /\ n + (i + 1) = n + 1 + i
        BY <1>2, <2>3, <3>1
      <4> QED BY <2>6, <4>1, <4>2
    <3>6. Len(Tail(body)) = Len(text)
      BY <1>2, <3>1, <3>4
    <3>7. Tail(body) = text
      BY <1>1, <3>4, <3>5, <3>6, SameLines
    <3> QED BY <3>2, <3>3, <3>7
  <2> HIDE DEF lines, body
  <2>13. /\ lines[1][1] = "outline_id:" /\ lines[1][3] = id
         /\ lines[2][1] = "title:"
         /\ revision # 0 => lines[3][1] = "revision:" /\ lines[3][3] = revision
    BY <2>11 DEF Entry
  <2>14. Len(lines) = IF revision = 0 THEN 2 ELSE 3
    BY <2>3, <2>11
  <2>15. \A k \in 1 .. Len(lines) : lines[k][1] \in EntryKeys
    BY <2>13, <2>14 DEF EntryKeys, IdKeys
  <2>16. Identified(lines)
    BY <2>13, <2>14 DEF Identified, IdKeys
  <2>17. ValueOf(lines, "outline_id:") = id
    <3> DEFINE given == {k \in 1 .. Len(lines) : lines[k][1] = "outline_id:"}
    <3>1. given = {1}
      BY <2>13, <2>14
    <3>2. (CHOOSE k \in given : \A j \in given : j <= k) = 1
      BY <3>1
    <3> QED BY <2>13, <3>1, <3>2 DEF ValueOf
  <2>18. ValueOf(lines, "outline_url_id:") = 0
    <3>1. {k \in 1 .. Len(lines) : lines[k][1] = "outline_url_id:"} = {}
      BY <2>13, <2>14
    <3> QED BY <3>1 DEF ValueOf
  <2>19. ValueOf(lines, "revision:") = revision
    <3> DEFINE given == {k \in 1 .. Len(lines) : lines[k][1] = "revision:"}
    <3>1. CASE revision = 0
      <4>1. given = {}
        BY <2>13, <2>14, <3>1
      <4> QED BY <3>1, <4>1 DEF ValueOf
    <3>2. CASE revision # 0
      <4>1. given = {3}
        BY <2>13, <2>14, <3>2
      <4>2. (CHOOSE k \in given : \A j \in given : j <= k) = 3
        BY <4>1
      <4> QED BY <2>13, <3>2, <4>1, <4>2 DEF ValueOf
    <3> QED BY <3>1, <3>2
  <2>20. file # <<>> /\ file[1] = Rule /\ Closings(file) # {}
    <3>1. Len(file) # 0 /\ 1 \in 1 .. n
      BY <1>2, <2>3, <2>6
    <3> QED BY <2>3, <2>6, <2>8, <3>1, PlainLines
  <2>21. Split(file) = [front |-> FrontOf(id, revision), found |-> TRUE, body |-> text]
    <3>1. Split(file) =
            [front |-> [id |-> ValueOf(lines, "outline_id:"),
                        urlId |-> ValueOf(lines, "outline_url_id:"),
                        revision |-> ValueOf(lines, "revision:")],
             found |-> TRUE,
             body |-> IF body # <<>> /\ body[1] = Blank THEN Tail(body) ELSE body]
      BY <2>15, <2>16, <2>20 DEF Split, lines, body, closing
    <3> QED BY <2>12, <2>17, <2>18, <2>19, <3>1 DEF FrontOf
  <2>22. /\ Split(file).body = text /\ Split(file).found
         /\ Split(file).front = FrontOf(id, revision)
    BY <2>21
  <2>23. FrontOf(id, revision) = FrontOf(copy.id, copy.revision)
    BY DEF id, revision
  <2> QED BY <1>4, <2>2, <2>22, <2>23
<1> QED BY <1>3, <1>4

-----------------------------------------------------------------------------
(* A section and what is written in its place.                              *)

\* A section ends after its heading, and within the body.
LEMMA EndIsAfter ==
  ASSUME NEW body \in Texts, NEW i \in Headings(body)
  PROVE  /\ i \in 1 .. Len(body)
         /\ End(body, i) \in i + 1 .. Len(body) + 1
<1>1. Len(body) \in Nat
  BY BodyType
<1>2. i \in 1 .. Len(body)
  BY DEF Headings
<1> DEFINE next == {j \in Headings(body) : j > i /\ body[j][2] <= body[i][2]}
<1>3. End(body, i) = IF next = {} THEN Len(body) + 1 ELSE CHOOSE j \in next : \A k \in next : j <= k
  BY DEF End
<1>4. \A j \in next : j \in i + 1 .. Len(body)
  BY <1>1, <1>2 DEF Headings
<1> HIDE DEF next
<1>5. CASE next = {}
  BY <1>1, <1>2, <1>3, <1>5
<1>6. CASE next # {}
  <2>1. next \in SUBSET Nat
    BY <1>1, <1>2, <1>4
  <2>2. \E j \in next : \A k \in next : j <= k
    BY <1>6, <2>1, Least
  <2>3. End(body, i) \in next
    BY <1>3, <1>6, <2>2
  <2> QED BY <1>1, <1>2, <1>4, <2>3
<1> QED BY <1>5, <1>6

\* The blank lines at the end of a text are the last ones, and no more are.
LEMMA TrailingOf ==
  ASSUME NEW text \in Texts
  PROVE  /\ Trailing(text) \in 0 .. Len(text)
         /\ IsBlank(SubSeq(text, Len(text) - Trailing(text) + 1, Len(text)))
         /\ Trailing(text) < Len(text) => text[Len(text) - Trailing(text)] # Blank
<1>1. Len(text) \in Nat
  BY BodyType
<1> DEFINE Last_(n) == n < Len(text) => text[Len(text) - n] # Blank
           stops == {n \in 0 .. Len(text) : Last_(n)}
<1>2. stops \in SUBSET Nat /\ Len(text) \in stops
  BY <1>1
<1>3. PICK n \in stops : \A m \in stops : n <= m
  BY <1>2, Least
<1>4. n \in 0 .. Len(text) /\ Last_(n)
  BY <1>3
<1>5. ASSUME NEW m \in 0 .. n - 1 PROVE text[Len(text) - m] = Blank
  <2>1. m \in 0 .. Len(text) /\ ~(n <= m)
    BY <1>1, <1>4
  <2>2. m \notin stops
    BY <1>3, <2>1
  <2> QED BY <2>1, <2>2
<1> DEFINE end == SubSeq(text, Len(text) - n + 1, Len(text))
<1>6. /\ Len(end) = n
      /\ \A i \in 1 .. n : end[i] = text[Len(text) - n + 1 + i - 1]
  <2>1. Len(text) - n + 1 \in Nat \ {0}
    BY <1>1, <1>4
  <2>2. /\ Len(end) = IF Len(text) - n + 1 <= Len(text) THEN Len(text) - (Len(text) - n + 1) + 1 ELSE 0
        /\ \A i \in 1 .. Len(text) - (Len(text) - n + 1) + 1 : end[i] = text[Len(text) - n + 1 + i - 1]
    BY <1>1, <2>1, PartOf
  <2> HIDE DEF end
  <2> QED BY <1>1, <1>4, <2>2
<1> HIDE DEF end
<1>7. IsBlank(end)
  <2>1. ASSUME NEW i \in 1 .. n PROVE end[i] = Blank
    <3>1. n - i \in 0 .. n - 1 /\ Len(text) - (n - i) = Len(text) - n + 1 + i - 1
      BY <1>1, <1>4
    <3> QED BY <1>5, <1>6, <3>1
  <2> QED BY <1>6, <2>1 DEF IsBlank
<1>8. \E m \in 0 .. Len(text) :
        /\ IsBlank(SubSeq(text, Len(text) - m + 1, Len(text)))
        /\ m < Len(text) => text[Len(text) - m] # Blank
  BY <1>4, <1>7 DEF end
<1> QED BY <1>8 DEF Trailing

\* A text without them has the same other lines, and is blank with the text.
LEMMA TrimmedOf ==
  ASSUME NEW text \in Texts
  PROVE  /\ Trimmed(text) \in Texts
         /\ ToSet(Trimmed(text)) \subseteq ToSet(text)
         /\ IsBlank(Trimmed(text)) => IsBlank(text)
<1> DEFINE n == Trailing(text)
           rest == Len(text) - n
           end == SubSeq(text, rest + 1, Len(text))
           trimmed == SubSeq(text, 1, rest)
<1>1. Len(text) \in Nat /\ n \in 0 .. Len(text) /\ IsBlank(end) /\ (n < Len(text) => text[rest] # Blank)
  BY BodyType, TrailingOf
<1>2. Trimmed(text) = trimmed
  BY DEF Trimmed
<1> HIDE DEF n
<1>3. rest \in Nat /\ rest <= Len(text) /\ rest + 1 \in Nat \ {0}
  BY <1>1
<1>4. /\ trimmed \in Texts /\ Len(trimmed) = (IF 1 <= rest THEN rest - 1 + 1 ELSE 0)
      /\ \A i \in 1 .. rest - 1 + 1 : trimmed[i] = text[1 + i - 1]
  BY <1>3, PartOf
<1>5. /\ Len(end) = (IF rest + 1 <= Len(text) THEN Len(text) - (rest + 1) + 1 ELSE 0)
      /\ \A i \in 1 .. Len(text) - (rest + 1) + 1 : end[i] = text[rest + 1 + i - 1]
  BY <1>1, <1>3, PartOf
<1>6. ToSet(trimmed) \subseteq ToSet(text)
  BY <1>3, LinesOfPart
<1> HIDE DEF rest, end, trimmed
<1>7. ASSUME IsBlank(trimmed) PROVE IsBlank(text)
  <2>1. rest = 0
    <3> SUFFICES ASSUME rest # 0 PROVE FALSE
      OBVIOUS
    <3>1. rest \in 1 .. Len(trimmed) /\ rest \in 1 .. rest - 1 + 1
      BY <1>3, <1>4
    <3>2. trimmed[rest] = text[1 + rest - 1] /\ 1 + rest - 1 = rest
      BY <1>3, <1>4, <3>1
    <3>3. text[rest] = Blank
      BY <1>7, <3>1, <3>2 DEF IsBlank
    <3>4. n < Len(text)
      BY <1>1, <1>3 DEF rest
    <3> QED BY <1>1, <3>3, <3>4
  <2>2. ASSUME NEW i \in 1 .. Len(text) PROVE text[i] = Blank
    <3>1. Len(end) = Len(text) /\ end[i] = text[rest + 1 + i - 1] /\ rest + 1 + i - 1 = i
      BY <1>1, <1>5, <2>1
    <3> QED BY <1>1, <3>1 DEF IsBlank
  <2> QED BY <2>2 DEF IsBlank
<1> QED BY <1>2, <1>4, <1>6, <1>7

\* A new section has the lines of its text and blank ones, and is no blank
\* one where its text is none.
LEMMA NewSectionOf ==
  ASSUME NEW body \in Texts, NEW i \in Headings(body), NEW text \in Texts
  PROVE  /\ NewSection(body, i, text) \in Texts
         /\ Rule \in ToSet(NewSection(body, i, text)) => Rule \in ToSet(text)
         /\ IsBlank(NewSection(body, i, text)) => IsBlank(text)
<1> DEFINE section == SectionText(body, i)
           n == Trailing(section)
           blanks == [k \in 1 .. n |-> Blank]
           trimmed == Trimmed(text)
<1>1. Len(body) \in Nat /\ i \in 1 .. Len(body) /\ End(body, i) \in i + 1 .. Len(body) + 1
  BY BodyType, EndIsAfter
<1>2. section \in Texts
  <2>1. i \in Nat \ {0} /\ End(body, i) - 1 \in Nat /\ End(body, i) - 1 <= Len(body)
    BY <1>1
  <2> QED BY <2>1, PartOf DEF SectionText
<1> HIDE DEF section
<1>3. n \in Nat
  BY <1>2, TrailingOf, BodyType
<1> HIDE DEF n
<1>4. blanks \in Texts /\ Len(blanks) = n /\ \A k \in 1 .. n : blanks[k] = Blank
  BY <1>3, PlainLines DEF Texts
<1>5. Rule \notin ToSet(blanks)
  <2>1. DOMAIN blanks = 1 .. n
    OBVIOUS
  <2> HIDE DEF blanks
  <2> QED BY <1>4, <2>1, PlainLines DEF ToSet
<1>6. trimmed \in Texts /\ ToSet(trimmed) \subseteq ToSet(text) /\ (IsBlank(trimmed) => IsBlank(text))
  BY TrimmedOf
<1>7. NewSection(body, i, text) = trimmed \o blanks
  BY DEF NewSection, n, section
<1> HIDE DEF blanks, trimmed
<1>8. /\ trimmed \o blanks \in Texts
      /\ ToSet(trimmed \o blanks) = ToSet(trimmed) \cup ToSet(blanks)
      /\ IsBlank(trimmed \o blanks) <=> IsBlank(trimmed) /\ IsBlank(blanks)
  BY <1>4, <1>6, Joining, LinesOfBoth
<1> HIDE DEF n, section
<1>9. Rule \in ToSet(trimmed \o blanks) => Rule \in ToSet(text)
  BY <1>5, <1>6, <1>8
<1>10. IsBlank(trimmed \o blanks) => IsBlank(text)
  BY <1>6, <1>8
<1> QED BY <1>7, <1>8, <1>9, <1>10

\* What widening arrives at is around the section, and within the body.
LEMMA WideningOf ==
  ASSUME MarkdownAssumption, NEW body \in Texts, NEW i \in Headings(body), NEW k \in Widenings(body, i)
  PROVE  /\ Widened(body, i, k).low \in 1 .. i
         /\ Widened(body, i, k).high \in End(body, i) .. Len(body) + 1
         /\ IsUnique(body, Widened(body, i, k))
<1> DEFINE back == IF k < i THEN k ELSE i - 1
<1>1. Len(body) \in Nat /\ i \in 1 .. Len(body) /\ End(body, i) \in i + 1 .. Len(body) + 1
  BY BodyType, EndIsAfter
<1>2. k \in Nat /\ Widened(body, i, k).high <= Len(body) + 1 /\ IsUnique(body, Widened(body, i, k))
  BY DEF Widenings, MarkdownAssumption
<1>3. /\ Widened(body, i, k).low = i - back
      /\ Widened(body, i, k).high = End(body, i) + (k - back)
  BY DEF Widened
<1> QED BY <1>1, <1>2, <1>3

\* What an edit leaves: the body with the section replaced.
WithSection(body, i, new) == SubSeq(body, 1, i - 1) \o new \o SubSeq(body, End(body, i), Len(body))

\* The parts around a section.
LEMMA AroundOf ==
  ASSUME NEW body \in Texts, NEW i \in Headings(body)
  PROVE  /\ SubSeq(body, 1, i - 1) \in Texts /\ Len(SubSeq(body, 1, i - 1)) = i - 1
         /\ SubSeq(body, End(body, i), Len(body)) \in Texts
         /\ Len(SubSeq(body, End(body, i), Len(body))) = Len(body) + 1 - End(body, i)
<1>1. Len(body) \in Nat /\ i \in 1 .. Len(body) /\ End(body, i) \in i + 1 .. Len(body) + 1
  BY BodyType, EndIsAfter
<1>2. /\ SubSeq(body, 1, i - 1) \in Texts
      /\ Len(SubSeq(body, 1, i - 1)) = IF 1 <= i - 1 THEN i - 1 - 1 + 1 ELSE 0
  <2>1. i - 1 \in Nat /\ i - 1 <= Len(body) /\ 1 \in Nat \ {0}
    BY <1>1
  <2> QED BY <2>1, PartOf
<1>3. /\ SubSeq(body, End(body, i), Len(body)) \in Texts
      /\ Len(SubSeq(body, End(body, i), Len(body)))
           = IF End(body, i) <= Len(body) THEN Len(body) - End(body, i) + 1 ELSE 0
  <2>1. End(body, i) \in Nat \ {0}
    BY <1>1
  <2> QED BY <1>1, <2>1, PartOf
<1> QED BY <1>1, <1>2, <1>3

\* An anchor, and what it holds around lines i .. end - 1 sent back with it.
Patched(body, low, i, new, end, high) ==
  SubSeq(body, 1, low - 1)
    \o (SubSeq(body, low, i - 1) \o new \o SubSeq(body, end, high - 1))
    \o SubSeq(body, high, Len(body))
  = SubSeq(body, 1, i - 1) \o new \o SubSeq(body, end, Len(body))

\* Those lines are replaced, and no others.
LEMMA PatchedParts ==
  ASSUME NEW body \in Texts, NEW new \in Texts,
         NEW low \in Nat \ {0}, NEW i \in Nat, NEW end \in Nat, NEW high \in Nat,
         low <= i, i < end, end <= high, high <= Len(body) + 1
  PROVE  Patched(body, low, i, new, end, high)
<1> DEFINE before == SubSeq(body, 1, low - 1)
           lead == SubSeq(body, low, i - 1)
           trail == SubSeq(body, end, high - 1)
           after == SubSeq(body, high, Len(body))
<1>0. Len(body) \in Nat
  BY BodyType
<1>1. before \in Texts /\ lead \in Texts
  <2>1. low - 1 \in Nat /\ low - 1 <= Len(body) /\ i - 1 \in Nat /\ i - 1 <= Len(body) /\ 1 \in Nat \ {0}
    BY <1>0
  <2> QED BY <2>1, PartOf
<1>2. trail \in Texts /\ after \in Texts
  <2>1. /\ high - 1 \in Nat /\ high - 1 <= Len(body) /\ Len(body) <= Len(body)
        /\ end \in Nat \ {0} /\ high \in Nat \ {0}
    BY <1>0
  <2> QED BY <1>0, <2>1, PartOf
<1>3. before \o lead = SubSeq(body, 1, i - 1)
  <2>1. i - 1 \in Nat /\ 1 \in Nat \ {0} /\ 1 <= low /\ low <= i - 1 + 1 /\ i - 1 <= Len(body)
    BY <1>0
  <2> QED BY <2>1, Adjacent
<1>4. trail \o after = SubSeq(body, end, Len(body))
  <2>1. end \in Nat \ {0} /\ high \in Nat \ {0} /\ Len(body) <= Len(body)
    BY <1>0
  <2> QED BY <1>0, <2>1, Adjacent
<1> HIDE DEF before, lead, trail, after
<1>5. before \o (lead \o new \o trail) \o after = (before \o lead) \o new \o (trail \o after)
  <2>1. Regrouped(before, lead, new, trail, after)
    BY <1>1, <1>2, FiveParts
  <2> QED BY <2>1 DEF Regrouped
<1>6. before \o (lead \o new \o trail) \o after
        = SubSeq(body, 1, i - 1) \o new \o SubSeq(body, end, Len(body))
  BY <1>3, <1>4, <1>5
<1> QED BY <1>6 DEF before, lead, trail, after, Patched

(* An edit replaces the section and nothing else: its anchor stands in one  *)
(* place, and what the anchor holds around the section is sent back.        *)
LEMMA EditReplaces ==
  ASSUME MarkdownAssumption, NEW body \in Texts, NEW i \in Headings(body), NEW new \in Texts,
         NEW edit, edit = EditOf(body, i, new)
  PROVE  /\ edit.mode \in {"replace", "patch"}
         /\ edit.mode = "replace" => edit.text = WithSection(body, i, new)
         /\ edit.mode = "patch" =>
              /\ Occurrences(body, edit.find) # {}
              /\ \A at \in Occurrences(body, edit.find) : Applied(body, edit, at) = WithSection(body, i, new)
<1> DEFINE end == End(body, i)
           steps == Widenings(body, i)
           chosen == CHOOSE k \in steps : \A j \in steps : k <= j
           range == Widened(body, i, chosen)
<1>1. Len(body) \in Nat /\ i \in 1 .. Len(body) /\ end \in i + 1 .. Len(body) + 1
  BY BodyType, EndIsAfter
<1>2. CASE steps = {}
  BY <1>2 DEF EditOf, WithSection
<1>3. CASE steps # {}
  <2>1. steps \in SUBSET Nat
    BY DEF Widenings, MarkdownAssumption
  <2>2. \E k \in steps : \A j \in steps : k <= j
    BY <1>3, <2>1, Least
  <2>3. chosen \in steps
    BY <2>2
  <2> DEFINE low == range.low
             high == range.high
  <2>4. low \in 1 .. i /\ high \in end .. Len(body) + 1 /\ IsUnique(body, range)
    <3> HIDE DEF chosen
    <3> QED BY <2>3, WideningOf
  <2>5. edit = [mode |-> "patch", find |-> SubSeq(body, low, high - 1),
                text |-> SubSeq(body, low, i - 1) \o new \o SubSeq(body, end, high - 1)]
    BY <1>3 DEF EditOf
  <2> HIDE DEF range
  <2>6. Occurrences(body, edit.find) = {low}
    <3> DEFINE found == Occurrences(body, SubSeq(body, low, high - 1))
    <3>1. Cardinality(found) = 1
      BY <2>4 DEF IsUnique
    <3>2. Len(SubSeq(body, low, high - 1)) = high - low /\ low <= high - 1
      <4>1. low \in Nat \ {0} /\ high - 1 \in Nat /\ high - 1 <= Len(body) /\ low <= high - 1
        BY <1>1, <2>4
      <4>2. Len(SubSeq(body, low, high - 1)) = IF low <= high - 1 THEN high - 1 - low + 1 ELSE 0
        BY <4>1, PartOf
      <4>3. low \in Nat /\ high \in Nat
        BY <1>1, <2>4
      <4> QED BY <4>1, <4>2, <4>3
    <3>3. low \in found
      <4>1. low + (high - low) - 1 = high - 1 /\ low \in 1 .. Len(body) - (high - low) + 1
        BY <1>1, <2>4
      <4> QED BY <3>2, <4>1 DEF Occurrences
    <3>4. IsFiniteSet(found)
      <4>1. found \subseteq 1 .. Len(body)
        BY <1>1, <2>4, <3>2 DEF Occurrences
      <4>2. IsFiniteSet(1 .. Len(body))
        BY <1>1, FS_Interval
      <4> QED BY <4>1, <4>2, FS_Subset
    <3> HIDE DEF found
    <3>5. \E x : found = {x}
      BY <3>1, <3>4, FS_Singleton
    <3> QED BY <2>5, <3>3, <3>5 DEF found
  <2> DEFINE before == SubSeq(body, 1, low - 1)
             lead == SubSeq(body, low, i - 1)
             trail == SubSeq(body, end, high - 1)
             after == SubSeq(body, high, Len(body))
  <2>7. Applied(body, edit, low) = before \o (lead \o new \o trail) \o after
    <3>1. Len(edit.find) = high - low
      <4>1. low \in Nat \ {0} /\ high - 1 \in Nat /\ high - 1 <= Len(body) /\ low <= high - 1
        BY <1>1, <2>4
      <4>2. Len(SubSeq(body, low, high - 1)) = IF low <= high - 1 THEN high - 1 - low + 1 ELSE 0
        BY <4>1, PartOf
      <4> QED BY <2>5, <4>1, <4>2, <2>4
    <3>2. low + Len(edit.find) = high
      BY <1>1, <2>4, <3>1
    <3>3. edit.text = lead \o new \o trail
      <4> DEFINE text == SubSeq(body, low, i - 1) \o new \o SubSeq(body, end, high - 1)
                 find == SubSeq(body, low, high - 1)
      <4>1. edit = [mode |-> "patch", find |-> find, text |-> text]
        BY <2>5
      <4> HIDE DEF text, find
      <4>2. edit.text = text
        BY <4>1
      <4> QED BY <4>2 DEF text
    <3>4. Applied(body, edit, low) = before \o edit.text \o SubSeq(body, low + Len(edit.find), Len(body))
      BY DEF Applied
    <3> QED BY <3>2, <3>3, <3>4
  <2>8. before \o (lead \o new \o trail) \o after
          = SubSeq(body, 1, i - 1) \o new \o SubSeq(body, end, Len(body))
    <3>1. /\ low \in Nat \ {0} /\ end \in Nat /\ high \in Nat /\ i \in Nat
          /\ low <= i /\ i < end /\ end <= high /\ high <= Len(body) + 1
      BY <1>1, <2>4
    <3>2. Patched(body, low, i, new, end, high)
      <4> HIDE DEF low, high, end
      <4> QED BY <3>1, PatchedParts
    <3> QED BY <3>2 DEF Patched
  <2>12. Applied(body, edit, low) = WithSection(body, i, new)
    BY <2>7, <2>8 DEF WithSection
  <2>13. edit.mode = "patch"
    BY <2>5
  <2> QED BY <2>6, <2>12, <2>13
<1> QED BY <1>2, <1>3

\* Two bodies are the same before a section of the first and after it.
SameOutside(body, i, result) ==
  LET rest == Len(body) + 1 - End(body, i)
  IN  /\ SubSeq(result, 1, i - 1) = SubSeq(body, 1, i - 1)
      /\ rest <= Len(result)
      /\ SubSeq(result, Len(result) - rest + 1, Len(result)) = SubSeq(body, End(body, i), Len(body))

\* A body and the body with the section replaced are.
LEMMA ReplacedOutside ==
  ASSUME NEW body \in Texts, NEW i \in Headings(body), NEW new \in Texts
  PROVE  SameOutside(body, i, WithSection(body, i, new))
<1> DEFINE result == WithSection(body, i, new)
           rest == Len(body) + 1 - End(body, i)
           before == SubSeq(body, 1, i - 1)
           after == SubSeq(body, End(body, i), Len(body))
           head == before \o new
<1>1. /\ Len(body) \in Nat /\ i \in 1 .. Len(body) /\ End(body, i) \in i + 1 .. Len(body) + 1
      /\ Len(new) \in Nat /\ rest \in Nat
  BY BodyType, EndIsAfter
<1>2. before \in Texts /\ Len(before) = i - 1 /\ after \in Texts /\ Len(after) = rest
  BY AroundOf
<1>3. result = head \o after
  BY DEF WithSection
<1> HIDE DEF before, after, result, rest
<1>4. head \in Texts /\ Len(head) = i - 1 + Len(new) /\ \A k \in 1 .. i - 1 : head[k] = before[k]
  <2>1. head \in Texts /\ Len(head) = Len(before) + Len(new) /\ \A k \in 1 .. Len(before) : head[k] = before[k]
    BY <1>2, Joining
  <2> QED BY <1>2, <2>1
<1> HIDE DEF head
<1>5. /\ result \in Texts /\ Len(result) = Len(head) + rest
      /\ \A k \in 1 .. Len(head) : result[k] = head[k]
      /\ \A k \in 1 .. rest : result[Len(head) + k] = after[k]
      /\ Len(head) \in Nat
  <2>1. /\ head \o after \in Texts /\ Len(head \o after) = Len(head) + Len(after)
        /\ \A k \in 1 .. Len(head) : (head \o after)[k] = head[k]
        /\ \A k \in 1 .. Len(after) : (head \o after)[Len(head) + k] = after[k]
    BY <1>2, <1>4, Joining
  <2>2. Len(head) \in Nat
    BY <1>4, BodyType
  <2> QED BY <1>2, <1>3, <2>1, <2>2
<1>6. SubSeq(result, 1, i - 1) = before
  <2> DEFINE part == SubSeq(result, 1, i - 1)
  <2>1. /\ part \in Texts /\ Len(part) = (IF 1 <= i - 1 THEN i - 1 - 1 + 1 ELSE 0)
        /\ \A k \in 1 .. i - 1 - 1 + 1 : part[k] = result[1 + k - 1]
    <3>1. i - 1 \in Nat /\ i - 1 <= Len(result) /\ 1 \in Nat \ {0}
      BY <1>1, <1>4, <1>5
    <3> QED BY <1>5, <3>1, PartOf
  <2> HIDE DEF part
  <2>2. Len(part) = Len(before)
    BY <1>1, <1>2, <2>1
  <2>3. ASSUME NEW k \in 1 .. Len(part) PROVE part[k] = before[k]
    <3>1. part[k] = result[1 + k - 1] /\ 1 + k - 1 = k /\ k \in 1 .. i - 1 /\ k \in 1 .. Len(head)
      BY <1>1, <1>2, <1>4, <2>1, <2>2
    <3> QED BY <1>4, <1>5, <3>1
  <2>4. part = before
    BY <1>2, <2>1, <2>2, <2>3, SameLines
  <2> QED BY <2>4 DEF part
<1>7. SubSeq(result, Len(result) - rest + 1, Len(result)) = after
  <2> DEFINE part == SubSeq(result, Len(head) + 1, Len(result))
  <2>1. Len(result) - rest + 1 = Len(head) + 1 /\ Len(head) \in Nat /\ Len(result) \in Nat
    <3>1. rest \in Nat
      BY <1>1
    <3> QED BY <1>5, <3>1
  <2>2. /\ part \in Texts /\ Len(part) = (IF Len(head) + 1 <= Len(result) THEN Len(result) - (Len(head) + 1) + 1 ELSE 0)
        /\ \A k \in 1 .. Len(result) - (Len(head) + 1) + 1 : part[k] = result[Len(head) + 1 + k - 1]
    BY <1>5, <2>1, PartOf
  <2> HIDE DEF part
  <2>0. rest \in Nat
    BY <1>1
  <2> DEFINE h == Len(head)
             r == Len(result)
  <2>6. h \in Nat /\ r \in Nat /\ r = h + rest /\ Len(after) = rest
    BY <1>2, <1>5, <2>1
  <2>7. /\ Len(part) = (IF h + 1 <= r THEN r - (h + 1) + 1 ELSE 0)
        /\ \A k \in 1 .. r - (h + 1) + 1 : part[k] = result[h + 1 + k - 1]
    BY <2>2
  <2>8. \A k \in 1 .. rest : result[h + k] = after[k]
    BY <1>5
  <2> HIDE DEF h, r
  <2>3. Len(part) = Len(after)
    BY <2>0, <2>6, <2>7
  <2>4. ASSUME NEW k \in 1 .. Len(part) PROVE part[k] = after[k]
    <3>1. /\ part[k] = result[h + 1 + k - 1] /\ h + 1 + k - 1 = h + k
          /\ k \in 1 .. rest
      BY <2>0, <2>3, <2>6, <2>7
    <3> QED BY <2>8, <3>1
  <2>5. part = after
    BY <1>2, <2>2, <2>3, <2>4, SameLines
  <2> QED BY <2>1, <2>5 DEF part
<1>8. rest <= Len(result)
  BY <1>1, <1>4, <1>5
<1>9. /\ SubSeq(result, 1, i - 1) = SubSeq(body, 1, i - 1) /\ rest <= Len(result)
      /\ SubSeq(result, Len(result) - rest + 1, Len(result)) = SubSeq(body, End(body, i), Len(body))
  BY <1>6, <1>7, <1>8 DEF before, after
<1> QED BY <1>9 DEF result, rest, SameOutside

\* The text of an edit has lines of the body and of the new section, and is
\* blank only with the new section.
LEMMA EditKeeps ==
  ASSUME MarkdownAssumption, NEW body \in Texts, NEW i \in Headings(body), NEW new \in Texts,
         NEW edit, edit = EditOf(body, i, new)
  PROVE  /\ edit.mode \in {"replace", "patch"} /\ edit.text \in Texts /\ edit.find \in Texts
         /\ ToSet(edit.text) \subseteq ToSet(body) \cup ToSet(new)
         /\ IsBlank(edit.text) => IsBlank(new)
<1> DEFINE end == End(body, i)
           steps == Widenings(body, i)
           chosen == CHOOSE k \in steps : \A j \in steps : k <= j
           range == Widened(body, i, chosen)
<1>1. Len(body) \in Nat /\ i \in 1 .. Len(body) /\ end \in i + 1 .. Len(body) + 1
  BY BodyType, EndIsAfter
<1>2. ASSUME NEW before \in Texts, NEW after \in Texts,
             ToSet(before) \subseteq ToSet(body), ToSet(after) \subseteq ToSet(body)
      PROVE  /\ before \o new \o after \in Texts
             /\ ToSet(before \o new \o after) \subseteq ToSet(body) \cup ToSet(new)
             /\ IsBlank(before \o new \o after) => IsBlank(new)
  <2> DEFINE head == before \o new
  <2>1. /\ head \in Texts /\ ToSet(head) = ToSet(before) \cup ToSet(new)
        /\ IsBlank(head) <=> IsBlank(before) /\ IsBlank(new)
    BY Joining, LinesOfBoth
  <2> HIDE DEF head
  <2>2. /\ head \o after \in Texts /\ ToSet(head \o after) = ToSet(head) \cup ToSet(after)
        /\ IsBlank(head \o after) <=> IsBlank(head) /\ IsBlank(after)
    BY <2>1, Joining, LinesOfBoth
  <2>3. head \o after = before \o new \o after
    BY DEF head
  <2> QED BY <1>2, <2>1, <2>2, <2>3
<1>3. CASE steps = {}
  <2> DEFINE before == SubSeq(body, 1, i - 1)
             after == SubSeq(body, end, Len(body))
  <2>1. edit = [mode |-> "replace", find |-> <<>>, text |-> before \o new \o after]
    BY <1>3 DEF EditOf
  <2>2. /\ before \in Texts /\ ToSet(before) \subseteq ToSet(body)
        /\ after \in Texts /\ ToSet(after) \subseteq ToSet(body)
    <3>1. /\ 1 \in Nat \ {0} /\ i - 1 \in Nat /\ i - 1 <= Len(body) /\ end \in Nat \ {0}
          /\ Len(body) <= Len(body)
      BY <1>1
    <3> HIDE DEF end
    <3> QED BY <1>1, <3>1, PartOf, LinesOfPart
  <2> HIDE DEF before, after
  <2>3. /\ before \o new \o after \in Texts
        /\ ToSet(before \o new \o after) \subseteq ToSet(body) \cup ToSet(new)
        /\ IsBlank(before \o new \o after) => IsBlank(new)
    BY <1>2, <2>2
  <2> DEFINE text == before \o new \o after
  <2>4. edit.mode = "replace" /\ edit.find = <<>> /\ edit.text = text
    BY <2>1
  <2> HIDE DEF text
  <2>5. text \in Texts /\ ToSet(text) \subseteq ToSet(body) \cup ToSet(new) /\ (IsBlank(text) => IsBlank(new))
    BY <2>3 DEF text
  <2> QED BY <2>4, <2>5, PlainLines
<1>4. CASE steps # {}
  <2>1. steps \in SUBSET Nat
    BY DEF Widenings, MarkdownAssumption
  <2>2. \E k \in steps : \A j \in steps : k <= j
    BY <1>4, <2>1, Least
  <2>3. chosen \in steps
    BY <2>2
  <2> DEFINE low == range.low
             high == range.high
             before == SubSeq(body, low, i - 1)
             after == SubSeq(body, end, high - 1)
             find == SubSeq(body, low, high - 1)
  <2>4. low \in 1 .. i /\ high \in end .. Len(body) + 1
    <3> HIDE DEF chosen
    <3> QED BY <2>3, WideningOf
  <2>5. edit = [mode |-> "patch", find |-> find, text |-> before \o new \o after]
    BY <1>4 DEF EditOf
  <2>6. /\ before \in Texts /\ ToSet(before) \subseteq ToSet(body)
        /\ after \in Texts /\ ToSet(after) \subseteq ToSet(body) /\ find \in Texts
    <3>1. /\ low \in Nat \ {0} /\ i - 1 \in Nat /\ i - 1 <= Len(body) /\ end \in Nat \ {0}
          /\ high - 1 \in Nat /\ high - 1 <= Len(body)
      BY <1>1, <2>4
    <3> HIDE DEF end, low, high
    <3> QED BY <1>1, <3>1, PartOf, LinesOfPart
  <2> HIDE DEF before, after, find
  <2>7. /\ before \o new \o after \in Texts
        /\ ToSet(before \o new \o after) \subseteq ToSet(body) \cup ToSet(new)
        /\ IsBlank(before \o new \o after) => IsBlank(new)
    BY <1>2, <2>6
  <2> DEFINE text == before \o new \o after
  <2>8. edit.mode = "patch" /\ edit.find = find /\ edit.text = text
    BY <2>5
  <2> HIDE DEF text
  <2>9. text \in Texts /\ ToSet(text) \subseteq ToSet(body) \cup ToSet(new) /\ (IsBlank(text) => IsBlank(new))
    BY <2>7 DEF text
  <2> QED BY <2>6, <2>8, <2>9
<1> QED BY <1>3, <1>4

\* The same of what the server makes of it.
LEMMA AppliedKeeps ==
  ASSUME NEW body \in Texts, NEW edit, edit.find \in Texts, edit.text \in Texts,
         NEW at \in Occurrences(body, edit.find)
  PROVE  /\ Applied(body, edit, at) \in Texts
         /\ ToSet(Applied(body, edit, at)) \subseteq ToSet(body) \cup ToSet(edit.text)
         /\ IsBlank(Applied(body, edit, at)) => IsBlank(edit.text)
<1> DEFINE text == edit.text
           before == SubSeq(body, 1, at - 1)
           after == SubSeq(body, at + Len(edit.find), Len(body))
           head == before \o text
           result == head \o after
<1>0. Len(body) \in Nat /\ Len(edit.find) \in Nat
  BY BodyType
<1>1. at \in 1 .. Len(body) - Len(edit.find) + 1
  BY DEF Occurrences
<1>2. /\ before \in Texts /\ ToSet(before) \subseteq ToSet(body)
      /\ after \in Texts /\ ToSet(after) \subseteq ToSet(body)
  <2>1. /\ 1 \in Nat \ {0} /\ at - 1 \in Nat /\ at - 1 <= Len(body)
        /\ at + Len(edit.find) \in Nat \ {0} /\ Len(body) <= Len(body)
    BY <1>0, <1>1
  <2> QED BY <1>0, <2>1, PartOf, LinesOfPart
<1>3. Applied(body, edit, at) = result
  BY DEF Applied
<1>4. text \in Texts
  OBVIOUS
<1> HIDE DEF before, after, text
<1>5. /\ head \in Texts /\ ToSet(head) = ToSet(before) \cup ToSet(text)
      /\ IsBlank(head) <=> IsBlank(before) /\ IsBlank(text)
  BY <1>2, <1>4, Joining, LinesOfBoth
<1> HIDE DEF head
<1>6. /\ result \in Texts /\ ToSet(result) = ToSet(head) \cup ToSet(after)
      /\ IsBlank(result) <=> IsBlank(head) /\ IsBlank(after)
  BY <1>2, <1>5, Joining, LinesOfBoth
<1> HIDE DEF result
<1>7. ToSet(result) \subseteq ToSet(body) \cup ToSet(text) /\ (IsBlank(result) => IsBlank(text))
  BY <1>2, <1>5, <1>6
<1> QED BY <1>3, <1>6, <1>7 DEF text

\* A line that is inserted leaves the others.
LEMMA InsertKeeps ==
  ASSUME NEW body \in Texts, NEW at \in 1 .. Len(body) + 1, NEW line \in BodyLines
  PROVE  /\ InsertAt(body, at, line) \in Texts
         /\ ToSet(body) \subseteq ToSet(InsertAt(body, at, line))
<1> DEFINE before == SubSeq(body, 1, at - 1)
           after == SubSeq(body, at, Len(body))
           one == <<line>>
           head == before \o one
           result == head \o after
<1>0. Len(body) \in Nat
  BY BodyType
<1>1. /\ 1 \in Nat \ {0} /\ at - 1 \in Nat /\ at - 1 <= Len(body) /\ at \in Nat \ {0}
      /\ Len(body) <= Len(body) /\ 1 <= at /\ at <= Len(body) + 1
  BY <1>0
<1>2. before \in Texts /\ after \in Texts /\ one \in Texts
  BY <1>0, <1>1, PartOf, OneLine
<1>3. before \o after = body
  <2>1. before \o after = SubSeq(body, 1, Len(body))
    BY <1>0, <1>1, Adjacent
  <2>2. SubSeq(body, 1, Len(body)) = body
    BY SubSeqFull DEF Texts
  <2> QED BY <2>1, <2>2
<1>4. InsertAt(body, at, line) = result
  BY DEF InsertAt
<1> HIDE DEF before, after, one
<1>5. ToSet(body) = ToSet(before) \cup ToSet(after)
  <2>1. ToSet(before \o after) = ToSet(before) \cup ToSet(after)
    BY <1>2, LinesOfBoth
  <2> QED BY <1>3, <2>1
<1>6. head \in Texts /\ ToSet(head) = ToSet(before) \cup ToSet(one)
  BY <1>2, Joining, LinesOfBoth
<1> HIDE DEF head
<1>7. result \in Texts /\ ToSet(result) = ToSet(head) \cup ToSet(after)
  BY <1>2, <1>6, Joining, LinesOfBoth
<1> QED BY <1>4, <1>5, <1>6, <1>7

\* An address that matches with its case matches without.
LEMMA HitsFold ==
  ASSUME NEW body, NEW address
  PROVE  Resolve(body, address) \subseteq Hits(body, address, TRUE)
<1>1. \A a, b : Same(a, b, FALSE) => Same(a, b, TRUE)
  BY DEF Same
<1>2. \A i : Matches(body, i, address, FALSE) => Matches(body, i, address, TRUE)
  BY <1>1 DEF Matches
<1>3. Hits(body, address, FALSE) \subseteq Hits(body, address, TRUE)
  BY <1>2 DEF Hits
<1> QED BY <1>3 DEF Resolve

\* The headings an address names are headings.
LEMMA ResolveType ==
  ASSUME NEW body, NEW address
  PROVE  Resolve(body, address) \subseteq Headings(body)
BY DEF Resolve, Hits

-----------------------------------------------------------------------------
(* The invariant.                                                           *)

DocRecords == [body : Texts, revision : Nat \ {0}]
Calling == updateStage \in {"read", "send"}
SectionKinds == {"section", "delete_section"}

UpdateTypes ==
  /\ updateStage \in {"off", "idle", "read", "send"}
  /\ updateStage = "off" => docs = <<>> /\ copy = NoCopy
  /\ updateStage # "off" => docs \in [Documents -> DocRecords]
  /\ server \in [reports : BOOLEAN, honours : BOOLEAN]
  /\ copy = NoCopy \/ copy.id \in Documents
  /\ copy.revision \in Nat /\ copy.body \in Texts
  /\ update.kind \in Kinds \cup {"none"}
  /\ Calling => update.id \in Documents /\ update.text \in Texts /\ update.pin \in Nat
  /\ Calling /\ update.kind = "patch" => copy.body # <<>>
  /\ plan.mode \in Kinds \cup {"none"}
  /\ plan.text \in Texts /\ plan.find \in Texts /\ plan.pinned \in Nat
  /\ edits \in 0 .. MaxEdits /\ updates \in 0 .. MaxUpdates

(* The copy is the document as it was at its revision.                      *)
CopyIsTrue ==
  copy.revision # 0 =>
    /\ server.reports /\ copy.id \in Documents
    /\ copy.revision <= docs[copy.id].revision
    /\ copy.revision = docs[copy.id].revision => copy.body = docs[copy.id].body

(* A revision is asserted of the document it was exported from, and what is *)
(* asserted is what the write is sent with.                                 *)
Asserted ==
  Calling /\ update.pin # 0 =>
    /\ update.id = copy.id /\ update.pin = copy.revision
    /\ updateStage = "send" => plan.pinned = update.pin

(* What is sent has the lines of the caller's text and of the document.     *)
TextIsKept ==
  /\ Calling /\ NeedsBody(update.kind) => ~IsBlank(update.text) /\ Rule \notin ToSet(update.text)
  /\ updateStage = "send" /\ NeedsBody(update.kind) =>
       /\ ~IsBlank(plan.text)
       /\ Rule \in ToSet(plan.text) => Rule \in ToSet(docs[update.id].body)

IsPlanOf(i) ==
  LET edit == SectionEdit(docs[update.id].body, i)
  IN  plan.mode = edit.mode /\ plan.find = edit.find /\ plan.text = edit.text

(* A change to a section that is sent with the revision of the document is  *)
(* the one its body asks for.                                               *)
PlanIsFresh ==
  updateStage = "send" /\ update.kind \in SectionKinds /\ server.reports =>
    /\ plan.pinned # 0 /\ plan.pinned <= docs[update.id].revision
    /\ plan.pinned = docs[update.id].revision =>
         Cardinality(Named) = 1 /\ \E i \in Named : IsPlanOf(i)

UpdateInv ==
  UpdateTypes /\ CopyIsTrue /\ Asserted /\ RightDocument /\ TextIsKept /\ PlanIsFresh

\* The fields of a document.
LEMMA DocumentOf ==
  ASSUME NEW id \in Documents, docs \in [Documents -> DocRecords]
  PROVE  docs[id].body \in Texts /\ docs[id].revision \in Nat \ {0} /\ docs[id] \in DocRecords
BY DEF DocRecords

\* A document with a new body.
LEMMA DocumentSet ==
  ASSUME docs \in [Documents -> DocRecords], NEW id \in Documents, NEW body \in Texts,
         docs' = [docs EXCEPT ![id] = [body |-> body, revision |-> docs[id].revision + 1]]
  PROVE  /\ docs' \in [Documents -> DocRecords]
         /\ docs'[id].body = body /\ docs'[id].revision = docs[id].revision + 1
         /\ \A d \in Documents : d # id => docs'[d] = docs[d]
<1> DEFINE new == [body |-> body, revision |-> docs[id].revision + 1]
<1>1. new \in DocRecords /\ new.body = body /\ new.revision = docs[id].revision + 1
  BY DocumentOf DEF DocRecords
<1> HIDE DEF new
<1>2. docs' = [docs EXCEPT ![id] = new]
  BY DEF new
<1> QED BY <1>1, <1>2

\* There are no documents before there are some.
LEMMA UpdateInitInv ==
  ASSUME UpdateAssumption, UpdateInit
  PROVE  UpdateInv
<1> USE DEF UpdateInit, NoCopy, NoPlan, NoUpdate, Calling
<1>1. UpdateTypes
  BY PlainLines DEF UpdateTypes, UpdateAssumption
<1>2. CopyIsTrue /\ Asserted /\ RightDocument /\ TextIsKept /\ PlanIsFresh
  BY DEF CopyIsTrue, Asserted, RightDocument, TextIsKept, PlanIsFresh
<1> QED BY <1>1, <1>2 DEF UpdateInv

\* The documents there are, are documents.
LEMMA SetupKeeps ==
  ASSUME UpdateAssumption, UpdateInv, Setup
  PROVE  UpdateInv'
<1> USE DEF Setup, Calling
<1>0. UpdateTypes /\ copy = NoCopy /\ docs' \in [Documents -> {[body |-> b, revision |-> 1] : b \in FirstBodies}]
  BY DEF UpdateInv, UpdateTypes
<1>1. docs' \in [Documents -> DocRecords]
  <2>1. {[body |-> b, revision |-> 1] : b \in FirstBodies} \subseteq DocRecords
    BY DEF UpdateAssumption, DocRecords, Texts
  <2> QED BY <1>0, <2>1
<1>2. UpdateTypes'
  BY <1>0, <1>1 DEF UpdateTypes
<1>3. (CopyIsTrue /\ Asserted /\ RightDocument /\ TextIsKept /\ PlanIsFresh)'
  BY <1>0 DEF CopyIsTrue, Asserted, RightDocument, TextIsKept, PlanIsFresh, NoCopy
<1> QED BY <1>2, <1>3 DEF UpdateInv

\* A copy is what was read.
LEMMA ExportKeeps ==
  ASSUME UpdateAssumption, UpdateInv, NEW id \in Documents, Export(id)
  PROVE  UpdateInv'
<1> USE DEF Export, Calling
<1>0. UpdateTypes /\ updateStage = "idle" /\ docs \in [Documents -> DocRecords]
  BY DEF UpdateInv, UpdateTypes
<1>1. docs[id].body \in Texts /\ docs[id].revision \in Nat \ {0}
  BY <1>0, DocumentOf
<1>2. /\ copy'.id = id /\ copy'.body = docs[id].body
      /\ copy'.revision = IF server.reports THEN docs[id].revision ELSE 0
  BY DEF Reported
<1>3. UpdateTypes'
  BY <1>0, <1>1, <1>2 DEF UpdateTypes
<1>4. CopyIsTrue'
  BY <1>0, <1>1, <1>2 DEF CopyIsTrue
<1>5. (Asserted /\ RightDocument /\ TextIsKept /\ PlanIsFresh)'
  BY <1>0 DEF Asserted, RightDocument, TextIsKept, PlanIsFresh
<1> QED BY <1>3, <1>4, <1>5 DEF UpdateInv

\* The edit of somebody else makes every revision known older.
LEMMA ForeignEditKeeps ==
  ASSUME UpdateAssumption, UpdateInv, NEW id \in Documents, NEW line \in ForeignLines,
         NEW at \in 1 .. Len(docs[id].body) + 1, ForeignEdit(id, line, at)
  PROVE  UpdateInv'
<1> DEFINE body == InsertAt(docs[id].body, at, line)
<1>0. /\ UpdateTypes /\ CopyIsTrue /\ Asserted /\ RightDocument /\ TextIsKept /\ PlanIsFresh
      /\ updateStage # "off" /\ docs \in [Documents -> DocRecords]
      /\ UNCHANGED <<server, copy, update, updateStage, plan, updates>>
  BY DEF UpdateInv, UpdateTypes, ForeignEdit
<1>1. docs[id].body \in Texts /\ docs[id].revision \in Nat \ {0} /\ line \in BodyLines
  BY <1>0, DocumentOf DEF UpdateAssumption
<1>2. body \in Texts /\ ToSet(docs[id].body) \subseteq ToSet(body)
  BY <1>1, InsertKeeps
<1>3. docs' = [docs EXCEPT ![id] = [body |-> body, revision |-> docs[id].revision + 1]]
  BY DEF ForeignEdit
<1> HIDE DEF body
<1>4. /\ docs' \in [Documents -> DocRecords]
      /\ docs'[id].body = body /\ docs'[id].revision = docs[id].revision + 1
      /\ \A d \in Documents : d # id => docs'[d] = docs[d]
  BY <1>0, <1>2, <1>3, DocumentSet
<1>5. \A d \in Documents :
        /\ docs[d].revision \in Nat /\ docs'[d].revision \in Nat
        /\ docs[d].revision <= docs'[d].revision
        /\ docs'[d] = docs[d] \/ docs[d].revision < docs'[d].revision
        /\ ToSet(docs[d].body) \subseteq ToSet(docs'[d].body)
  <2> TAKE d \in Documents
  <2>1. docs[d].revision \in Nat
    BY <1>0, DocumentOf
  <2>2. CASE d = id
    BY <1>1, <1>2, <1>4, <2>2
  <2>3. CASE d # id
    BY <1>4, <2>1, <2>3
  <2> QED BY <2>2, <2>3
<1>6. UpdateTypes'
  <2>1. edits' \in 0 .. MaxEdits
    BY <1>0 DEF ForeignEdit, UpdateTypes, UpdateAssumption
  <2> QED BY <1>0, <1>4, <2>1 DEF UpdateTypes, Calling
<1>7. CopyIsTrue'
  <2> SUFFICES ASSUME copy.revision # 0
               PROVE  /\ server.reports /\ copy.id \in Documents
                      /\ copy.revision <= docs'[copy.id].revision
                      /\ copy.revision = docs'[copy.id].revision => copy.body = docs'[copy.id].body
    BY <1>0 DEF CopyIsTrue
  <2>1. copy.revision \in Nat
    BY <1>0 DEF UpdateTypes
  <2>2. /\ server.reports /\ copy.id \in Documents
        /\ copy.revision <= docs[copy.id].revision
        /\ copy.revision = docs[copy.id].revision => copy.body = docs[copy.id].body
    BY <1>0 DEF CopyIsTrue
  <2> DEFINE r == copy.revision  old == docs[copy.id].revision  new == docs'[copy.id].revision
  <2>3. /\ old \in Nat /\ new \in Nat /\ old <= new
        /\ docs'[copy.id] = docs[copy.id] \/ old < new
    BY <1>5, <2>2
  <2>4. r \in Nat /\ r <= old
    BY <2>1, <2>2
  <2>5. docs'[copy.id] = docs[copy.id] /\ copy.revision = new => copy.body = docs'[copy.id].body
    BY <2>2
  <2> HIDE DEF r, old, new
  <2>6. r <= new /\ (old < new => r # new)
    BY <2>3, <2>4
  <2>7. copy.revision <= docs'[copy.id].revision /\ (old < new => copy.revision # docs'[copy.id].revision)
    BY <2>6 DEF r, new
  <2> QED BY <2>2, <2>3, <2>5, <2>7 DEF new
<1>8. Asserted' /\ RightDocument'
  BY <1>0 DEF Asserted, RightDocument, Calling
<1>9. TextIsKept'
  <2>1. Calling => update.id \in Documents
    BY <1>0 DEF UpdateTypes
  <2> QED BY <1>0, <1>5, <2>1 DEF TextIsKept, Calling
<1>10. PlanIsFresh'
  <2> SUFFICES ASSUME updateStage = "send", update.kind \in SectionKinds, server.reports
               PROVE  /\ plan.pinned # 0 /\ plan.pinned <= docs'[update.id].revision
                      /\ plan.pinned = docs'[update.id].revision =>
                           (Cardinality(Named) = 1 /\ \E i \in Named : IsPlanOf(i))'
    BY <1>0 DEF PlanIsFresh
  <2>1. update.id \in Documents /\ plan.pinned \in Nat
    BY <1>0 DEF UpdateTypes, Calling
  <2>2. plan.pinned # 0 /\ plan.pinned <= docs[update.id].revision
    BY <1>0 DEF PlanIsFresh
  <2>3. CASE docs[update.id].revision < docs'[update.id].revision
    <3> DEFINE r == plan.pinned  old == docs[update.id].revision  new == docs'[update.id].revision
    <3>1. r \in Nat /\ old \in Nat /\ new \in Nat /\ r <= old /\ old < new
      BY <1>5, <2>1, <2>2, <2>3
    <3> HIDE DEF r, old, new
    <3>2. r <= new /\ r # new
      BY <3>1
    <3>3. plan.pinned <= docs'[update.id].revision /\ plan.pinned # docs'[update.id].revision
      BY <3>2 DEF r, new
    <3> QED BY <2>2, <3>3
  <2>4. CASE docs'[update.id] = docs[update.id]
    <3>1. Named' = Named
      BY <1>0, <2>4 DEF Named
    <3>2. \A i : IsPlanOf(i)' <=> IsPlanOf(i)
      BY <1>0, <2>4 DEF IsPlanOf, SectionEdit
    <3> QED BY <1>0, <2>2, <2>4, <3>1, <3>2 DEF PlanIsFresh
  <2> QED BY <1>5, <2>1, <2>3, <2>4
<1> QED BY <1>6, <1>7, <1>8, <1>9, <1>10 DEF UpdateInv

\* The text that is supplied, and what its block says of it.
LEMMA SuppliedBy ==
  ASSUME UpdateAssumption, NEW text \in NewTexts \cup {<<>>}, NEW withBlock \in BOOLEAN,
         copy.revision \in Nat, withBlock => copy.id \in Documents,
         NEW body, body = Supplied(File(text, withBlock))
  PROVE  /\ body.body \in Texts /\ body.given \in BOOLEAN
         /\ body.given => ~IsBlank(body.body) /\ Rule \notin ToSet(body.body)
         /\ \/ body.front = NoFront
            \/ body.given /\ withBlock /\ body.front = FrontOf(copy.id, copy.revision)
         /\ body.given /\ withBlock => body.front = FrontOf(copy.id, copy.revision)
<1> DEFINE split == Split(File(text, withBlock))
<1>1. /\ split.body = text
      /\ split.front = IF withBlock THEN FrontOf(copy.id, copy.revision) ELSE NoFront
  BY FileSplits
<1>2. text \in Texts /\ Rule \notin ToSet(text)
  <2>1. CASE text \in NewTexts
    BY <2>1 DEF UpdateAssumption, Texts
  <2>2. CASE text = <<>>
    <3>1. ToSet(<<>>) = {}
      BY DEF ToSet
    <3> QED BY <2>2, <3>1, PlainLines
  <2> QED BY <2>1, <2>2
<1>3. body = IF IsBlank(split.body)
             THEN [front |-> NoFront, body |-> <<>>, given |-> FALSE]
             ELSE [front |-> split.front, body |-> split.body, given |-> TRUE]
  BY DEF Supplied
<1> HIDE DEF split
<1>4. CASE IsBlank(text)
  <2>1. body.front = NoFront /\ body.body = <<>> /\ ~body.given /\ body.given \in BOOLEAN
    BY <1>1, <1>3, <1>4
  <2> QED BY <2>1, PlainLines
<1>5. CASE ~IsBlank(text)
  <2>1. body.front = split.front /\ body.body = text /\ body.given /\ body.given \in BOOLEAN
    BY <1>1, <1>3, <1>5
  <2> QED BY <1>1, <1>2, <1>5, <2>1
<1> QED BY <1>4, <1>5

(* A call asserts of the document it is about what the copy says of it.     *)
LEMMA CallKeeps ==
  ASSUME UpdateAssumption, UpdateInv, Calls
  PROVE  UpdateInv'
<1>0. /\ UpdateTypes /\ CopyIsTrue /\ updateStage # "send"
  <2>1. updateStage = "idle"
    BY DEF Calls, Call
  <2> QED BY <2>1 DEF UpdateInv
<1>1. PICK kind \in Kinds, argument \in Documents \cup {0}, address \in Addresses,
           text \in NewTexts \cup {<<>>}, withBlock \in BOOLEAN,
           ifRevision \in {0, copy.revision}, force \in BOOLEAN :
        /\ withBlock => copy # NoCopy
        /\ kind = "patch" => copy.body # <<>>
        /\ ifRevision # 0 => argument \in {0, copy.id}
        /\ Call(kind, argument, File(text, withBlock), address, ifRevision, force)
  BY DEF Calls
<1> DEFINE file == File(text, withBlock)
           body == Supplied(file)
           front == body.front
           given == body.given
           named == ResolvedId(argument, front)
           pin == PinOf(ifRevision, front, force)
           id == CHOOSE d \in named : TRUE
           from == IF given /\ Split(file).found THEN copy.id ELSE 0
<1>2. withBlock => copy.id \in Documents
  BY <1>0, <1>1 DEF UpdateTypes
<1>3. copy.revision \in Nat /\ copy.body \in Texts
  BY <1>0 DEF UpdateTypes
<1>4. /\ body.body \in Texts
      /\ given => ~IsBlank(body.body) /\ Rule \notin ToSet(body.body)
      /\ \/ front = NoFront
         \/ given /\ withBlock /\ front = FrontOf(copy.id, copy.revision)
      /\ given /\ withBlock => front = FrontOf(copy.id, copy.revision)
  BY <1>2, <1>3, SuppliedBy
<1>5. Split(file).found <=> withBlock
  BY <1>2, <1>3, FileSplits
<1>6. /\ updateStage = "idle" /\ updates' = updates + 1 /\ updates < MaxUpdates
      /\ plan' = [mode |-> kind, find |-> <<>>, text |-> body.body, pinned |-> 0]
      /\ UNCHANGED <<docs, server, copy, edits>>
      /\ \/ UNCHANGED <<update, updateStage>>
         \/ /\ named # {} /\ (given <=> NeedsBody(kind))
            /\ update' = [kind |-> kind, id |-> id, text |-> body.body, address |-> address,
                          pin |-> pin, fromCopy |-> from]
            /\ updateStage' = IF pin # 0 \/ kind \in {"patch", "section", "delete_section"}
                              THEN "read" ELSE "send"
  <2> HIDE DEF pin
  <2>1. given \in BOOLEAN /\ NeedsBody(kind) \in BOOLEAN
    BY <1>2, <1>3, SuppliedBy DEF NeedsBody
  <2> QED BY <1>1, <2>1 DEF Call, pin
<1> HIDE DEF file, body
<1>7. /\ front.id \in {0, copy.id} /\ front.revision \in {0, copy.revision}
      /\ front.revision # 0 => front.id = copy.id /\ withBlock
      /\ front.id # 0 => front.id = copy.id /\ withBlock
      /\ given /\ withBlock => front.id = copy.id
  BY <1>4 DEF NoFront, FrontOf
<1> HIDE DEF front, given
<1>8. ASSUME named # {}
      PROVE  /\ id \in Documents
             /\ argument = 0 => id = front.id
             /\ argument # 0 => id = argument /\ front.id \in {0, id}
  <2>1. CASE argument = 0
    <3>1. named = {front.id} /\ front.id # 0
      BY <1>8, <2>1 DEF ResolvedId
    <3>2. id = front.id
      BY <3>1
    <3>3. front.id \in Documents
      BY <1>2, <1>7, <3>1
    <3> QED BY <2>1, <3>2, <3>3
  <2>2. CASE argument # 0
    <3>1. named = {argument} /\ front.id \in {0, argument} /\ argument \in Documents
      BY <1>8, <2>2 DEF ResolvedId
    <3>2. id = argument
      BY <3>1
    <3> QED BY <2>2, <3>1, <3>2
  <2> QED BY <2>1, <2>2
<1> HIDE DEF id, named
<1>9. ASSUME named # {} PROVE pin \in Nat /\ (pin # 0 => id = copy.id /\ pin = copy.revision)
  <2>1. pin = IF ifRevision # 0 THEN ifRevision ELSE IF force THEN 0 ELSE front.revision
    BY DEF PinOf
  <2> HIDE DEF pin
  <2>2. CASE ifRevision # 0
    BY <1>1, <1>3, <1>7, <1>8, <1>9, <2>1, <2>2
  <2>3. CASE ifRevision = 0 /\ force
    BY <2>1, <2>3
  <2>4. CASE ifRevision = 0 /\ ~force
    <3>1. pin = front.revision
      BY <2>1, <2>4
    <3>2. front.revision # 0 => front.id # 0
      BY <1>2, <1>7 DEF UpdateAssumption
    <3> QED BY <1>3, <1>7, <1>8, <1>9, <3>1, <3>2
  <2> QED BY <2>2, <2>3, <2>4
<1>10. ASSUME named # {} PROVE from \in {0, id}
  <2>1. given /\ withBlock => front.id = copy.id /\ copy.id # 0
    BY <1>2, <1>7 DEF UpdateAssumption
  <2> QED BY <1>5, <1>8, <1>10, <2>1
<1> HIDE DEF pin, from
<1>11. /\ plan'.mode = kind /\ plan'.find = <<>> /\ plan'.text = body.body /\ plan'.pinned = 0
       /\ updates' \in 0 .. MaxUpdates
  BY <1>0, <1>6 DEF UpdateTypes, UpdateAssumption
<1>12. CASE UNCHANGED <<update, updateStage>>
  <2>1. UpdateTypes'
    BY <1>0, <1>4, <1>6, <1>11, <1>12, PlainLines DEF UpdateTypes, Calling
  <2>2. CopyIsTrue'
    BY <1>0, <1>6, <1>12 DEF CopyIsTrue
  <2>3. updateStage' = "idle"
    BY <1>6, <1>12
  <2> QED BY <2>1, <2>2, <2>3 DEF UpdateInv, Asserted, RightDocument, TextIsKept, PlanIsFresh, Calling
<1>13. CASE named # {} /\ ~UNCHANGED <<update, updateStage>>
  <2>1. /\ update'.kind = kind /\ update'.id = id /\ update'.text = body.body
        /\ update'.pin = pin /\ update'.fromCopy = from /\ (given <=> NeedsBody(kind))
        /\ updateStage' = IF pin # 0 \/ kind \in {"patch", "section", "delete_section"}
                          THEN "read" ELSE "send"
    BY <1>6, <1>13
  <2>2. UpdateTypes'
    BY <1>0, <1>1, <1>4, <1>6, <1>8, <1>9, <1>11, <1>13, <2>1, PlainLines DEF UpdateTypes, Calling
  <2>3. CopyIsTrue'
    BY <1>0, <1>6 DEF CopyIsTrue
  <2>4. Asserted'
    BY <1>6, <1>9, <1>13, <2>1 DEF Asserted, Calling
  <2>5. RightDocument'
    BY <1>10, <1>13, <2>1 DEF RightDocument
  <2>6. TextIsKept'
    <3>1. NeedsBody(kind) => ~IsBlank(body.body) /\ Rule \notin ToSet(body.body)
      BY <1>4, <2>1 DEF given
    <3> QED BY <1>11, <2>1, <3>1 DEF TextIsKept
  <2>7. PlanIsFresh'
    BY <2>1 DEF PlanIsFresh, SectionKinds
  <2> QED BY <2>2, <2>3, <2>4, <2>5, <2>6, <2>7 DEF UpdateInv
<1> QED BY <1>6, <1>12, <1>13

\* The plan of a change to a section is made of the body just read.
LEMMA SectionPlanOf ==
  ASSUME MarkdownAssumption, docs[update.id].body \in Texts, update.text \in Texts,
         update.kind \in SectionKinds, NEW p \in SectionPlan
  PROVE  /\ Cardinality(Named) = 1
         /\ \E i \in Named : p = SectionEdit(docs[update.id].body, i)
         /\ p.mode \in {"replace", "patch"} /\ p.text \in Texts /\ p.find \in Texts
         /\ update.kind = "section" /\ ~IsBlank(update.text) => ~IsBlank(p.text)
         /\ update.kind = "section" /\ Rule \notin ToSet(update.text) =>
              (Rule \in ToSet(p.text) => Rule \in ToSet(docs[update.id].body))
<1> DEFINE body == docs[update.id].body
<1>1. Cardinality(Named) = 1 /\ p \in {SectionEdit(body, section) : section \in Named}
  BY DEF SectionPlan
<1>2. PICK i \in Named : p = SectionEdit(body, i)
  BY <1>1
<1> DEFINE new == IF update.kind = "section" THEN NewSection(body, i, update.text) ELSE <<>>
<1>3. i \in Headings(body)
  BY ResolveType DEF Named
<1>4. body \in Texts
  OBVIOUS
<1> HIDE DEF body
<1>5. new \in Texts
  <2>1. NewSection(body, i, update.text) \in Texts
    BY <1>3, <1>4, NewSectionOf
  <2> QED BY <2>1, PlainLines
<1>6. p = EditOf(body, i, new)
  BY <1>2 DEF SectionEdit
<1> HIDE DEF new
<1>7. /\ p.mode \in {"replace", "patch"} /\ p.text \in Texts /\ p.find \in Texts
      /\ ToSet(p.text) \subseteq ToSet(body) \cup ToSet(new)
      /\ IsBlank(p.text) => IsBlank(new)
  BY <1>3, <1>4, <1>5, <1>6, EditKeeps
<1>8. ASSUME update.kind = "section"
      PROVE  /\ Rule \in ToSet(new) => Rule \in ToSet(update.text)
             /\ IsBlank(new) => IsBlank(update.text)
  BY <1>3, <1>4, <1>8, NewSectionOf DEF new
<1>9. \E j \in Named : p = SectionEdit(docs[update.id].body, j)
  BY <1>2 DEF body
<1> QED BY <1>1, <1>7, <1>8, <1>9 DEF body

(* What is read with the body is what is sent with it.                      *)
LEMMA ReadKeeps ==
  ASSUME MarkdownAssumption, UpdateAssumption, UpdateInv, Read
  PROVE  UpdateInv'
<1>0. /\ UpdateTypes /\ CopyIsTrue /\ Asserted /\ RightDocument /\ TextIsKept
      /\ updateStage = "read" /\ docs \in [Documents -> DocRecords]
      /\ update.id \in Documents /\ update.text \in Texts /\ update.pin \in Nat
  BY DEF UpdateInv, UpdateTypes, Read, Calling
<1>1. docs[update.id].body \in Texts /\ docs[update.id].revision \in Nat \ {0}
  BY <1>0, DocumentOf
<1>2. CASE Refused
  <2> USE DEF Refused, NoUpdate, NoPlan
  <2>1. UpdateTypes'
    BY <1>0, <1>2, PlainLines DEF UpdateTypes, Calling
  <2>2. CopyIsTrue'
    BY <1>0, <1>2 DEF CopyIsTrue
  <2>3. updateStage' = "idle"
    BY <1>2
  <2> QED BY <2>1, <2>2, <2>3 DEF UpdateInv, Asserted, RightDocument, TextIsKept, PlanIsFresh, Calling
<1>3. CASE ~Refused
  <2>1. /\ CheckRevision /\ updateStage' = "send"
        /\ UNCHANGED <<docs, server, copy, update, edits, updates>>
        /\ \E p \in Plans : plan' = [mode |-> p.mode, find |-> p.find, text |-> p.text, pinned |-> Pin]
    BY <1>3 DEF Read
  <2>2. PICK p \in Plans : plan' = [mode |-> p.mode, find |-> p.find, text |-> p.text, pinned |-> Pin]
    BY <2>1
  <2>3. plan'.mode = p.mode /\ plan'.find = p.find /\ plan'.text = p.text /\ plan'.pinned = Pin
    BY <2>2
  <2>4. Reported(update.id) = IF server.reports THEN docs[update.id].revision ELSE 0
    BY DEF Reported
  <2>5. Pin \in Nat /\ (update.pin # 0 => Pin = update.pin)
    BY <1>0, <1>1, <2>1, <2>4 DEF Pin, CheckRevision
  <2>6. CASE update.kind \in SectionKinds
    <3>1. p \in SectionPlan
      BY <2>6 DEF Plans, SectionKinds
    <3>2. /\ Cardinality(Named) = 1
          /\ \E i \in Named : p = SectionEdit(docs[update.id].body, i)
          /\ p.mode \in {"replace", "patch"} /\ p.text \in Texts /\ p.find \in Texts
          /\ update.kind = "section" /\ ~IsBlank(update.text) => ~IsBlank(p.text)
          /\ update.kind = "section" /\ Rule \notin ToSet(update.text) =>
               (Rule \in ToSet(p.text) => Rule \in ToSet(docs[update.id].body))
      BY <1>0, <1>1, <2>6, <3>1, SectionPlanOf
    <3>3. Named' = Named
      BY <2>1 DEF Named
    <3>4. \E i \in Named : IsPlanOf(i)'
      <4>1. PICK i \in Named : p = SectionEdit(docs[update.id].body, i)
        BY <3>2
      <4>2. SectionEdit(docs'[update'.id].body, i) = SectionEdit(docs[update.id].body, i)
        BY <2>1
      <4>3. SectionEdit(docs[update.id].body, i)' = SectionEdit(docs[update.id].body, i)
        BY <2>1 DEF SectionEdit
      <4>4. IsPlanOf(i)'
        BY <2>3, <4>1, <4>3 DEF IsPlanOf
      <4> QED BY <4>4
    <3>5. PlanIsFresh'
      <4>1. server.reports => Pin = docs[update.id].revision
        BY <2>4, <2>6 DEF Pin, SectionKinds
      <4>2. Cardinality(Named)' = 1
        BY <3>2, <3>3
      <4>3. \E i \in Named' : IsPlanOf(i)'
        BY <3>3, <3>4
      <4> QED BY <1>1, <2>1, <2>3, <4>1, <4>2, <4>3 DEF PlanIsFresh
    <3>6. UpdateTypes'
      BY <1>0, <2>1, <2>3, <2>5, <3>2 DEF UpdateTypes, Calling, Kinds
    <3>7. TextIsKept'
      <4>1. NeedsBody(update.kind) => update.kind = "section"
        BY <2>6 DEF NeedsBody, SectionKinds
      <4> QED BY <1>0, <2>1, <2>3, <3>2, <4>1 DEF TextIsKept, Calling
    <3>8. CopyIsTrue' /\ Asserted' /\ RightDocument'
      BY <1>0, <2>1, <2>3, <2>5 DEF CopyIsTrue, Asserted, RightDocument, Calling
    <3> QED BY <3>5, <3>6, <3>7, <3>8 DEF UpdateInv
  <2>7. CASE update.kind \notin SectionKinds
    <3>1. p.text = update.text /\ p.mode = update.kind /\ p.find \in Texts
      <4>1. CASE update.kind = "patch"
        <5>1. p \in PatchPlan
          BY <4>1 DEF Plans
        <5>2. p = [mode |-> "patch", find |-> SubSeq(copy.body, 1, 1), text |-> update.text]
          BY <5>1 DEF PatchPlan
        <5>3. copy.body # <<>> /\ copy.body \in Texts
          BY <1>0, <4>1 DEF UpdateTypes, Calling
        <5>4. Len(copy.body) \in Nat /\ 1 <= Len(copy.body)
          BY <5>3, EmptySeq DEF Texts
        <5>5. SubSeq(copy.body, 1, 1) \in Texts
          <6> DEFINE first == copy.body
          <6>1. first \in Texts /\ 1 \in Nat \ {0} /\ 1 \in Nat /\ 1 <= Len(first)
            BY <5>3, <5>4
          <6> HIDE DEF first
          <6>2. SubSeq(first, 1, 1) \in Texts
            BY <6>1, PartOf
          <6> QED BY <6>2 DEF first
        <5> QED BY <4>1, <5>2, <5>5
      <4>2. CASE update.kind # "patch"
        <5>1. Plans = {[mode |-> update.kind, find |-> <<>>, text |-> update.text]}
          BY <2>7, <4>2 DEF Plans, SectionKinds
        <5>2. p = [mode |-> update.kind, find |-> <<>>, text |-> update.text]
          BY <5>1
        <5> QED BY <5>2, PlainLines
      <4> QED BY <4>1, <4>2
    <3>2. UpdateTypes'
      BY <1>0, <2>1, <2>3, <2>5, <3>1 DEF UpdateTypes, Calling
    <3>3. TextIsKept'
      BY <1>0, <2>1, <2>3, <3>1 DEF TextIsKept, Calling
    <3>4. PlanIsFresh'
      BY <2>1, <2>7 DEF PlanIsFresh
    <3>5. CopyIsTrue' /\ Asserted' /\ RightDocument'
      BY <1>0, <2>1, <2>3, <2>5 DEF CopyIsTrue, Asserted, RightDocument, Calling
    <3> QED BY <3>2, <3>3, <3>4, <3>5 DEF UpdateInv
  <2> QED BY <2>6, <2>7
<1> QED BY <1>2, <1>3

(* What the write leaves: the text that was sent, in front of the body or   *)
(* after it, in the place of the anchor or of all of it; or the body.       *)
LEMMA ResultOf ==
  ASSUME UpdateTypes, NEW body \in Texts, NEW new \in Results(body)
  PROVE  /\ new \in Texts
         /\ new # body /\ IsBlank(new) => IsBlank(plan.text)
         /\ Rule \in ToSet(new) => Rule \in ToSet(body) \/ Rule \in ToSet(plan.text)
<1>0. plan.text \in Texts /\ plan.find \in Texts
  BY DEF UpdateTypes
<1>1. CASE plan.mode = "patch"
  <2>1. PICK at \in Occurrences(body, plan.find) : new = Applied(body, plan, at)
    BY <1>1 DEF Results
  <2>2. /\ Applied(body, plan, at) \in Texts
        /\ ToSet(Applied(body, plan, at)) \subseteq ToSet(body) \cup ToSet(plan.text)
        /\ IsBlank(Applied(body, plan, at)) => IsBlank(plan.text)
    BY <1>0, AppliedKeeps
  <2> QED BY <2>1, <2>2
<1>2. CASE plan.mode = "append"
  <2>1. new = body \o plan.text
    BY <1>2 DEF Results
  <2>2. /\ body \o plan.text \in Texts
        /\ ToSet(body \o plan.text) = ToSet(body) \cup ToSet(plan.text)
        /\ IsBlank(body \o plan.text) => IsBlank(plan.text)
    BY <1>0, Joining, LinesOfBoth
  <2> QED BY <2>1, <2>2
<1>3. CASE plan.mode = "prepend"
  <2>1. new = plan.text \o body
    BY <1>3 DEF Results
  <2>2. /\ plan.text \o body \in Texts
        /\ ToSet(plan.text \o body) = ToSet(plan.text) \cup ToSet(body)
        /\ IsBlank(plan.text \o body) => IsBlank(plan.text)
    <3> DEFINE text == plan.text
    <3>1. text \in Texts
      BY <1>0
    <3> HIDE DEF text
    <3>2. /\ text \o body \in Texts /\ ToSet(text \o body) = ToSet(text) \cup ToSet(body)
          /\ IsBlank(text \o body) => IsBlank(text)
      BY <3>1, Joining, LinesOfBoth
    <3> QED BY <3>2 DEF text
  <2> QED BY <2>1, <2>2
<1>4. CASE plan.mode = "metadata"
  <2>1. new = body
    BY <1>4 DEF Results
  <2> QED BY <2>1
<1>5. CASE plan.mode \notin {"patch", "append", "prepend", "metadata"}
  <2>1. new = plan.text
    BY <1>5 DEF Results
  <2> QED BY <1>0, <2>1
<1> QED BY <1>1, <1>2, <1>3, <1>4, <1>5

\* A write makes every revision known older.
LEMMA SendKeeps ==
  ASSUME UpdateAssumption, UpdateInv, Send
  PROVE  UpdateInv'
<1>0. /\ UpdateTypes /\ CopyIsTrue /\ updateStage = "send" /\ updateStage' = "idle"
      /\ update' = NoUpdate /\ plan' = NoPlan /\ UNCHANGED <<server, copy, edits, updates>>
      /\ docs \in [Documents -> DocRecords] /\ update.id \in Documents
  BY DEF UpdateInv, UpdateTypes, Send, Calling
<1>1. \/ docs' = docs
      \/ \E body \in Results(docs[update.id].body) :
           docs' = [docs EXCEPT ![update.id] = [body |-> body, revision |-> docs[update.id].revision + 1]]
  BY DEF Send
<1>2. docs[update.id].body \in Texts
  BY <1>0, DocumentOf
<1>3. /\ docs' \in [Documents -> DocRecords]
      /\ \A d \in Documents :
           docs'[d] = docs[d] \/ docs'[d].revision = docs[d].revision + 1
  <2>1. CASE docs' = docs
    BY <1>0, <2>1
  <2>2. ASSUME NEW body \in Results(docs[update.id].body),
               docs' = [docs EXCEPT ![update.id] = [body |-> body, revision |-> docs[update.id].revision + 1]]
        PROVE  <1>3!:
    <3>1. body \in Texts
      BY <1>0, <1>2, ResultOf
    <3>2. /\ docs' \in [Documents -> DocRecords]
          /\ docs'[update.id].revision = docs[update.id].revision + 1
          /\ \A d \in Documents : d # update.id => docs'[d] = docs[d]
      BY <1>0, <2>2, <3>1, DocumentSet
    <3> QED BY <3>2
  <2> QED BY <1>1, <2>1, <2>2
<1>4. UpdateTypes'
  BY <1>0, <1>3, PlainLines DEF UpdateTypes, Calling, NoUpdate, NoPlan
<1>5. CopyIsTrue'
  <2> SUFFICES ASSUME copy.revision # 0
               PROVE  /\ server.reports /\ copy.id \in Documents
                      /\ copy.revision <= docs'[copy.id].revision
                      /\ copy.revision = docs'[copy.id].revision => copy.body = docs'[copy.id].body
    BY <1>0 DEF CopyIsTrue
  <2>1. /\ server.reports /\ copy.id \in Documents /\ copy.revision \in Nat
        /\ copy.revision <= docs[copy.id].revision
        /\ copy.revision = docs[copy.id].revision => copy.body = docs[copy.id].body
    BY <1>0 DEF CopyIsTrue, UpdateTypes
  <2>2. docs[copy.id].revision \in Nat
    BY <1>0, <2>1, DocumentOf
  <2>3. CASE docs'[copy.id] = docs[copy.id]
    BY <2>1, <2>3
  <2>4. CASE docs'[copy.id].revision = docs[copy.id].revision + 1
    <3> DEFINE r == copy.revision  old == docs[copy.id].revision  new == docs'[copy.id].revision
    <3>1. r \in Nat /\ old \in Nat /\ new = old + 1 /\ r <= old
      BY <2>1, <2>2, <2>4
    <3> HIDE DEF r, old, new
    <3>2. r <= new /\ r # new
      BY <3>1
    <3>3. copy.revision <= docs'[copy.id].revision /\ copy.revision # docs'[copy.id].revision
      BY <3>2 DEF r, new
    <3> QED BY <2>1, <3>3
  <2> QED BY <1>3, <2>1, <2>3, <2>4
<1> QED BY <1>0, <1>4, <1>5 DEF UpdateInv, Asserted, RightDocument, TextIsKept, PlanIsFresh, Calling

(* The invariant holds of every step.                                       *)
LEMMA UpdateStep ==
  ASSUME MarkdownAssumption, UpdateAssumption, UpdateInv, [UpdateNext]_updateVars
  PROVE  UpdateInv'
<1>1. CASE Setup
  BY <1>1, SetupKeeps
<1>2. ASSUME NEW id \in Documents, Export(id) PROVE UpdateInv'
  BY <1>2, ExportKeeps
<1>3. ASSUME NEW id \in Documents, NEW line \in ForeignLines,
             NEW at \in 1 .. (IF docs = <<>> THEN 0 ELSE Len(docs[id].body) + 1), ForeignEdit(id, line, at)
      PROVE  UpdateInv'
  <2>1. at \in 1 .. Len(docs[id].body) + 1
    BY <1>3
  <2> QED BY <1>3, <2>1, ForeignEditKeeps
<1>4. CASE Calls
  BY <1>4, CallKeeps
<1>5. CASE Read
  BY <1>5, ReadKeeps
<1>6. CASE Send
  BY <1>6, SendKeeps
<1>7. CASE UNCHANGED updateVars
  <2> USE <1>7 DEF updateVars
  <2>1. UpdateTypes' /\ CopyIsTrue' /\ Asserted' /\ RightDocument' /\ TextIsKept'
    BY DEF UpdateInv, UpdateTypes, CopyIsTrue, Asserted, RightDocument, TextIsKept, Calling
  <2>2. Named' = Named
    BY DEF Named
  <2>3. \A i : IsPlanOf(i)' <=> IsPlanOf(i)
    BY DEF IsPlanOf, SectionEdit
  <2>4. PlanIsFresh'
    BY <2>2, <2>3 DEF UpdateInv, PlanIsFresh
  <2> QED BY <2>1, <2>4 DEF UpdateInv
<1> QED BY <1>1, <1>2, <1>3, <1>4, <1>5, <1>6, <1>7 DEF UpdateNext

(* The write of a step: of the document of the running call, on the body it *)
(* has now, and not where the revision it was sent with has passed.         *)
LEMMA WriteOf ==
  ASSUME UpdateInv, [UpdateNext]_updateVars, NEW id \in DOMAIN docs, Changed(id)
  PROVE  /\ id = update.id /\ id \in Documents /\ ~Stale
         /\ docs[id].body \in Texts /\ docs[id].revision \in Nat
         /\ docs'[id].body \in Results(docs[id].body)
<1>0. /\ updateStage = "send" /\ updateStage' = "idle" /\ docs'[id].body # docs[id].body
      /\ UpdateTypes /\ docs \in [Documents -> DocRecords] /\ update.id \in Documents
  BY DEF Changed, UpdateInv, UpdateTypes, Calling
<1>1. id \in Documents
  BY <1>0
<1>2. docs[id].body \in Texts /\ docs[id].revision \in Nat /\ docs[update.id].body \in Texts
  BY <1>0, <1>1, DocumentOf
<1>3. Send
  <2>1. ~Setup /\ ~Calls /\ ~Read
    BY <1>0 DEF Setup, Calls, Call, Read
  <2>2. \A d : ~Export(d)
    BY <1>0 DEF Export
  <2>3. \A d, line, at : ~ForeignEdit(d, line, at)
    BY <1>0 DEF ForeignEdit
  <2>4. ~UNCHANGED updateVars
    BY <1>0 DEF updateVars
  <2> QED BY <2>1, <2>2, <2>3, <2>4 DEF UpdateNext
<1>4. /\ ~Stale
      /\ \E body \in Results(docs[update.id].body) :
           docs' = [docs EXCEPT ![update.id] = [body |-> body, revision |-> docs[update.id].revision + 1]]
  BY <1>0, <1>3 DEF Send
<1>5. PICK body \in Results(docs[update.id].body) :
        docs' = [docs EXCEPT ![update.id] = [body |-> body, revision |-> docs[update.id].revision + 1]]
  BY <1>4
<1>6. body \in Texts
  BY <1>0, <1>2, ResultOf
<1>7. docs'[update.id].body = body /\ \A d \in Documents : d # update.id => docs'[d] = docs[d]
  BY <1>0, <1>5, <1>6, DocumentSet
<1>8. id = update.id
  BY <1>0, <1>1, <1>7
<1> QED BY <1>1, <1>2, <1>4, <1>5, <1>7, <1>8

\* Where the server looks at it, the revision that is sent is the document's.
LEMMA NotStale ==
  ASSUME ~Stale, server.honours, plan.pinned # 0
  PROVE  plan.pinned = docs[update.id].revision
BY DEF Stale

(* NoUnseenLoss for one write: what is asserted is the document's revision, *)
(* so the copy has every line of it.                                        *)
LEMMA LossIsSeen ==
  ASSUME UpdateInv, [UpdateNext]_updateVars, NEW id \in DOMAIN docs,
         Changed(id), update.pin # 0, server.honours,
         NEW line \in ForeignLines, line \in ToSet(docs[id].body)
  PROVE  line \in ToSet(docs'[id].body) \cup ToSet(copy.body)
<1>1. id = update.id /\ ~Stale
  BY WriteOf
<1>2. updateStage = "send" /\ Calling
  BY DEF Changed, Calling
<1>3. update.id = copy.id /\ update.pin = copy.revision /\ plan.pinned = update.pin
  BY <1>2 DEF UpdateInv, Asserted
<1>4. plan.pinned = docs[id].revision
  BY <1>1, <1>3, NotStale
<1>5. copy.body = docs[id].body
  BY <1>1, <1>3, <1>4 DEF UpdateInv, CopyIsTrue
<1> QED BY <1>5

\* BodyIsText for one write.
LEMMA TextStays ==
  ASSUME UpdateInv, [UpdateNext]_updateVars, NEW id \in DOMAIN docs, Changed(id), NeedsBody(update.kind)
  PROVE  /\ IsBlank(docs'[id].body) => IsBlank(docs[id].body)
         /\ Rule \in ToSet(docs'[id].body) => Rule \in ToSet(docs[id].body)
<1>1. /\ id = update.id /\ docs[id].body \in Texts /\ docs'[id].body \in Results(docs[id].body)
  BY WriteOf
<1>2. updateStage = "send" /\ docs'[id].body # docs[id].body /\ UpdateTypes /\ TextIsKept
  BY DEF Changed, UpdateInv
<1>3. ~IsBlank(plan.text) /\ (Rule \in ToSet(plan.text) => Rule \in ToSet(docs[id].body))
  BY <1>1, <1>2 DEF TextIsKept
<1>4. /\ IsBlank(docs'[id].body) => IsBlank(plan.text)
      /\ Rule \in ToSet(docs'[id].body) => Rule \in ToSet(docs[id].body) \/ Rule \in ToSet(plan.text)
  BY <1>1, <1>2, ResultOf
<1> QED BY <1>3, <1>4

\* OnlyTheSection for one write.
SectionReplaced(id) ==
  LET old == docs[id].body  new == docs'[id].body
  IN  \E i \in Hits(old, update.address, TRUE) :
        /\ Cardinality(Resolve(old, update.address)) = 1
        /\ SubSeq(new, 1, i - 1) = SubSeq(old, 1, i - 1)
        /\ LET rest == Len(old) + 1 - End(old, i)
           IN  /\ rest <= Len(new)
               /\ SubSeq(new, Len(new) - rest + 1, Len(new))
                    = SubSeq(old, End(old, i), Len(old))

\* It follows from the plan being the one its body asks for.
LEMMA SectionStays ==
  ASSUME MarkdownAssumption, UpdateInv, [UpdateNext]_updateVars, NEW id \in DOMAIN docs, Changed(id),
         update.kind \in SectionKinds, server.reports, server.honours
  PROVE  SectionReplaced(id)
<1> DEFINE old == docs[id].body
           new == docs'[id].body
<1>1. id = update.id /\ ~Stale /\ old \in Texts /\ new \in Results(old)
  BY WriteOf
<1>2. updateStage = "send" /\ UpdateTypes /\ PlanIsFresh /\ Calling
  BY DEF Changed, UpdateInv, Calling
<1>3. plan.pinned # 0
  BY <1>2 DEF PlanIsFresh
<1>4. plan.pinned = docs[update.id].revision
  BY <1>1, <1>3, NotStale
<1>5. Cardinality(Named) = 1 /\ \E i \in Named : IsPlanOf(i)
  BY <1>2, <1>4 DEF PlanIsFresh
<1>6. PICK i \in Named : IsPlanOf(i)
  BY <1>5
<1>7. Named = Resolve(old, update.address)
  BY <1>1 DEF Named
<1> DEFINE text == IF update.kind = "section" THEN NewSection(old, i, update.text) ELSE <<>>
           edit == EditOf(old, i, text)
<1>8. plan.mode = edit.mode /\ plan.find = edit.find /\ plan.text = edit.text
  BY <1>1, <1>6 DEF IsPlanOf, SectionEdit
<1> HIDE DEF old
<1>9. i \in Headings(old) /\ i \in Hits(old, update.address, TRUE)
  BY <1>6, <1>7, ResolveType, HitsFold
<1>10. text \in Texts
  <2>1. update.text \in Texts
    BY <1>2 DEF UpdateTypes
  <2>2. NewSection(old, i, update.text) \in Texts
    BY <1>1, <1>9, <2>1, NewSectionOf
  <2> QED BY <2>2, PlainLines
<1> HIDE DEF text
<1>11. /\ edit.mode \in {"replace", "patch"}
       /\ edit.mode = "replace" => edit.text = WithSection(old, i, text)
       /\ edit.mode = "patch" =>
            \A at \in Occurrences(old, edit.find) : Applied(old, edit, at) = WithSection(old, i, text)
  BY <1>1, <1>9, <1>10, EditReplaces
<1> HIDE DEF edit
<1>12. new = WithSection(old, i, text)
  <2>1. CASE edit.mode = "replace"
    <3>1. new = plan.text
      BY <1>1, <1>8, <2>1 DEF Results
    <3> QED BY <1>8, <1>11, <2>1, <3>1
  <2>2. CASE edit.mode = "patch"
    <3>1. PICK at \in Occurrences(old, plan.find) : new = Applied(old, plan, at)
      BY <1>1, <1>8, <2>2 DEF Results
    <3>2. Applied(old, plan, at) = Applied(old, edit, at)
      BY <1>8 DEF Applied
    <3> QED BY <1>8, <1>11, <2>2, <3>1, <3>2
  <2> QED BY <1>11, <2>1, <2>2
<1> HIDE DEF new
<1>13. SameOutside(old, i, new)
  BY <1>1, <1>9, <1>10, <1>12, ReplacedOutside
<1>14. Cardinality(Resolve(old, update.address)) = 1
  BY <1>5, <1>7
<1> QED BY <1>9, <1>13, <1>14 DEF SectionReplaced, SameOutside, old, new

-----------------------------------------------------------------------------
\* The invariant, for every run.
LEMMA UpdateInvariant ==
  ASSUME MarkdownAssumption, UpdateAssumption
  PROVE  UpdateSpec => []UpdateInv
<1>1. UpdateInit => UpdateInv
  BY UpdateInitInv
<1>2. UpdateInv /\ [UpdateNext]_updateVars => UpdateInv'
  BY UpdateStep
<1> QED BY <1>1, <1>2, PTL DEF UpdateSpec

(* The types of docs update (commands/docs/update.rs, anchor.rs), for every *)
(* body, text, address and server, and every number of edits and calls.     *)
THEOREM UpdateTypeCorrect == UpdateSpec => []UpdateTypeOK
<1>1. UpdateInv => UpdateTypeOK
  <2> SUFFICES ASSUME UpdateInv PROVE UpdateTypeOK
    OBVIOUS
  <2>1. UpdateTypes
    BY DEF UpdateInv
  <2>2. \A d \in DOMAIN docs : docs[d].revision \in Nat \ {0}
    <3>1. CASE updateStage = "off"
      <4>1. docs = <<>>
        BY <2>1, <3>1 DEF UpdateTypes
      <4>2. DOMAIN docs = {}
        BY <4>1
      <4> QED BY <4>2
    <3>2. CASE updateStage # "off"
      BY <2>1, <3>2, DocumentOf DEF UpdateTypes
    <3> QED BY <3>1, <3>2
  <2>3. copy.id \in Documents \cup {0}
    BY <2>1 DEF UpdateTypes, NoCopy
  <2> QED BY <2>1, <2>2, <2>3 DEF UpdateTypes, UpdateTypeOK, Calling
<1> QED BY <1>1, UpdateInvariant, MarkdownAssumption, UpdateAssumption, PTL

(* An update is safe (update.rs check_revision and resolve_id, anchor.rs,   *)
(* content.rs): a caller that asserts the revision of its copy overwrites no*)
(* line that its copy does not hold, where the server looks at the revision *)
(* that is sent; what was exported from one document is not written into    *)
(* another; and no document is blanked or given the block of a file.        *)
THEOREM UpdateSafety == UpdateSpec => UpdateIsSafe
<1> DEFINE Loss ==
      \A id \in DOMAIN docs :
        Changed(id) /\ update.pin # 0 /\ server.honours =>
          \A line \in ForeignLines :
            line \in ToSet(docs[id].body) =>
              line \in ToSet(docs'[id].body) \cup ToSet(copy.body)
    Stays ==
      \A id \in DOMAIN docs :
        Changed(id) /\ NeedsBody(update.kind) =>
          /\ IsBlank(docs'[id].body) => IsBlank(docs[id].body)
          /\ Rule \in ToSet(docs'[id].body) => Rule \in ToSet(docs[id].body)
<1>1. UpdateInv /\ [UpdateNext]_updateVars => [Loss]_updateVars
  BY LossIsSeen
<1>2. UpdateInv /\ [UpdateNext]_updateVars => [Stays]_updateVars
  BY TextStays
<1>3. UpdateInv => RightDocument
  BY DEF UpdateInv
<1> QED BY <1>1, <1>2, <1>3, UpdateInvariant, MarkdownAssumption, UpdateAssumption, PTL
        DEF UpdateSpec, UpdateIsSafe, NoUnseenLoss, BodyIsText

(* A change to a section leaves everything outside of the one section its   *)
(* address names as it is when the write lands, where the server reports    *)
(* revisions and looks at them (section/edit.rs, anchor.rs section_plan):   *)
(* the anchor stands in one place of the body it is made from, and that body*)
(* is still there.                                                          *)
THEOREM SectionSafety == UpdateSpec => OnlyTheSection
<1> DEFINE Only ==
      \A id \in DOMAIN docs :
        /\ Changed(id)
        /\ update.kind \in {"section", "delete_section"}
        /\ server.reports /\ server.honours
        => LET old == docs[id].body  new == docs'[id].body
           IN  \E i \in Hits(old, update.address, TRUE) :
                 /\ Cardinality(Resolve(old, update.address)) = 1
                 /\ SubSeq(new, 1, i - 1) = SubSeq(old, 1, i - 1)
                 /\ LET rest == Len(old) + 1 - End(old, i)
                    IN  /\ rest <= Len(new)
                        /\ SubSeq(new, Len(new) - rest + 1, Len(new))
                             = SubSeq(old, End(old, i), Len(old))
<1>1. UpdateInv /\ [UpdateNext]_updateVars => [Only]_updateVars
  BY MarkdownAssumption, SectionStays DEF SectionReplaced, SectionKinds
<1> QED BY <1>1, UpdateInvariant, MarkdownAssumption, UpdateAssumption, PTL
        DEF UpdateSpec, OnlyTheSection
=============================================================================

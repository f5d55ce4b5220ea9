------------------------- MODULE RequestChannelProofs -------------------------
(***************************************************************************)
(* The proofs about RequestChannel, for every set of rows, every page size *)
(* of the command and of the server, every cap and every bound.            *)
(*                                                                         *)
(* The argument is about ranks: the rank of a row is the number of rows in *)
(* front of it.  While a list is fetched, the rows it has are those of the *)
(* ranks from its start up to its offset, and a row that was there from    *)
(* the start is one of them or still behind the offset (InStep).  A page   *)
(* is the rows of the next ranks (PageRows), an insertion or a removal     *)
(* behind the offset leaves the ranks in front of it alone (RankInsert,    *)
(* RankDelete), and what the command reports when it ends follows from the *)
(* last page.                                                              *)
(***************************************************************************)
EXTENDS RequestChannel, FiniteSetTheorems, SequenceTheorems, TLAPS

USE RowsAssumption

-----------------------------------------------------------------------------
(* The invariant.                                                           *)

(* A command that has not ended has neither a result nor pages to spare,    *)
(* its write was not performed, and its next page starts behind the rows it *)
(* has (fetch_all_pages).                                                   *)
Underway ==
  pc # "ended" =>
    /\ result = "none"
    /\ performed = 0
    /\ pages < MaxPages
    /\ offset = Start + Len(merged)
    /\ pc = "idle" => merged = <<>>
    /\ command.kind # "list" => merged = <<>>
    /\ command.kind = "list" /\ command.cap # NoCap => Len(merged) <= command.cap

(* While no row moved across the offset and the server confirmed where each *)
(* page starts, the list has the rows of the ranks up to the offset, and a  *)
(* row that was there all along is one of them or is still to come.         *)
InStep ==
  pc # "ended" /\ ~ unconfirmed /\ ~ shifted =>
    /\ \A r \in stable : r \in rows /\ (r \in ToSet(merged) \/ Rank(r) >= offset)
    /\ ~ pushed => \A i \in 1 .. Len(merged) :
                     merged[i] \in rows /\ Rank(merged[i]) = Start + i - 1

Reported == NothingIsHidden /\ NoRowTwice /\ CutIsProven /\ AtMostOnce

IInv == TypeOK /\ Underway /\ InStep /\ Reported

-----------------------------------------------------------------------------
(* Ranks.                                                                   *)

(* A rank is a number, and so is the size of the collection.                *)
LEMMA RankType ==
  ASSUME rows \subseteq Rows, NEW r
  PROVE  /\ IsFiniteSet(rows) /\ IsFiniteSet(InFront(r))
         /\ Cardinality(rows) \in Nat
         /\ Rank(r) \in Nat
<1>1. IsFiniteSet(rows)
  BY FS_Subset
<1>2. InFront(r) \in SUBSET rows
  BY DEF InFront
<1> QED
  BY <1>1, <1>2, FS_Subset, FS_CardinalityType DEF Rank

(* Ranks follow the order of the rows.                                      *)
LEMMA RankOrder ==
  ASSUME rows \subseteq Rows, NEW q \in Rows, NEW r \in Rows
  PROVE  /\ q <= r => Rank(q) <= Rank(r)
         /\ q \in rows /\ q < r => Rank(q) < Rank(r)
<1>1. ASSUME q <= r PROVE InFront(q) \in SUBSET InFront(r)
  <2>1. ASSUME NEW x \in InFront(q) PROVE x \in InFront(r)
    <3>1. x \in rows /\ x < q
      BY DEF InFront
    <3>2. x < r
      BY <1>1, <3>1
    <3> QED
      BY <3>1, <3>2 DEF InFront
  <2> QED
    BY <2>1
<1>2. ASSUME q <= r PROVE Rank(q) <= Rank(r)
  BY <1>1, <1>2, RankType, FS_Subset DEF Rank
<1>3. ASSUME q \in rows, q < r PROVE Rank(q) < Rank(r)
  <2>1. q \in InFront(r) /\ q \notin InFront(q)
    BY <1>3 DEF InFront
  <2>2. InFront(q) \in SUBSET InFront(r)
    BY <1>1, <1>3
  <2>3. Rank(q) # Rank(r)
    BY <2>1, <2>2, RankType, FS_Subset DEF Rank
  <2> QED
    BY <1>2, <1>3, <2>3, RankType
<1> QED
  BY <1>2, <1>3

(* A row of the collection has a rank below its size.                       *)
LEMMA RankBound ==
  ASSUME rows \subseteq Rows, NEW r \in rows
  PROVE  Rank(r) < Cardinality(rows)
<1>1. InFront(r) \in SUBSET rows /\ r \in rows /\ r \notin InFront(r)
  BY DEF InFront
<1>2. Rank(r) <= Cardinality(rows) /\ Rank(r) # Cardinality(rows)
  BY <1>1, RankType, FS_Subset DEF Rank
<1> QED
  BY <1>2, RankType

(* No two rows have the same rank, and below the size every rank is taken.  *)
LEMMA RankUnique ==
  ASSUME rows \subseteq Rows, NEW q \in rows, NEW r \in rows, Rank(q) = Rank(r)
  PROVE  q = r
<1>1. ~ (q < r) /\ ~ (r < q)
  BY RankOrder, RankType
<1> QED
  BY <1>1

(* There is a row at every place of the collection.                         *)
LEMMA RowAtRank ==
  ASSUME rows \subseteq Rows, NEW n \in Nat, n < Cardinality(rows)
  PROVE  RowAt(n) \in rows /\ Rank(RowAt(n)) = n
<1> DEFINE size == Cardinality(rows)
           rank == [r \in rows |-> Rank(r)]
<1>1. size \in Nat
  BY RankType
<1>2. IsFiniteSet(0 .. size - 1) /\ Cardinality(0 .. size - 1) = size
  <2> HIDE DEF size
  <2>1. 0 \in Int /\ size - 1 \in Int
    BY <1>1
  <2> QED
    BY <1>1, <2>1, FS_Interval, SMTT(20)
<1>3. rank \in Injection(rows, 0 .. size - 1)
  BY RankType, RankBound, RankUnique, <1>1 DEF Injection, IsInjective
<1>4. rank \in Surjection(rows, 0 .. size - 1)
  BY <1>2, <1>3, FS_Injection, Zenon
<1>5. \E r \in rows : Rank(r) = n
  <2>1. n \in 0 .. size - 1
    BY <1>1
  <2>2. PICK r \in rows : rank[r] = n
    BY <1>4, <2>1 DEF Surjection
  <2> QED
    BY <2>2
<1> QED
  BY <1>5 DEF RowAt

-----------------------------------------------------------------------------
(* What the server lists, and what a page has.                              *)

(* The listing from an offset has the rows of the ranks from there on.      *)
LEMMA Listing ==
  ASSUME rows \subseteq Rows, NEW from \in Nat
  PROVE  /\ From(from) \in Seq(rows)
         /\ Len(From(from)) = IF from < Cardinality(rows) THEN Cardinality(rows) - from ELSE 0
         /\ \A i \in 1 .. Len(From(from)) : Rank(From(from)[i]) = from + i - 1
         /\ \A r \in rows : Rank(r) >= from => \E i \in 1 .. Len(From(from)) : From(from)[i] = r
<1> DEFINE n == Cardinality(rows) - from
<1>1. Cardinality(rows) \in Nat /\ n \in Int
  BY RankType
<1>2. \A i \in 1 .. n : RowAt(from + i - 1) \in rows /\ Rank(RowAt(from + i - 1)) = from + i - 1
  BY <1>1, RowAtRank
<1>3. From(from) \in [1 .. n -> rows] /\ \A i \in 1 .. n : From(from)[i] = RowAt(from + i - 1)
  BY <1>2 DEF From
<1>4. From(from) \in Seq(rows) /\ Len(From(from)) = IF from < Cardinality(rows) THEN n ELSE 0
  <2>1. ASSUME NEW k \in Nat, From(from) \in [1 .. k -> rows]
        PROVE  From(from) \in Seq(rows) /\ Len(From(from)) = k
    BY <2>1
  <2>2. CASE from < Cardinality(rows)
    <3>1. n \in Nat
      BY <1>1, <2>2
    <3>2. From(from) \in Seq(rows) /\ Len(From(from)) = n
      <4> HIDE DEF n
      <4> QED
        BY <1>3, <2>1, <3>1
    <3> QED
      BY <2>2, <3>2
  <2>3. CASE ~ (from < Cardinality(rows))
    <3>1. 1 .. n = 1 .. 0
      BY <1>1, <2>3
    <3>2. From(from) \in [1 .. 0 -> rows]
      BY <1>3, <3>1
    <3> QED
      BY <2>1, <2>3, <3>2
  <2> QED
    BY <2>2, <2>3
<1>5. ASSUME NEW r \in rows, Rank(r) >= from
      PROVE  \E i \in 1 .. n : From(from)[i] = r
  <2>1. Rank(r) \in Nat /\ Rank(r) < Cardinality(rows)
    BY RankType, RankBound
  <2>2. Rank(r) - from + 1 \in 1 .. n
    BY <1>1, <1>5, <2>1
  <2>3. RowAt(Rank(r)) = r
    BY <2>1, RowAtRank, RankUnique
  <2> QED
    BY <1>1, <1>3, <2>1, <2>2, <2>3
<1>6. 1 .. Len(From(from)) = 1 .. n
  BY <1>1, <1>4
<1> QED
  BY <1>1, <1>2, <1>3, <1>4, <1>5, <1>6

(* A page is the beginning of a listing.                                    *)
LEMMA FirstRows ==
  ASSUME NEW S, NEW n \in Nat, NEW listing \in Seq(S)
  PROVE  /\ First(n, listing) \in Seq(S)
         /\ Len(First(n, listing)) = Smaller(n, Len(listing))
         /\ \A i \in 1 .. Smaller(n, Len(listing)) : First(n, listing)[i] = listing[i]
  BY DEF First, Smaller

(* A page of up to n rows has the rows of the next ranks; it is shorter     *)
(* only when it has all that is left.                                       *)
LEMMA PageRows ==
  ASSUME rows \subseteq Rows, NEW n \in Nat, NEW from \in Nat
  PROVE  LET page == First(n, From(from)) IN
         /\ page \in Seq(rows)
         /\ Len(page) > 0 => from + Len(page) <= Cardinality(rows)
         /\ \A i \in 1 .. Len(page) : Rank(page[i]) = from + i - 1
         /\ \A r \in rows : from <= Rank(r) /\ Rank(r) < from + Len(page) => r \in ToSet(page)
         /\ Len(page) < n => \A r \in rows : Rank(r) < from + Len(page)
<1> DEFINE listing == From(from)
           page == First(n, listing)
<1>1. listing \in Seq(rows) /\ Cardinality(rows) \in Nat
  BY Listing, RankType
<1>2. /\ page \in Seq(rows) /\ Len(page) = Smaller(n, Len(listing))
      /\ \A i \in 1 .. Smaller(n, Len(listing)) : page[i] = listing[i]
  BY <1>1, FirstRows
<1>3. \A i \in 1 .. Len(page) : page[i] = listing[i]
  BY <1>2
<1>4. Len(page) <= Len(listing) /\ (Len(page) < n => Len(page) = Len(listing))
  BY <1>1, <1>2 DEF Smaller
<1>5. Len(page) > 0 => from + Len(page) <= Cardinality(rows)
  BY <1>1, <1>2, <1>4, Listing
<1>6. ASSUME NEW i \in 1 .. Len(page) PROVE Rank(page[i]) = from + i - 1
  <2>1. i \in 1 .. Len(listing) /\ page[i] = listing[i]
    BY <1>1, <1>2, <1>3, <1>4
  <2> QED
    BY <2>1, Listing
<1>7. ASSUME NEW r \in rows, from <= Rank(r), Rank(r) < from + Len(page)
      PROVE  r \in ToSet(page)
  <2>1. PICK i \in 1 .. Len(listing) : listing[i] = r
    BY <1>7, Listing, RankType
  <2>2. Rank(r) = from + i - 1
    BY <2>1, Listing
  <2>3. i \in 1 .. Len(page)
    BY <1>1, <1>2, <1>7, <2>1, <2>2
  <2>4. page[i] = r /\ i \in DOMAIN page
    BY <1>2, <1>3, <2>1, <2>3
  <2> QED
    BY <2>4 DEF ToSet
<1>8. ASSUME Len(page) < n, NEW r \in rows
      PROVE  Rank(r) < from + Len(page)
  <2>1. Rank(r) < Cardinality(rows) /\ Rank(r) \in Nat
    BY RankBound, RankType
  <2>2. Len(page) = IF from < Cardinality(rows) THEN Cardinality(rows) - from ELSE 0
    BY <1>4, <1>8, Listing
  <2> QED
    BY <1>1, <2>1, <2>2
<1> QED
  BY <1>2, <1>5, <1>6, <1>7, <1>8

-----------------------------------------------------------------------------
(* The collection changes.                                                  *)

(* A row inserted behind an offset leaves the ranks in front of it alone,   *)
(* and never lowers one.                                                    *)
LEMMA RankInsert ==
  ASSUME rows \subseteq Rows, NEW new \in Rows \ rows, rows' = rows \cup {new}, NEW r \in rows
  PROVE  /\ Rank(r)' >= Rank(r)
         /\ Rank(r) < Rank(new) => Rank(r)' = Rank(r)
<1>1. InFront(r) \in SUBSET InFront(r)'
  BY DEF InFront
<1>2. IsFiniteSet(InFront(r)) /\ IsFiniteSet(InFront(r)')
  <2>1. IsFiniteSet(rows')
    BY RankType, FS_AddElement
  <2>2. InFront(r)' \in SUBSET rows'
    BY DEF InFront
  <2> QED
    BY <2>1, <2>2, RankType, FS_Subset
<1>3. ASSUME Rank(r) < Rank(new) PROVE InFront(r)' = InFront(r)
  <2>1. ~ (new <= r)
    BY <1>3, RankOrder, RankType
  <2>2. ~ (new < r)
    BY <2>1
  <2> QED
    BY <2>2 DEF InFront
<1> QED
  BY <1>1, <1>2, <1>3, FS_Subset, FS_CardinalityType DEF Rank

(* A row removed behind an offset leaves the ranks in front of it alone and *)
(* brings no row in front of it.                                            *)
LEMMA RankDelete ==
  ASSUME rows \subseteq Rows, NEW gone \in rows, rows' = rows \ {gone}, NEW r \in rows'
  PROVE  /\ Rank(r) < Rank(gone) => Rank(r)' = Rank(r)
         /\ Rank(r) > Rank(gone) => Rank(r)' >= Rank(gone)
         /\ Rank(r) # Rank(gone)
<1>1. r \in rows /\ r # gone /\ r \in Rows /\ gone \in Rows
  OBVIOUS
<1>2. Rank(r) # Rank(gone)
  BY <1>1, RankUnique
<1>3. InFront(r)' = InFront(r) \ {gone}
  BY DEF InFront
<1>4. ASSUME Rank(r) < Rank(gone) PROVE Rank(r)' = Rank(r)
  <2>1. ~ (gone <= r)
    BY <1>1, <1>4, RankOrder, RankType
  <2>2. gone \notin InFront(r)
    BY <1>1, <2>1 DEF InFront
  <2> QED
    BY <1>3, <2>2 DEF Rank
<1>5. ASSUME Rank(r) > Rank(gone) PROVE Rank(r)' >= Rank(gone)
  <2>1. Cardinality(InFront(r) \ {gone}) >= Cardinality(InFront(r)) - 1
    <3>1. IsFiniteSet(InFront(r)) /\ Cardinality(InFront(r)) \in Nat
      BY RankType, FS_CardinalityType
    <3>2. Cardinality(InFront(r) \ {gone}) \in {Cardinality(InFront(r)) - 1, Cardinality(InFront(r))}
      BY <3>1, FS_RemoveElement
    <3> QED
      BY <3>1, <3>2
  <2>2. Rank(r)' >= Rank(r) - 1
    BY <1>3, <2>1 DEF Rank
  <2>3. Rank(r)' \in Nat
    BY <1>3, RankType, FS_RemoveElement, FS_CardinalityType DEF Rank
  <2> QED
    BY <1>5, <2>2, <2>3, RankType
<1> QED
  BY <1>2, <1>4, <1>5

-----------------------------------------------------------------------------
(* The steps of one request.                                                *)

USE DEF Commands, Lists

(* The assumptions on the bounds, one by one.                               *)
LEMMA Bounds ==
  /\ PageSize \in Nat /\ PageSize > 0
  /\ ServerMax \in Nat /\ ServerMax > 0
  /\ MaxPages \in Nat /\ MaxPages > 0
  /\ MaxRetries \in Nat /\ TopOffset \in Nat
  /\ \A start \in Starts : start \in 0 .. TopOffset
  BY SizesAssumption, OffsetsAssumption

(* The offset a command starts from is one of those it may start from.      *)
LEMMA StartType ==
  ASSUME command \in Commands
  PROVE  Start \in 0 .. TopOffset /\ Start \in Nat
<1>1. command.kind = "write" \/ command.start \in Starts
  OBVIOUS
<1> QED
  BY <1>1, Bounds DEF Start

(* The invariant holds of a command that was not started.                   *)
LEMMA InitInv == Init => IInv
<1> SUFFICES ASSUME Init PROVE IInv
  OBVIOUS
<1>1. TypeOK
  <2>1. offset \in 0 .. TopOffset
    BY StartType DEF Init
  <2>2. attempt \in 0 .. MaxRetries /\ pages \in 0 .. MaxPages
    BY Bounds DEF Init
  <2>3. merged \in Seq(Rows)
    BY DEF Init
  <2> QED
    BY <2>1, <2>2, <2>3 DEF Init, TypeOK, Results
<1>2. Underway
  <2>1. command.kind = "list" /\ command.cap # NoCap => command.cap \in Nat
    BY CapsAssumption DEF Init
  <2>2. Len(merged) = 0 /\ offset = Start + 0
    BY StartType DEF Init
  <2> QED
    BY <2>1, <2>2, Bounds DEF Init, Underway
<1>3. InStep
  BY DEF Init, InStep
<1>4. Reported
  BY DEF Init, Reported, NothingIsHidden, NoRowTwice, CutIsProven, AtMostOnce, IsInjective
<1> QED
  BY <1>1, <1>2, <1>3, <1>4 DEF IInv

(* The command starts: the rows behind its offset are those it must list.   *)
LEMMA BeginInv ==
  ASSUME IInv, Begin
  PROVE  IInv'
<1> USE DEF IInv, Begin
<1>0. Start \in Nat
  BY StartType DEF TypeOK
<1>1. From(Start) \in Seq(rows) /\ rows \subseteq Rows
  BY <1>0, Listing DEF TypeOK
<1>2. stable' \subseteq rows
  BY <1>1 DEF ToSet
<1>3. TypeOK'
  BY <1>1, <1>2 DEF TypeOK, request, fetched
<1>4. ASSUME NEW r \in stable' PROVE Rank(r) >= Start
  <2>1. PICK i \in 1 .. Len(From(Start)) : From(Start)[i] = r
    BY <1>1 DEF ToSet
  <2>2. Rank(r) = Start + i - 1
    BY <1>0, <1>1, <2>1, Listing
  <2> QED
    BY <1>0, <1>1, <2>1, <2>2
<1>5. Underway'
  BY DEF Underway, Start, request, fetched
<1>6. offset = Start /\ merged = <<>>
  BY <1>0 DEF Underway
<1>7. InStep'
  BY <1>0, <1>2, <1>4, <1>6 DEF InStep, Rank, InFront, Start, request, fetched
<1>8. Reported'
  BY <1>6 DEF Reported, NothingIsHidden, NoRowTwice, CutIsProven, AtMostOnce, Underway,
              IsInjective, request, fetched
<1> QED
  BY <1>3, <1>5, <1>7, <1>8

(* A step of a request that leaves the rows alone, or ends the command with *)
(* a failure or with its write.                                             *)
LEMMA RequestStep ==
  ASSUME IInv,
         pc \in {"bearer", "request", "refused"},
         pc' \in {"bearer", "request", "refused", "ended"},
         UNCHANGED <<collection, fetched, command, renewable>>,
         renewed' \in BOOLEAN, attempt' \in 0 .. MaxRetries,
         performed' \in {0, 1},
         pc' # "ended" => performed' = 0 /\ result' = result,
         pc' = "ended" => result' \in {"failed", "written"}
  PROVE  IInv'
<1> USE DEF IInv, collection, fetched
<1>1. TypeOK'
  BY DEF TypeOK, Results
<1>2. Underway'
  BY DEF Underway, Start
<1>3. InStep'
  BY DEF InStep, Start, Rank, InFront
<1>4. NoRowTwice'
  BY DEF Reported, NoRowTwice
<1>5. (NothingIsHidden /\ CutIsProven /\ AtMostOnce)'
  BY DEF NothingIsHidden, CutIsProven, AtMostOnce, Underway
<1> QED
  BY <1>1, <1>2, <1>3, <1>4, <1>5 DEF Reported

(* Taking the bearer sends nothing yet.                                     *)
LEMMA BearerInv ==
  ASSUME IInv, Bearer
  PROVE  IInv'
<1>1. performed = 0 /\ result = "none" /\ renewed \in BOOLEAN /\ attempt \in 0 .. MaxRetries
  BY DEF IInv, Underway, TypeOK, Bearer
<1> QED
  BY <1>1, RequestStep DEF Bearer, End, request

(* A request that was limited was not performed.                            *)
LEMMA RateLimitedInv ==
  ASSUME IInv, RateLimited
  PROVE  IInv'
<1>1. performed = 0 /\ result = "none" /\ renewed \in BOOLEAN /\ attempt \in 0 .. MaxRetries
  BY DEF IInv, Underway, TypeOK, RateLimited
<1>2. attempt' \in 0 .. MaxRetries /\ renewed' \in BOOLEAN
  BY <1>1, Bounds DEF RateLimited, Retries, End, request
<1> QED
  BY <1>1, <1>2, RequestStep DEF RateLimited, End, request

(* Neither was one whose token was refused.                                 *)
LEMMA UnauthorizedInv ==
  ASSUME IInv, Unauthorized
  PROVE  IInv'
<1>1. performed = 0 /\ result = "none" /\ renewed \in BOOLEAN /\ attempt \in 0 .. MaxRetries
  BY DEF IInv, Underway, TypeOK, Unauthorized
<1> QED
  BY <1>1, RequestStep DEF Unauthorized, request

(* A renewal goes back to the same request.                                 *)
LEMMA RenewInv ==
  ASSUME IInv, Renew
  PROVE  IInv'
<1>1. performed = 0 /\ result = "none" /\ renewed \in BOOLEAN /\ attempt \in 0 .. MaxRetries
  BY DEF IInv, Underway, TypeOK, Renew
<1>2. renewed' \in BOOLEAN
  BY <1>1, Zenon DEF Renew, End, request
<1>3. attempt' \in 0 .. MaxRetries
  BY <1>1, Bounds DEF Renew, End, request
<1> QED
  BY <1>1, <1>2, <1>3, RequestStep DEF Renew, End

(* The request may have been performed, and the command ends.               *)
LEMMA NoAnswerInv ==
  ASSUME IInv, NoAnswer
  PROVE  IInv'
<1>1. performed = 0 /\ renewed \in BOOLEAN /\ attempt \in 0 .. MaxRetries
  BY DEF IInv, Underway, TypeOK, NoAnswer
<1> QED
  BY <1>1, RequestStep DEF NoAnswer, End, Gone, request

(* A write that is answered was performed once, and the command ends.       *)
LEMMA WrittenInv ==
  ASSUME IInv, Written
  PROVE  IInv'
<1>1. performed = 0 /\ renewed \in BOOLEAN /\ attempt \in 0 .. MaxRetries
  BY DEF IInv, Underway, TypeOK, Written
<1> QED
  BY <1>1, RequestStep DEF Written, End, Gone, request
-----------------------------------------------------------------------------
(* A page.                                                                  *)

(* The server is always asked for a row, and applies a page size of at      *)
(* least one (page_request_limit).                                          *)
LEMMA AppliedType ==
  ASSUME TypeOK, command.kind \in Lists
  PROVE  Applied \in Nat /\ Applied > 0
<1>1. Len(merged) \in Nat
  BY DEF TypeOK
<1>2. command.kind = "page" => command.size \in Nat /\ command.size > 0
  BY Bounds DEF TypeOK
<1>3. command.kind = "list" => command.cap = NoCap \/ command.cap \in Nat
  BY CapsAssumption DEF TypeOK
<1>4. RequestLimit \in Nat /\ RequestLimit > 0
  BY <1>1, <1>2, <1>3, Bounds DEF RequestLimit, Smaller, Larger
<1> QED
  BY <1>4, Bounds DEF Applied, Smaller

(* Rows of consecutive ranks are all different.                             *)
LEMMA ConsecutiveRows ==
  ASSUME NEW list \in Seq(Rows), NEW start \in Nat,
         \A i \in 1 .. Len(list) : Rank(list[i]) = start + i - 1
  PROVE  IsInjective(list)
<1>1. SUFFICES ASSUME NEW i \in 1 .. Len(list), NEW j \in 1 .. Len(list), list[i] = list[j]
               PROVE  i = j
  BY DEF IsInjective
<1>2. start + i - 1 = start + j - 1
  BY <1>1
<1> QED
  BY <1>2

(* What a command has with a page.                                          *)
LEMMA GotType ==
  ASSUME TypeOK, command.kind \in Lists, NEW applied \in Nat
  PROVE  LET page == First(Applied, From(applied))
             got == merged \o page
         IN
         /\ page \in Seq(Rows)
         /\ got \in Seq(Rows)
         /\ Len(got) = Len(merged) + Len(page)
         /\ \A i \in 1 .. Len(merged) : got[i] = merged[i]
         /\ \A i \in 1 .. Len(page) : got[Len(merged) + i] = page[i]
         /\ ToSet(got) = ToSet(merged) \cup ToSet(page)
<1> DEFINE page == First(Applied, From(applied))
           got == merged \o page
<1>1. merged \in Seq(Rows) /\ page \in Seq(Rows)
  <2>1. rows \subseteq Rows /\ merged \in Seq(Rows)
    BY DEF TypeOK
  <2>2. page \in Seq(rows)
    BY <2>1, PageRows, AppliedType
  <2> QED
    BY <2>1, <2>2, SeqMonotonic
<1> HIDE DEF page
<1>2. /\ got \in Seq(Rows)
      /\ Len(got) = Len(merged) + Len(page)
      /\ \A i \in 1 .. Len(merged) : got[i] = merged[i]
      /\ \A i \in 1 .. Len(page) : got[Len(merged) + i] = page[i]
  BY <1>1
<1>3. ToSet(got) = ToSet(merged) \cup ToSet(page)
  <2>1. DOMAIN got = 1 .. Len(got) /\ DOMAIN merged = 1 .. Len(merged) /\ DOMAIN page = 1 .. Len(page)
    BY <1>1, <1>2
  <2>2. ASSUME NEW i \in 1 .. Len(got) PROVE got[i] \in ToSet(merged) \cup ToSet(page)
    <3>1. CASE i <= Len(merged)
      BY <1>1, <1>2, <2>1, <3>1 DEF ToSet
    <3>2. CASE i > Len(merged)
      <4>1. i - Len(merged) \in 1 .. Len(page) /\ got[i] = page[i - Len(merged)]
        BY <1>1, <1>2, <3>2
      <4> QED
        BY <2>1, <4>1 DEF ToSet
    <3> QED
      BY <1>1, <1>2, <3>1, <3>2
  <2>3. ASSUME NEW i \in 1 .. Len(merged) PROVE merged[i] \in ToSet(got)
    BY <1>1, <1>2, <2>1 DEF ToSet
  <2>4. ASSUME NEW i \in 1 .. Len(page) PROVE page[i] \in ToSet(got)
    <3>1. Len(merged) + i \in 1 .. Len(got)
      BY <1>1, <1>2
    <3> QED
      BY <1>2, <2>1, <3>1 DEF ToSet
  <2> HIDE DEF got
  <2> QED
    BY <2>1, <2>2, <2>3, <2>4 DEF ToSet
<1> QED
  BY <1>1, <1>2, <1>3 DEF page
(* A page read at the offset continues the list: while nothing moved across *)
(* the offset, what the command then has are the rows of the ranks up to    *)
(* behind the page, and the last page has all that was still to come.       *)
LEMMA NextRows ==
  ASSUME IInv, pc = "request", command.kind \in Lists,
         NEW reports \in SUBSET {"offset", "limit"}
  PROVE  LET page == First(Applied, From(offset))
             got == merged \o page
         IN
         /\ Len(page) > 0 => Start + Len(got) <= Cardinality(rows)
         /\ ~ unconfirmed /\ ~ shifted =>
              /\ \A r \in stable :
                   r \in rows /\ (r \in ToSet(got) \/ Rank(r) >= offset + Len(page))
              /\ Len(page) < Applied => stable \subseteq ToSet(got)
              /\ ~ pushed => \A i \in 1 .. Len(got) :
                               got[i] \in rows /\ Rank(got[i]) = Start + i - 1
<1> DEFINE page == First(Applied, From(offset))
           got == merged \o page
<1> USE DEF IInv
<1>1. /\ rows \subseteq Rows /\ offset \in Nat /\ Start \in Nat
      /\ merged \in Seq(Rows) /\ Len(merged) \in Nat
      /\ offset = Start + Len(merged)
  BY StartType, Bounds DEF TypeOK, Underway
<1>2. Applied \in Nat /\ Applied > 0
  BY AppliedType
<1>3. /\ page \in Seq(rows)
      /\ Len(page) > 0 => offset + Len(page) <= Cardinality(rows)
      /\ \A i \in 1 .. Len(page) : Rank(page[i]) = offset + i - 1
      /\ \A r \in rows : offset <= Rank(r) /\ Rank(r) < offset + Len(page) => r \in ToSet(page)
      /\ Len(page) < Applied => \A r \in rows : Rank(r) < offset + Len(page)
  BY <1>1, <1>2, PageRows
<1>4. /\ page \in Seq(Rows)
      /\ got \in Seq(Rows)
      /\ Len(got) = Len(merged) + Len(page)
      /\ \A i \in 1 .. Len(merged) : got[i] = merged[i]
      /\ \A i \in 1 .. Len(page) : got[Len(merged) + i] = page[i]
      /\ ToSet(got) = ToSet(merged) \cup ToSet(page)
  BY <1>1, GotType
<1> HIDE DEF page, got
<1>5. Len(page) \in Nat /\ Cardinality(rows) \in Nat
  <2>1. Cardinality(rows) \in Nat
    BY <1>1, RankType
  <2> QED
    BY <1>4, <2>1
<1>6. Len(page) > 0 => Start + Len(got) <= Cardinality(rows)
  BY <1>1, <1>3, <1>4, <1>5
<1>7. ASSUME ~ unconfirmed, ~ shifted, NEW r \in stable
      PROVE  r \in rows /\ (r \in ToSet(got) \/ Rank(r) >= offset + Len(page))
  <2>1. r \in rows /\ (r \in ToSet(merged) \/ Rank(r) >= offset)
    BY <1>7 DEF InStep
  <2>2. Rank(r) \in Nat
    BY <1>1, RankType
  <2> QED
    BY <1>1, <1>3, <1>4, <1>5, <2>1, <2>2
<1>8. ASSUME ~ unconfirmed, ~ shifted, Len(page) < Applied, NEW r \in stable
      PROVE  r \in ToSet(got)
  <2>1. Rank(r) \in Nat
    BY <1>1, RankType
  <2>2. r \in rows /\ (r \in ToSet(got) \/ Rank(r) >= offset + Len(page))
    BY <1>7, <1>8
  <2>3. Rank(r) < offset + Len(page)
    BY <1>3, <1>8, <2>2
  <2> QED
    BY <1>1, <1>5, <2>1, <2>2, <2>3
<1>9. ASSUME ~ unconfirmed, ~ shifted, ~ pushed, NEW i \in 1 .. Len(got)
      PROVE  got[i] \in rows /\ Rank(got[i]) = Start + i - 1
  <2>1. CASE i <= Len(merged)
    <3>1. i \in 1 .. Len(merged) /\ got[i] = merged[i]
      BY <1>1, <1>4, <1>9, <2>1
    <3>2. merged[i] \in rows /\ Rank(merged[i]) = Start + i - 1
      BY <1>9, <3>1 DEF InStep
    <3> QED
      BY <3>1, <3>2
  <2>2. CASE i > Len(merged)
    <3>1. PICK j \in 1 .. Len(page) : i = Len(merged) + j
      <4>1. i - Len(merged) \in 1 .. Len(page) /\ i = Len(merged) + (i - Len(merged))
        BY <1>1, <1>4, <1>5, <1>9, <2>2
      <4> QED
        BY <4>1
    <3>2. got[i] = page[j] /\ page[j] \in rows /\ Rank(page[j]) = offset + j - 1
      BY <1>3, <1>4, <3>1
    <3>3. offset + j - 1 = Start + i - 1
      BY <1>1, <1>5, <3>1
    <3> QED
      BY <3>2, <3>3
  <2> QED
    BY <1>1, <1>4, <1>5, <2>1, <2>2
<1> QED
  BY <1>6, <1>7, <1>8, <1>9 DEF page, got

(* One page of a size the user chose.                                       *)
LEMMA ManualPageInv ==
  ASSUME IInv, pc = "request", NEW applied \in {offset, 0},
         NEW reports \in SUBSET {"offset", "limit"},
         ~ Contradicts(applied, reports),
         ManualPage(First(Applied, From(applied)), reports),
         UNCHANGED collection
  PROVE  IInv'
<1> DEFINE page == First(Applied, From(applied))
<1> USE DEF IInv, ManualPage, Accept, End, request, collection
<1>1. command.kind = "page" /\ merged = <<>> /\ applied \in Nat /\ pages < MaxPages
      /\ Start \in Nat /\ performed = 0
  BY StartType, Bounds DEF TypeOK, Underway
<1>2. page \in Seq(Rows) /\ merged' = page
  BY <1>1, GotType
<1>3. TypeOK'
  BY <1>1, <1>2, Bounds DEF TypeOK, Results, Truncations
<1>4. ASSUME ~ unconfirmed' PROVE applied = offset /\ ~ unconfirmed
  BY <1>4 DEF Contradicts
<1>5. page = merged \o page
  BY <1>1, <1>2
<1>6. NothingIsHidden'
  BY <1>1, <1>2, <1>4, <1>5, NextRows DEF NothingIsHidden
<1>7. NoRowTwice'
  BY <1>1, <1>2, <1>4, <1>5, NextRows, ConsecutiveRows DEF NoRowTwice
<1>8. (Underway /\ InStep /\ CutIsProven /\ AtMostOnce)'
  BY <1>1 DEF Underway, InStep, CutIsProven, AtMostOnce
<1> QED
  BY <1>3, <1>6, <1>7, <1>8 DEF Reported

(* The list is longer than the cap, and cut there.                          *)
LEMMA CutInv ==
  ASSUME IInv, pc = "request", NEW applied \in {offset, 0},
         NEW reports \in SUBSET {"offset", "limit"},
         ~ Contradicts(applied, reports), command.kind = "list",
         OverCap(merged \o First(Applied, From(applied))),
         Accept(SubSeq(merged \o First(Applied, From(applied)), 1, command.cap), reports),
         offset' = offset, End("max_items"),
         UNCHANGED collection
  PROVE  IInv'
<1> DEFINE page == First(Applied, From(applied))
           got == merged \o page
<1> USE DEF IInv, Accept, End, request, collection
<1>1. /\ applied \in Nat /\ pages < MaxPages /\ Start \in Nat /\ performed = 0
      /\ command.cap \in Nat /\ Start = command.start /\ merged \in Seq(Rows)
  <2>1. applied \in Nat /\ pages < MaxPages /\ performed = 0 /\ merged \in Seq(Rows)
    BY Bounds DEF TypeOK, Underway
  <2>2. Start \in Nat /\ Start = command.start
    BY StartType DEF TypeOK, Start
  <2>3. command.cap \in Nat
    BY CapsAssumption DEF TypeOK, OverCap
  <2> QED
    BY <2>1, <2>2, <2>3
<1>2. page \in Seq(Rows) /\ got \in Seq(Rows) /\ Len(got) = Len(merged) + Len(page)
  BY <1>1, GotType
<1>3. Len(got) > command.cap /\ Len(merged) <= command.cap
  BY DEF OverCap, Underway
<1> HIDE DEF got
<1>4. merged' \in Seq(Rows) /\ Len(merged') = command.cap
      /\ \A i \in 1 .. command.cap : merged'[i] = got[i]
  BY <1>1, <1>2, <1>3 DEF got
<1>5. TypeOK'
  <2>1. pages' \in 0 .. MaxPages
    BY <1>1, Bounds DEF TypeOK
  <2>2. unconfirmed' \in BOOLEAN
    OBVIOUS
  <2> QED
    BY <1>1, <1>4, <2>1, <2>2 DEF TypeOK, Results, Truncations
<1>6. ASSUME ~ unconfirmed' PROVE applied = offset /\ ~ unconfirmed
  BY <1>6 DEF Contradicts
<1>7. CutIsProven'
  <2> SUFFICES ASSUME ~ unconfirmed'
               PROVE  Cardinality(rows) > command.start + command.cap
    BY <1>4 DEF CutIsProven
  <2>1. Len(page) > 0
    BY <1>1, <1>2, <1>3
  <2>2. Start + Len(got) <= Cardinality(rows)
    BY <1>6, <2>1, NextRows DEF got
  <2>3. Cardinality(rows) \in Nat
    BY RankType DEF TypeOK
  <2>4. Len(got) \in Nat
    BY <1>2 DEF got
  <2> QED
    BY <1>1, <1>3, <2>2, <2>3, <2>4 DEF got
<1>8. NoRowTwice'
  <2> SUFFICES ASSUME ~ unconfirmed', ~ shifted, ~ pushed
               PROVE  IsInjective(merged')
    BY DEF NoRowTwice
  <2>1. \A i \in 1 .. Len(got) : Rank(got[i]) = Start + i - 1
    BY <1>6, NextRows DEF got
  <2>2. 1 .. command.cap \subseteq 1 .. Len(got)
    BY <1>1, <1>2, <1>3 DEF got
  <2>3. \A i \in 1 .. Len(merged') : Rank(merged'[i]) = Start + i - 1
    BY <1>4, <2>1, <2>2
  <2> QED
    BY <1>1, <1>4, <2>3, ConsecutiveRows
<1>9. (NothingIsHidden /\ Underway /\ InStep /\ AtMostOnce)'
  BY <1>1 DEF NothingIsHidden, Underway, InStep, AtMostOnce
<1> QED
  BY <1>5, <1>7, <1>8, <1>9 DEF Reported
(* The page is taken as it is: the list ends with it, or goes on behind it. *)
LEMMA TakenInv ==
  ASSUME IInv, pc = "request", NEW applied \in {offset, 0},
         NEW reports \in SUBSET {"offset", "limit"},
         ~ Contradicts(applied, reports), command.kind = "list",
         ~ OverCap(merged \o First(Applied, From(applied))),
         Accept(merged \o First(Applied, From(applied)), reports),
         UNCHANGED <<collection, command, renewable>>,
         renewed' \in BOOLEAN, attempt' \in 0 .. MaxRetries,
         \/ /\ pc' = "ended"
            /\ result' \in {"complete", "offset_space", "page_limit"}
            /\ result' = "complete" => LastPage(Len(First(Applied, From(applied))), reports)
            /\ offset' \in 0 .. TopOffset
         \/ /\ pc' = "bearer" /\ result' = result
            /\ pages + 1 < MaxPages
            /\ offset' = offset + Len(First(Applied, From(applied)))
            /\ offset' <= TopOffset
  PROVE  IInv'
<1> DEFINE page == First(Applied, From(applied))
           got == merged \o page
<1> USE DEF IInv, Accept, collection
<1>1. /\ applied \in Nat /\ offset \in Nat /\ pages \in Nat /\ pages < MaxPages
      /\ performed = 0 /\ result = "none" /\ merged \in Seq(Rows)
      /\ offset = Start + Len(merged)
  BY Bounds DEF TypeOK, Underway
<1>2. Start \in Nat /\ Start' = Start
  BY StartType DEF TypeOK, Start
<1>3. page \in Seq(Rows) /\ got \in Seq(Rows) /\ Len(got) = Len(merged) + Len(page)
  BY <1>1, GotType
<1>4. merged' = got /\ performed' = 0
  BY <1>1
<1>5. ASSUME ~ unconfirmed' PROVE applied = offset /\ ~ unconfirmed
  BY <1>5 DEF Contradicts
<1> HIDE DEF page, got
<1>6. TypeOK'
  <2>1. pages' \in 0 .. MaxPages
    BY <1>1, Bounds
  <2>2. unconfirmed' \in BOOLEAN
    OBVIOUS
  <2>3. offset' \in 0 .. TopOffset
    BY <1>1, <1>3, Bounds DEF page
  <2>4. result' \in Results /\ pc' \in {"bearer", "ended"}
    BY <1>1 DEF Results, Truncations
  <2> QED
    BY <1>3, <1>4, <2>1, <2>2, <2>3, <2>4 DEF TypeOK
<1>7. Underway'
  <2> SUFFICES ASSUME pc' # "ended" PROVE Underway'
    BY DEF Underway
  <2>1. offset' = Start' + Len(merged')
    BY <1>1, <1>2, <1>3, <1>4 DEF page
  <2>2. command.cap # NoCap => Len(merged') <= command.cap
    <3>1. command.cap # NoCap => command.cap \in Nat
      BY CapsAssumption DEF TypeOK
    <3> QED
      BY <1>3, <1>4, <3>1 DEF OverCap, got, page
  <2> QED
    BY <1>1, <1>4, <2>1, <2>2 DEF Underway
<1>8. InStep'
  <2> SUFFICES ASSUME pc' # "ended", ~ unconfirmed', ~ shifted PROVE InStep'
    BY DEF InStep
  <2>1. applied = offset /\ ~ unconfirmed
    BY <1>5
  <2>2. offset' = offset + Len(page)
    BY DEF page
  <2>3. \A r \in stable : r \in rows /\ (r \in ToSet(got) \/ Rank(r) >= offset + Len(page))
    BY <2>1, NextRows DEF page, got
  <2>4. ~ pushed => \A i \in 1 .. Len(got) : got[i] \in rows /\ Rank(got[i]) = Start + i - 1
    BY <2>1, NextRows DEF page, got
  <2> QED
    BY <1>2, <1>4, <2>2, <2>3, <2>4 DEF InStep, Rank, InFront
<1>9. NothingIsHidden'
  <2> SUFFICES ASSUME result' = "complete", ~ unconfirmed', ~ shifted
               PROVE  stable \subseteq ToSet(got)
    BY <1>4 DEF NothingIsHidden
  <2>1. applied = offset /\ ~ unconfirmed
    BY <1>5
  <2>2. Len(page) < Applied
    BY <1>1, <1>3, AppliedType DEF LastPage, page
  <2> QED
    BY <2>1, <2>2, NextRows DEF page, got
<1>10. NoRowTwice'
  <2> SUFFICES ASSUME ~ unconfirmed', ~ shifted, ~ pushed
               PROVE  IsInjective(got)
    BY <1>4 DEF NoRowTwice
  <2>1. \A i \in 1 .. Len(got) : Rank(got[i]) = Start + i - 1
    BY <1>5, NextRows DEF page, got
  <2> QED
    BY <1>2, <1>3, <2>1, ConsecutiveRows
<1>11. (CutIsProven /\ AtMostOnce)'
  BY <1>1, <1>4 DEF CutIsProven, AtMostOnce
<1> QED
  BY <1>6, <1>7, <1>8, <1>9, <1>10, <1>11 DEF Reported

(* A page of a list that is fetched page by page.                           *)
LEMMA NextPageInv ==
  ASSUME IInv, pc = "request", NEW applied \in {offset, 0},
         NEW reports \in SUBSET {"offset", "limit"},
         ~ Contradicts(applied, reports),
         NextPage(First(Applied, From(applied)), reports),
         UNCHANGED collection
  PROVE  IInv'
<1> DEFINE page == First(Applied, From(applied))
           got == merged \o page
<1> HIDE DEF page
<1>1. NextPage(page, reports)
  BY DEF page
<1>2. command.kind = "list" /\ renewed \in BOOLEAN /\ attempt \in 0 .. MaxRetries
      /\ offset \in 0 .. TopOffset /\ pages \in Nat /\ pages < MaxPages
  BY <1>1, Bounds DEF NextPage, IInv, TypeOK, Underway
<1>3. CASE OverCap(got)
  <2>1. Accept(SubSeq(got, 1, command.cap), reports) /\ offset' = offset /\ End("max_items")
    BY <1>1, <1>3 DEF NextPage
  <2> QED
    BY <1>2, <1>3, <2>1, CutInv DEF page
<1>4. CASE ~ OverCap(got)
  <2>1. Accept(got, reports)
    BY <1>1, <1>4 DEF NextPage
  <2>2. ASSUME LastPage(Len(page), reports), offset' = offset, End("complete")
        PROVE  IInv'
    BY <1>2, <1>4, <2>1, <2>2, TakenInv DEF page, End, request
  <2>3. ASSUME offset' = offset, End("offset_space")
        PROVE  IInv'
    BY <1>2, <1>4, <2>1, <2>3, TakenInv DEF page, End, request
  <2>4. ASSUME NextOffset(page) <= TopOffset, offset' = NextOffset(page)
        PROVE  offset' = offset + Len(page) /\ offset' \in 0 .. TopOffset
    <3>1. page \in Seq(Rows)
      BY <1>2, GotType, Bounds DEF page, IInv
    <3> QED
      BY <1>2, <2>4, <3>1, Bounds DEF NextOffset
  <2>5. ASSUME NextOffset(page) <= TopOffset, offset' = NextOffset(page), End("page_limit")
        PROVE  IInv'
    BY <1>2, <1>4, <2>1, <2>4, <2>5, TakenInv DEF page, End, request
  <2>6. ASSUME NextOffset(page) <= TopOffset, offset' = NextOffset(page),
               pages + 1 # MaxPages, pc' = "bearer", renewed' = FALSE, attempt' = 0,
               UNCHANGED <<command, renewable, result>>
        PROVE  IInv'
    <3>1. pages + 1 < MaxPages /\ attempt' \in 0 .. MaxRetries /\ offset' <= TopOffset
      BY <1>2, <2>6, Bounds
    <3> QED
      BY <1>2, <1>4, <2>1, <2>4, <2>6, <3>1, TakenInv DEF page
  <2> QED
    BY <1>1, <1>4, <2>2, <2>3, <2>5, <2>6 DEF NextPage
<1> QED
  BY <1>3, <1>4

(* A page is checked, accepted, and ends the list or moves the offset on.   *)
LEMMA PageInv ==
  ASSUME IInv, Page
  PROVE  IInv'
<1>1. PICK applied \in {offset, 0}, reports \in SUBSET {"offset", "limit"} :
        \/ /\ Contradicts(applied, reports)
           /\ End("failed")
           /\ UNCHANGED <<fetched, performed>>
        \/ /\ ~ Contradicts(applied, reports)
           /\ \/ ManualPage(First(Applied, From(applied)), reports)
              \/ NextPage(First(Applied, From(applied)), reports)
  BY DEF Page
<1>2. pc = "request" /\ UNCHANGED collection
  BY DEF Page
<1>3. CASE Contradicts(applied, reports)
  <2>1. performed = 0 /\ renewed \in BOOLEAN /\ attempt \in 0 .. MaxRetries
    BY <1>2 DEF IInv, Underway, TypeOK
  <2>2. End("failed") /\ UNCHANGED <<fetched, performed>>
    BY <1>1, <1>3
  <2> QED
    BY <1>2, <2>1, <2>2, RequestStep DEF End, request
<1>4. CASE ~ Contradicts(applied, reports)
  BY <1>1, <1>2, <1>4, ManualPageInv, NextPageInv
<1> QED
  BY <1>3, <1>4

-----------------------------------------------------------------------------
(* The collection changes while the command runs.                           *)

(* A row that comes between two pages moves the others on.                  *)
LEMMA InsertInv ==
  ASSUME IInv, Insert
  PROVE  IInv'
<1> USE DEF IInv, Insert, Running, request, fetched
<1>1. PICK new \in Rows \ rows : /\ rows' = rows \cup {new}
                                 /\ pushed' = (pushed \/ Rank(new) < offset)
  OBVIOUS
<1>2. /\ rows \subseteq Rows /\ offset \in Nat /\ Start \in Nat
      /\ merged \in Seq(Rows) /\ Len(merged) \in Nat
      /\ offset = Start + Len(merged)
  BY StartType, Bounds DEF TypeOK, Underway
<1>3. \A r \in rows : /\ Rank(r) \in Nat /\ Rank(new) \in Nat /\ Rank(r)' \in Nat
                      /\ Rank(r)' >= Rank(r)
                      /\ Rank(r) < Rank(new) => Rank(r)' = Rank(r)
  <2>1. rows' \subseteq Rows
    BY <1>1, <1>2
  <2>2. \A r : Rank(r)' \in Nat
    <3>1. IsFiniteSet(rows')
      BY <2>1, FS_Subset
    <3>2. \A r : InFront(r)' \in SUBSET rows'
      BY DEF InFront
    <3> QED
      BY <3>1, <3>2, FS_Subset, FS_CardinalityType DEF Rank
  <2> QED
    BY <1>1, <1>2, <2>2, RankType, RankInsert
<1>4. TypeOK'
  BY <1>1 DEF TypeOK
<1>5. Underway'
  BY DEF Underway, Start
<1>6. InStep'
  <2> SUFFICES ASSUME ~ unconfirmed, ~ shifted PROVE InStep'
    BY DEF InStep
  <2>1. \A r \in stable : r \in rows /\ (r \in ToSet(merged) \/ Rank(r) >= offset)
    BY DEF InStep
  <2>2. ASSUME NEW r \in stable
        PROVE  r \in rows' /\ (r \in ToSet(merged) \/ Rank(r)' >= offset)
    <3>1. r \in rows /\ r \in rows' /\ (r \in ToSet(merged) \/ Rank(r) >= offset)
      BY <1>1, <2>1, <2>2
    <3>2. Rank(r) \in Nat /\ Rank(r)' \in Nat /\ Rank(r)' >= Rank(r)
      BY <1>3, <3>1
    <3> QED
      BY <1>2, <3>1, <3>2
  <2>3. ASSUME ~ pushed', NEW i \in 1 .. Len(merged)
        PROVE  merged[i] \in rows' /\ Rank(merged[i])' = Start + i - 1
    <3>1. ~ pushed /\ ~ (Rank(new) < offset)
      BY <1>1, <2>3
    <3>2. merged[i] \in rows /\ Rank(merged[i]) = Start + i - 1
      BY <2>3, <3>1 DEF InStep
    <3>3. Rank(merged[i]) < Rank(new)
      <4>1. Rank(new) \in Nat /\ Rank(new) >= offset
        <5>1. Rank(new) \in Nat
          BY <1>2, RankType
        <5> QED
          BY <1>2, <3>1, <5>1
      <4>2. Start + i - 1 < offset
        BY <1>2, <2>3
      <4> QED
        BY <1>2, <2>3, <3>2, <4>1, <4>2
    <3> QED
      BY <1>1, <1>3, <3>2, <3>3
  <2>4. Start' = Start
    BY DEF Start
  <2> QED
    BY <2>2, <2>3, <2>4 DEF InStep
<1>7. NoRowTwice'
  BY <1>1 DEF Reported, NoRowTwice
<1>8. (NothingIsHidden /\ CutIsProven /\ AtMostOnce)'
  BY DEF NothingIsHidden, CutIsProven, AtMostOnce, Underway
<1> QED
  BY <1>4, <1>5, <1>6, <1>7, <1>8 DEF Reported

(* A row that goes between two pages moves the others back.                 *)
LEMMA DeleteInv ==
  ASSUME IInv, Delete
  PROVE  IInv'
<1> USE DEF IInv, Delete, Running, request, fetched
<1>1. PICK gone \in rows : /\ rows' = rows \ {gone}
                           /\ stable' = stable \ {gone}
                           /\ shifted' = (shifted \/ Rank(gone) < offset)
  OBVIOUS
<1>2. /\ rows \subseteq Rows /\ offset \in Nat /\ Start \in Nat
      /\ merged \in Seq(Rows) /\ Len(merged) \in Nat
      /\ offset = Start + Len(merged)
  BY StartType, Bounds DEF TypeOK, Underway
<1>3. \A r : Rank(r) \in Nat
  BY <1>2, RankType
<1>4. \A r \in rows' : /\ Rank(r) < Rank(gone) => Rank(r)' = Rank(r)
                       /\ Rank(r) > Rank(gone) => Rank(r)' >= Rank(gone)
                       /\ Rank(r) # Rank(gone)
  BY <1>1, <1>2, RankDelete
<1>5. \A r : Rank(r)' \in Nat
  <2>1. IsFiniteSet(rows')
    BY <1>1, <1>2, FS_Subset
  <2>2. \A r : InFront(r)' \in SUBSET rows'
    BY DEF InFront
  <2> QED
    BY <2>1, <2>2, FS_Subset, FS_CardinalityType DEF Rank
<1>6. TypeOK'
  BY <1>1 DEF TypeOK
<1>7. Underway'
  BY DEF Underway, Start
<1>8. InStep'
  <2> SUFFICES ASSUME ~ unconfirmed, ~ shifted' PROVE InStep'
    BY DEF InStep
  <2>1. ~ shifted /\ Rank(gone) >= offset
    <3>1. ~ shifted /\ ~ (Rank(gone) < offset)
      BY <1>1
    <3>2. Rank(gone) \in Nat
      BY <1>3
    <3> QED
      BY <1>2, <3>1, <3>2
  <2>2. ASSUME NEW r \in stable'
        PROVE  r \in rows' /\ (r \in ToSet(merged) \/ Rank(r)' >= offset)
    <3>1. r \in rows' /\ (r \in ToSet(merged) \/ Rank(r) >= offset)
      BY <1>1, <2>1, <2>2 DEF InStep
    <3>2. Rank(r) \in Nat /\ Rank(r)' \in Nat /\ Rank(gone) \in Nat
      BY <1>3, <1>5
    <3> QED
      BY <1>2, <1>4, <2>1, <3>1, <3>2
  <2>3. ASSUME ~ pushed, NEW i \in 1 .. Len(merged)
        PROVE  merged[i] \in rows' /\ Rank(merged[i])' = Start + i - 1
    <3>1. merged[i] \in rows /\ Rank(merged[i]) = Start + i - 1
      BY <2>1, <2>3 DEF InStep
    <3>2. Rank(merged[i]) < Rank(gone)
      BY <1>2, <1>3, <2>1, <2>3, <3>1
    <3>3. merged[i] \in rows'
      BY <1>1, <1>3, <3>1, <3>2
    <3> QED
      BY <1>4, <3>1, <3>2, <3>3
  <2>4. Start' = Start
    BY DEF Start
  <2> QED
    BY <2>2, <2>3, <2>4 DEF InStep
<1>9. NoRowTwice'
  BY <1>1 DEF Reported, NoRowTwice
<1>10. (NothingIsHidden /\ CutIsProven /\ AtMostOnce)'
  BY DEF NothingIsHidden, CutIsProven, AtMostOnce, Underway
<1> QED
  BY <1>6, <1>7, <1>8, <1>9, <1>10 DEF Reported

-----------------------------------------------------------------------------
(* The results.                                                             *)

(* Every step of a command preserves the invariant.                         *)
LEMMA StepInv ==
  ASSUME IInv, [Next]_vars
  PROVE  IInv'
<1>1. CASE UNCHANGED vars
  <2> USE <1>1 DEF vars, collection, request, fetched
  <2>1. TypeOK'
    BY DEF IInv, TypeOK
  <2>2. Underway'
    BY DEF IInv, Underway, Start
  <2>3. InStep'
    BY DEF IInv, InStep, Start, Rank, InFront
  <2>4. NoRowTwice'
    BY DEF IInv, Reported, NoRowTwice
  <2>5. (NothingIsHidden /\ CutIsProven /\ AtMostOnce)'
    BY DEF IInv, Reported, NothingIsHidden, CutIsProven, AtMostOnce
  <2> QED
    BY <2>1, <2>2, <2>3, <2>4, <2>5 DEF IInv, Reported
<1>2. CASE Client
  BY <1>2, BearerInv, RateLimitedInv, UnauthorizedInv, RenewInv, NoAnswerInv, WrittenInv,
     PageInv DEF Client
<1> QED
  BY <1>1, <1>2, BeginInv, InsertInv, DeleteInv DEF Next

(* The invariant holds in every reachable state.                            *)
LEMMA Invariance == Spec => []IInv
  BY InitInv, StepInv, PTL DEF Spec

(* The state is always of its type; in particular a request is never sent   *)
(* again more often than its budget allows and no more pages are accepted   *)
(* than the page limit (RetryPolicy, PaginationSpec::max_pages).            *)
THEOREM Types == Spec => []TypeOK
  BY Invariance, PTL DEF IInv

(* A command writes at most once, whatever is retried and renewed           *)
(* (send_once, send_response).                                              *)
THEOREM WritesOnce == Spec => []AtMostOnce
  BY Invariance, PTL DEF IInv, Reported

(* A list reported as complete hides no row that was there all along,       *)
(* wherever rows are inserted and however the server clamps the page        *)
(* (fetch_all_pages, page_capacity).                                        *)
THEOREM HidesNothing == Spec => []NothingIsHidden
  BY Invariance, PTL DEF IInv, Reported

(* No row is listed twice while nothing moves across the offset             *)
(* (fetch_all_pages, check_offset_echo).                                    *)
THEOREM ListsOnce == Spec => []NoRowTwice
  BY Invariance, PTL DEF IInv, Reported

(* A list is called cut only when the server had more rows than the cap     *)
(* (truncate_to_cap, page_request_limit).                                   *)
THEOREM CutsWithProof == Spec => []CutIsProven
  BY Invariance, PTL DEF IInv, Reported
=============================================================================

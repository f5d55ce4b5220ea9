---------------------------- MODULE RequestChannel ----------------------------
(***************************************************************************)
(* One command and the request channel of the engine crate: a write, one   *)
(* page of a list, or a whole list fetched page by page (client.rs,        *)
(* paginate.rs), against a server that limits the rate, refuses            *)
(* credentials, fails, clamps the page size, and whose collection changes  *)
(* between two pages.                                                      *)
(*                                                                         *)
(* What the server does with a request and what the client makes of the    *)
(* answer is one step: between two steps everything else can change.       *)
(* The credential source is TokenRefresh, seen from here: it may have no   *)
(* credential, and may or may not have another one after a refusal.        *)
(*                                                                         *)
(* Operators named X_... are X with one plausible mistake in it; nothing   *)
(* uses them but the mutation runs listed in PROJECT.json.                 *)
(***************************************************************************)
EXTENDS Integers, FiniteSets, SequencesExt

CONSTANTS
  Rows,        \* rows a collection may hold, numbered in the order of the list
  PageSize,    \* PaginationSpec::page_size, the rows asked for per page
  ServerMax,   \* the page size the server clamps to
  MaxPages,    \* PaginationSpec::max_pages
  MaxRetries,  \* RetryPolicy::max_retries
  TopOffset,   \* the largest offset (u64::MAX)
  Starts,      \* offsets a command may start from
  Caps,        \* row caps tried (`--limit N`)
  NoCap

ASSUME RowsAssumption == Rows \subseteq Nat /\ IsFiniteSet(Rows)
ASSUME SizesAssumption ==
  {PageSize, ServerMax, MaxPages} \subseteq Nat \ {0} /\ MaxRetries \in Nat
ASSUME OffsetsAssumption == TopOffset \in Nat /\ Starts \subseteq 0 .. TopOffset
ASSUME CapsAssumption == Caps \subseteq Nat /\ NoCap \notin Nat

VARIABLES
  rows,        \* the collection on the server
  pc,          \* "idle", "bearer", "request", "refused" or "ended"
  command,     \* what the command does
  renewable,   \* whether its credential source can renew
  renewed,     \* whether this request already used its one renewal
  attempt,     \* retries after HTTP 429 with the credential in use
  offset,      \* where the next page starts
  pages,       \* pages accepted
  merged,      \* rows fetched so far
  unconfirmed, \* a page came without the offset report
  result,      \* how the command ended
  \* history
  performed,   \* how often the server performed the write
  stable,      \* rows there from the start, behind its offset, and ever since
  shifted,     \* a row in front of `offset` was removed since the start
  pushed       \* a row was inserted in front of `offset` since the start

collection == <<rows, stable, shifted, pushed>>
request == <<renewed, attempt>>
fetched == <<offset, pages, merged, unconfirmed>>
vars == <<collection, pc, command, renewable, request, fetched, result, performed>>

(* A write, a page whose size the user chose (`limit=`), or a whole list.   *)
Commands ==
  [kind : {"write"}] \cup
  [kind : {"page"}, start : Starts, size : 1 .. PageSize] \cup
  [kind : {"list"}, start : Starts, cap : Caps \cup {NoCap}]

(* TruncationCause, or how else a command ends.                             *)
Truncations == {"max_items", "page_limit", "manual_page", "offset_space"}
Results == Truncations \cup {"none", "complete", "written", "failed"}

Lists == {"page", "list"}

TypeOK ==
  /\ rows \subseteq Rows
  /\ pc \in {"idle", "bearer", "request", "refused", "ended"}
  /\ command \in Commands
  /\ renewable \in BOOLEAN /\ renewed \in BOOLEAN
  /\ attempt \in 0 .. MaxRetries
  /\ offset \in 0 .. TopOffset
  /\ pages \in 0 .. MaxPages
  /\ merged \in Seq(Rows)
  /\ unconfirmed \in BOOLEAN
  /\ result \in Results
  /\ performed \in Nat
  /\ stable \subseteq Rows /\ shifted \in BOOLEAN /\ pushed \in BOOLEAN

Smaller(a, b) == IF a <= b THEN a ELSE b
Larger(a, b) == IF a >= b THEN a ELSE b

\* The rows in front of row r, and where r stands, or would, in the list.
InFront(r) == {q \in rows : q < r}
Rank(r) == Cardinality(InFront(r))

\* The row at offset n, and the rows from offset `from` on, in their order.
RowAt(n) == CHOOSE r \in rows : Rank(r) = n
From(from) == [n \in 1 .. Cardinality(rows) - from |-> RowAt(from + n - 1)]

\* The first n rows of a listing, or all of it.
First(n, listing) == SubSeq(listing, 1, Smaller(n, Len(listing)))

\* Where the command starts to read.
Start == IF command.kind = "write" THEN 0 ELSE command.start

Init ==
  /\ rows \in SUBSET Rows
  /\ pc = "idle"
  /\ command \in Commands
  /\ renewable \in BOOLEAN
  /\ renewed = FALSE /\ attempt = 0
  /\ offset = Start /\ pages = 0 /\ merged = <<>> /\ unconfirmed = FALSE
  /\ result = "none"
  /\ performed = 0
  /\ stable = {} /\ shifted = FALSE /\ pushed = FALSE

-----------------------------------------------------------------------------
(* The command.                                                             *)

Begin ==
  /\ pc = "idle"
  /\ pc' = "bearer"
  /\ stable' = ToSet(From(Start))
  /\ UNCHANGED <<rows, shifted, pushed, command, renewable, request, fetched,
                 result, performed>>

End(how) ==
  /\ pc' = "ended"
  /\ result' = how
  /\ UNCHANGED <<command, renewable, request>>

(* send_response: each request asks the source for a credential, once.      *)
Bearer ==
  /\ pc = "bearer"
  /\ \/ pc' = "request" /\ UNCHANGED <<command, renewable, request, result>>
     \/ End("failed")
  /\ UNCHANGED <<collection, fetched, performed>>

Retries_OneMore == attempt <= MaxRetries

\* absorb_rate_limit: the budget of one credential in one request.
Retries == attempt < MaxRetries

(* HTTP 429: the server did nothing.  The wait is bounded by max_wait.      *)
RateLimited ==
  /\ pc = "request"
  /\ \/ /\ Retries
        /\ attempt' = attempt + 1
        /\ UNCHANGED <<pc, command, renewable, renewed, result>>
     \/ ~ Retries /\ End("failed")
  /\ UNCHANGED <<collection, fetched, performed>>

(* HTTP 401: the server did nothing.                                        *)
Unauthorized ==
  /\ pc = "request"
  /\ pc' = "refused"
  /\ UNCHANGED <<collection, command, renewable, request, fetched, result, performed>>

MayRenew_Always == renewable

\* One renewal in each request.
MayRenew == renewable /\ ~ renewed

(* send_response after a 401: renewed and sent again, or the refusal is     *)
(* what the command reports, or the renewal itself fails.                   *)
Renew ==
  /\ pc = "refused"
  /\ \/ /\ MayRenew
        /\ pc' = "request"
        /\ renewed' = TRUE
        /\ attempt' = 0
        /\ UNCHANGED <<command, renewable, result>>
     \/ End("failed")
  /\ UNCHANGED <<collection, fetched, performed>>

Gone(performs) == performed' = IF performs THEN performed + 1 ELSE performed

NoAnswer_SendAgain ==
  /\ pc = "request"
  /\ \E performs \in {FALSE, command.kind = "write"} : Gone(performs)
  /\ \/ Retries /\ attempt' = attempt + 1
        /\ UNCHANGED <<pc, command, renewable, renewed, result>>
     \/ ~ Retries /\ End("failed")
  /\ UNCHANGED <<collection, fetched>>

(* Any other status, a transport failure, a timeout, an answer that cannot  *)
(* be decoded or has no rows: the command fails, and is not sent again,     *)
(* since the server may have performed it.                                  *)
NoAnswer ==
  /\ pc = "request"
  /\ \E performs \in {FALSE, command.kind = "write"} : Gone(performs)
  /\ End("failed")
  /\ UNCHANGED <<collection, fetched>>

(* The write is performed and answered.                                     *)
Written ==
  /\ pc = "request" /\ command.kind = "write"
  /\ Gone(TRUE)
  /\ End("written")
  /\ UNCHANGED <<collection, fetched>>

-----------------------------------------------------------------------------
(* Pagination.                                                              *)

(* page_request_limit: with a cap, one row more than is still wanted.       *)
RequestLimit ==
  IF command.kind = "page" THEN command.size
  ELSE IF command.cap = NoCap THEN PageSize
  ELSE Larger(Smaller(PageSize, command.cap - Len(merged) + 1), 1)

\* The page size the server applies.
Applied == Smaller(RequestLimit, ServerMax)

(* check_offset_echo: the server reports another offset than the one asked  *)
(* for.                                                                     *)
Contradicts(applied, reports) == "offset" \in reports /\ applied # offset

LastPage_RequestedSize(received, reports) == received < RequestLimit

(* The page shows that the list has ended: it is empty, or shorter than the *)
(* page size the server says it applied.                                    *)
LastPage(received, reports) ==
  received = 0 \/ ("limit" \in reports /\ received < Applied)

OverCap_Reached(got) == command.cap # NoCap /\ Len(got) >= command.cap

(* truncate_to_cap: more rows than the cap are proof that there are more.   *)
OverCap(got) == command.cap # NoCap /\ Len(got) > command.cap

\* accept_page: `got` is what the command has with this page.
Accept(got, reports) ==
  /\ pages' = pages + 1
  /\ merged' = got
  /\ unconfirmed' = (unconfirmed \/ "offset" \notin reports)
  /\ UNCHANGED performed

(* manual_page_truncation: a page that is full, or cannot be shown not to   *)
(* be, may not be the last.                                                 *)
ManualPage(page, reports) ==
  /\ command.kind = "page"
  /\ Accept(page, reports)
  /\ offset' = offset
  /\ End(IF "limit" \in reports /\ Len(page) < Applied THEN "complete" ELSE "manual_page")

NextOffset_FromZero(page) == Len(merged \o page)

\* The next page starts behind the rows received, however many were asked for.
NextOffset(page) == offset + Len(page)

(* fetch_all_pages, after one page: the cap, the end of the list, the end   *)
(* of the offsets, the page cap, or the next page.                          *)
NextPage(page, reports) ==
  LET got == merged \o page
      next == NextOffset(page)
  IN
  /\ command.kind = "list"
  /\ \/ /\ OverCap(got)
        /\ Accept(SubSeq(got, 1, command.cap), reports)
        /\ offset' = offset
        /\ End("max_items")
     \/ /\ ~ OverCap(got)
        /\ Accept(got, reports)
        /\ \/ /\ LastPage(Len(page), reports)
              /\ offset' = offset
              /\ End("complete")
           \/ /\ ~ LastPage(Len(page), reports)
              /\ next > TopOffset
              /\ offset' = offset
              /\ End("offset_space")
           \/ /\ ~ LastPage(Len(page), reports)
              /\ next <= TopOffset
              /\ offset' = next
              /\ IF pages + 1 = MaxPages
                   THEN End("page_limit")
                   ELSE /\ pc' = "bearer"
                        /\ renewed' = FALSE /\ attempt' = 0
                        /\ UNCHANGED <<command, renewable, result>>

(* A page of the list arrives.  The server takes the offset into account or *)
(* not, and reports the offset and the page size it applied or not.         *)
Page ==
  /\ pc = "request" /\ command.kind \in Lists
  /\ \E applied \in {offset, 0}, reports \in SUBSET {"offset", "limit"} :
       LET page == First(Applied, From(applied)) IN
       \/ /\ Contradicts(applied, reports)
          /\ End("failed")
          /\ UNCHANGED <<fetched, performed>>
       \/ /\ ~ Contradicts(applied, reports)
          /\ ManualPage(page, reports) \/ NextPage(page, reports)
  /\ UNCHANGED collection

-----------------------------------------------------------------------------
(* Others change the collection while the command runs.                     *)

Running == pc \in {"bearer", "request", "refused"} /\ command.kind \in Lists

Insert ==
  /\ Running
  /\ \E r \in Rows \ rows :
       /\ rows' = rows \cup {r}
       /\ pushed' = (pushed \/ Rank(r) < offset)
  /\ UNCHANGED <<stable, shifted, pc, command, renewable, request, fetched,
                 result, performed>>

Delete ==
  /\ Running
  /\ \E r \in rows :
       /\ rows' = rows \ {r}
       /\ stable' = stable \ {r}
       /\ shifted' = (shifted \/ Rank(r) < offset)
  /\ UNCHANGED <<pushed, pc, command, renewable, request, fetched, result, performed>>

Client ==
  \/ Bearer \/ RateLimited \/ Unauthorized \/ Renew \/ NoAnswer \/ Written \/ Page

Next == Begin \/ Client \/ Insert \/ Delete

Spec == Init /\ [][Next]_vars

(* Every wait of the client has a deadline: DEFAULT_TIMEOUT of a request,   *)
(* max_wait after a 429.  Nothing is assumed of the collection.             *)
FairSpec == Spec /\ WF_vars(Client)

-----------------------------------------------------------------------------
(* Properties.                                                              *)

(* A list reported as complete, with its page boundaries confirmed, has     *)
(* every row that was there all along, although rows were inserted anywhere *)
(* and removed behind the page being read (fetch_all_pages: "never          *)
(* truncates silently").                                                    *)
NothingIsHidden ==
  result = "complete" /\ ~ unconfirmed /\ ~ shifted => stable \subseteq ToSet(merged)

(* No row is listed twice unless the collection moved under the page        *)
(* boundary or the server ignored the offset without saying so              *)
(* (check_offset_echo).                                                     *)
NoRowTwice ==
  ~ unconfirmed /\ ~ shifted /\ ~ pushed => IsInjective(merged)

(* "results truncated" is said only when the server had more rows than the  *)
(* cap (TruncationCause::is_definite), however the collection changed       *)
(* between the pages: no false alarm at the exact end.                      *)
CutIsProven ==
  result = "max_items" /\ ~ unconfirmed =>
    /\ Len(merged) = command.cap
    /\ Cardinality(rows) > command.start + command.cap

(* A command writes at most once, whatever is retried and replayed          *)
(* (send_once, send_response).                                              *)
AtMostOnce == performed <= 1

(* Every command ends: no server can keep the client paging, waiting or     *)
(* renewing for ever.                                                       *)
EveryCommandEnds == pc = "bearer" ~> pc = "ended"
=============================================================================

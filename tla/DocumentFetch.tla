------------------------------ MODULE DocumentFetch ------------------------------
(***************************************************************************)
(* The plain document channel (engine fetch.rs, retry.rs): one GET without *)
(* credentials to a host the user named, which may redirect to another one *)
(* (external: the HTTP client follows, up to MaxHops), limit the rate,     *)
(* fail, or send a body that is too long, not text, or cut off.            *)
(* Time is counted in the unit of the waits.                               *)
(***************************************************************************)
EXTENDS Integers, Sequences, FiniteSetsExt

CONSTANTS
  DocumentUrls,  \* URLs asked for and redirected to: [scheme, host, userinfo]
  MaxBytes,      \* DocumentFetch::max_bytes
  MaxAttempts,   \* RetryPolicy::max_retries
  MaxWait,       \* RetryPolicy::max_wait
  BackoffBase,   \* RetryPolicy::backoff_base
  MaxHops        \* redirects the HTTP client follows

ASSUME PolicyAssumption ==
  /\ MaxBytes \in Nat /\ MaxHops \in Nat
  /\ MaxAttempts \in Nat /\ MaxWait \in Nat /\ BackoffBase \in Nat
ASSUME UrlsAssumption ==
  DocumentUrls \subseteq [scheme : STRING, host : STRING, userinfo : BOOLEAN]

VARIABLES
  fetch,  \* the fetch: its stage, the retries made, its result
  wire,   \* the request in flight: the URL it has come to, and the hops
  \* history
  sends,  \* requests sent
  waits,  \* for each retry, what the server said and how long it waited
  served  \* the body of the answer, once there is one

fetchVars == <<fetch, wire, sends, waits, served>>

\* What a server says about when to come back, and the bodies it may send.
RetryAfters == [form : {"seconds", "date"}, value : {0, 1, MaxWait + 1}]
               \cup [form : {"absent", "unreadable", "beyond_u64"}, value : {0}]
Bodies == [bytes : {0, MaxBytes, MaxBytes + 1, MaxBytes + 2}, utf8 : BOOLEAN, whole : BOOLEAN]
NoBody == [bytes |-> 0, utf8 |-> FALSE, whole |-> FALSE]
Statuses == {200, 404, 429, 503}
\* No host, or an unknown one.
NoHost == ""
NoUrl == [scheme |-> "none", host |-> NoHost, userinfo |-> FALSE]
Hosts == {u.host : u \in DocumentUrls}

Errors == {"invalid_url", "transport", "status", "rate_limited", "unusable"}
NotFetched == [kind |-> "none", origin |-> NoHost, bytes |-> 0, retries |-> 0]
FetchRefused(kind, origin) == [NotFetched EXCEPT !.kind = kind, !.origin = origin]

FetchTypeOK ==
  /\ fetch.stage \in {"idle", "send", "flight", "done"}
  /\ fetch.asked \in DocumentUrls \cup {NoUrl}
  /\ fetch.attempt \in 0 .. MaxAttempts
  /\ fetch.result.kind \in Errors \cup {"none", "document"}
  /\ fetch.result.origin \in Hosts \cup {NoHost}
  /\ wire.at \in DocumentUrls \cup {NoUrl} /\ wire.hops \in 0 .. MaxHops
  /\ sends \in 0 .. MaxAttempts + 1
  /\ Len(waits) = fetch.attempt /\ served \in Bodies

FetchInit ==
  /\ fetch = [stage |-> "idle", asked |-> NoUrl, attempt |-> 0, result |-> NotFetched]
  /\ wire = [at |-> NoUrl, hops |-> 0]
  /\ sends = 0 /\ waits = <<>> /\ served = NoBody

-----------------------------------------------------------------------------
(* validate_document_url, and the origin of what it accepts.                *)
Fetchable(url) == url.scheme = "http" /\ url.host # NoHost /\ ~url.userinfo

(* answering_origin: the final URL without its userinfo; unknown rather     *)
(* than the origin that was asked.                                          *)
AnsweringOrigin_Asked(url) == fetch.asked.host
AnsweringOrigin(url) ==
  LET bare == [url EXCEPT !.userinfo = FALSE] IN IF Fetchable(bare) THEN bare.host ELSE NoHost

(* parse_retry_after: seconds or a date; one in the past asks for nothing,  *)
(* and one beyond the integers for as long as possible.                     *)
ParseRetryAfter(header) ==
  IF header.form \in {"seconds", "date"} THEN {header.value}
  ELSE IF header.form = "beyond_u64" THEN {MaxWait + 1}
  ELSE {}

(* backoff_delay: doubled for every retry and stretched by up to a half.    *)
BackoffDelay(attempt) ==
  LET doubled == BackoffBase * 2 ^ attempt
  IN  {Min({d, MaxWait}) : d \in doubled .. Max({doubled, (3 * doubled - 1) \div 2})}

\* RetryPolicy::retry_wait
RetryWait(header, attempt) ==
  IF ParseRetryAfter(header) # {} THEN {Min({w, MaxWait}) : w \in ParseRetryAfter(header)}
  ELSE BackoffDelay(attempt)

(* read_text: one byte more than the limit, so that the limit is seen.      *)
ReadText(body) ==
  LET read == Min({body.bytes, MaxBytes + 1})
  IN  IF (~body.whole /\ read = body.bytes) \/ read > MaxBytes \/ ~body.utf8
      THEN FetchRefused("unusable", fetch.asked.host)
      ELSE [NotFetched EXCEPT !.kind = "document", !.bytes = read]

-----------------------------------------------------------------------------
Done(result) == fetch' = [fetch EXCEPT !.stage = "done", !.result = result]

GetText(url) ==
  /\ fetch.stage = "idle"
  /\ fetch' = IF Fetchable(url) THEN [fetch EXCEPT !.stage = "send", !.asked = url]
              ELSE [fetch EXCEPT !.stage = "done", !.asked = url,
                                 !.result = FetchRefused("invalid_url", NoHost)]
  /\ UNCHANGED <<wire, sends, waits, served>>

(* send: paced, and always to the URL that was asked.                       *)
SendGet ==
  /\ fetch.stage = "send"
  /\ fetch' = [fetch EXCEPT !.stage = "flight"]
  /\ wire' = [at |-> fetch.asked, hops |-> 0]
  /\ sends' = sends + 1 /\ UNCHANGED <<waits, served>>

(* External: a hop to another URL, which may carry userinfo.                *)
Redirected(url) ==
  /\ fetch.stage = "flight" /\ wire.hops < MaxHops
  /\ url.scheme = "http" /\ url.host # NoHost
  /\ wire' = [at |-> url, hops |-> wire.hops + 1]
  /\ UNCHANGED <<fetch, sends, waits, served>>

(* No answer: a connection that failed, a deadline, a hop too many.         *)
NoAnswer ==
  /\ fetch.stage = "flight"
  /\ Done(FetchRefused("transport", fetch.asked.host))
  /\ UNCHANGED <<wire, sends, waits, served>>

(* wait_for_retry                                                           *)
WaitForRetry(header) ==
  IF fetch.attempt >= MaxAttempts
  THEN Done([FetchRefused("rate_limited", fetch.asked.host) EXCEPT !.retries = fetch.attempt])
       /\ UNCHANGED waits
  ELSE \E w \in RetryWait(header, fetch.attempt) :
         /\ fetch' = [fetch EXCEPT !.stage = "send", !.attempt = @ + 1]
         /\ waits' = Append(waits, [said |-> header, slept |-> w])

RateLimit(header) ==
  /\ fetch.stage = "flight"
  /\ WaitForRetry(header)
  /\ UNCHANGED <<wire, sends, served>>

OtherStatus(status) ==
  /\ fetch.stage = "flight"
  /\ Done(FetchRefused("status", fetch.asked.host))
  /\ UNCHANGED <<wire, sends, waits, served>>

ServeDocument(body) ==
  /\ fetch.stage = "flight"
  /\ LET read == ReadText(body)
     IN  Done(IF read.kind = "document"
              THEN [read EXCEPT !.origin = AnsweringOrigin(wire.at)] ELSE read)
  /\ served' = body
  /\ UNCHANGED <<wire, sends, waits>>

FetchNext ==
  \/ SendGet \/ NoAnswer
  \/ \E url \in DocumentUrls : GetText(url) \/ Redirected(url)
  \/ \E header \in RetryAfters : RateLimit(header)
  \/ \E status \in Statuses \ {200, 429} : OtherStatus(status)
  \/ \E body \in Bodies : ServeDocument(body)

-----------------------------------------------------------------------------
(* What the caller is told is true.  A document is the whole body, within   *)
(* the limit, and labelled with the host that served it and no other; every *)
(* error names the host that was asked, wherever the requests have been     *)
(* redirected to; the rate limit is reported after every retry and none     *)
(* more; and a wait is as long as the server said, or the limit.            *)
FetchHonest ==
  LET result == fetch.result
  IN  /\ result.kind = "document" =>
           /\ result.origin = wire.at.host
           /\ result.bytes = served.bytes /\ served.bytes <= MaxBytes
           /\ served.utf8 /\ served.whole
      /\ result.kind \in Errors => result.origin = IF Fetchable(fetch.asked) THEN fetch.asked.host ELSE NoHost
      /\ result.kind = "rate_limited" => sends = MaxAttempts + 1 /\ result.retries = Len(waits)
      /\ result.kind = "invalid_url" <=> fetch.stage = "done" /\ sends = 0
      /\ \A i \in 1 .. Len(waits) :
           LET wait == waits[i]
           IN  /\ wait.slept <= MaxWait
               /\ wait.said.form \in {"seconds", "date", "beyond_u64"} =>
                    wait.slept = Min({MaxWait, IF wait.said.form = "beyond_u64" THEN MaxWait
                                               ELSE wait.said.value})
               /\ wait.said.form \in {"absent", "unreadable"} /\ BackoffBase <= MaxWait =>
                    wait.slept >= Min({MaxWait, BackoffBase * 2 ^ (i - 1)})

DocumentFetchSpec == FetchInit /\ [][FetchNext]_fetchVars
================================================================================

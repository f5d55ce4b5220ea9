--------------------------------- MODULE Loopback ---------------------------------
(***************************************************************************)
(* The listener that waits for the browser to come back with a code        *)
(* (auth/loopback.rs, auth/callback_request.rs).  Anybody on the machine   *)
(* may connect.  A connection is served on a thread of its own while there *)
(* are fewer than MaxLive, and by the waiting loop itself otherwise; a     *)
(* handler answers the browser first and reports its outcome after that;   *)
(* the first outcome ends the wait, and so does the deadline.              *)
(***************************************************************************)
EXTENDS Integers, Sequences, FiniteSets

CONSTANTS
  Connections,  \* the connections anybody makes
  MaxLive       \* MAX_LIVE_HANDLERS

ASSUME LoopbackAssumption == IsFiniteSet(Connections) /\ MaxLive \in Nat

VARIABLES
  peer,         \* what each connection sends, and how far it has come
  backlog,      \* connected and not accepted, in order
  live,         \* the count of handlers on their own thread
  waiting,      \* the waiting loop
  expired,      \* the deadline has passed
  outcomes      \* reported and not collected, in order

loopbackVars == <<peer, backlog, live, waiting, expired, outcomes>>

(* A request: our redirect with a code, with an error or with neither; one  *)
(* with another state; something else; or one that never completes.         *)
Requests == {"code", "denied", "neither", "foreign", "stray", "silent"}
ServedStages == {"thread", "thread_answered", "thread_reported", "inline", "inline_answered"}
Outcomes == {"code", "denied", "mismatch", "unusable"}

LoopbackTypeOK ==
  /\ \A c \in Connections :
       /\ peer[c].request \in Requests \cup {"none"}
       /\ peer[c].stage \in {"none", "backlog", "closed"} \cup ServedStages
       /\ peer[c].answer \in {"none", "signed_in", "refused", "400", "404"}
       /\ peer[c].stage = "closed" => peer[c].request # "none"
  /\ live \in 0 .. MaxLive
  /\ waiting.stage \in {"off", "loop", "accept", "inline", "drain", "ended"}
  /\ waiting.result \in Outcomes \cup {"none", "timeout"}
  /\ expired \in BOOLEAN
  /\ \A i \in 1 .. Len(outcomes) : outcomes[i] \in Outcomes

LoopbackInit ==
  /\ peer = [c \in Connections |-> [request |-> "none", stage |-> "none", answer |-> "none"]]
  /\ backlog = <<>> /\ live = 0 /\ outcomes = <<>>
  /\ waiting = [stage |-> "off", result |-> "none"]
  /\ expired = FALSE

\* bind_fixed, bind_ephemeral: the port is open and the browser is started.
Listen ==
  /\ waiting.stage = "off"
  /\ waiting' = [waiting EXCEPT !.stage = "loop"]
  /\ UNCHANGED <<peer, backlog, live, expired, outcomes>>

Connect(c, request) ==
  /\ waiting.stage \notin {"off", "ended"}
  /\ peer[c].stage = "none"
  /\ peer' = [peer EXCEPT ![c] = [@ EXCEPT !.request = request, !.stage = "backlog"]]
  /\ backlog' = Append(backlog, c)
  /\ UNCHANGED <<live, waiting, expired, outcomes>>

\* Time passes.
Expire ==
  /\ waiting.stage \notin {"off", "ended"} /\ ~expired
  /\ expired' = TRUE
  /\ UNCHANGED <<peer, backlog, live, waiting, outcomes>>

-----------------------------------------------------------------------------
Ended(result) == waiting' = [stage |-> "ended", result |-> result]

(* wait_for_code, the head of the loop: the deadline, then what a handler   *)
(* has reported.                                                            *)
Loop ==
  /\ waiting.stage = "loop"
  /\ IF expired
     THEN waiting' = [waiting EXCEPT !.stage = "drain"] /\ UNCHANGED outcomes
     ELSE IF outcomes # <<>>
     THEN Ended(Head(outcomes)) /\ outcomes' = Tail(outcomes)
     ELSE waiting' = [waiting EXCEPT !.stage = "accept"] /\ UNCHANGED outcomes
  /\ UNCHANGED <<peer, backlog, live, expired>>

(* What a handler reported in the last moments is taken, too.               *)
Drain ==
  /\ waiting.stage = "drain"
  /\ IF outcomes # <<>>
     THEN Ended(Head(outcomes)) /\ outcomes' = Tail(outcomes)
     ELSE Ended("timeout") /\ UNCHANGED outcomes
  /\ UNCHANGED <<peer, backlog, live, expired>>

(* accept_now and serve: a thread if there is room and one can be had,      *)
(* otherwise the loop serves the connection itself.                         *)
Serve ==
  /\ waiting.stage = "accept"
  /\ IF backlog = <<>>
     THEN waiting' = [waiting EXCEPT !.stage = "loop"] /\ UNCHANGED <<peer, backlog, live>>
     ELSE /\ backlog' = Tail(backlog)
          /\ \/ /\ live < MaxLive
                /\ live' = live + 1
                /\ peer' = [peer EXCEPT ![Head(backlog)].stage = "thread"]
                /\ waiting' = [waiting EXCEPT !.stage = "loop"]
             \/ /\ peer' = [peer EXCEPT ![Head(backlog)].stage = "inline"]
                /\ waiting' = [waiting EXCEPT !.stage = "inline"]
                /\ UNCHANGED live
  /\ UNCHANGED <<expired, outcomes>>

-----------------------------------------------------------------------------
Verdict_CodeFirst(request) ==
  CASE request \in {"code", "foreign"} -> [answer |-> "signed_in", outcome |-> <<"code">>]
    [] request = "denied" -> [answer |-> "refused", outcome |-> <<"denied">>]
    [] request = "neither" -> [answer |-> "400", outcome |-> <<"unusable">>]
    [] request = "stray" -> [answer |-> "404", outcome |-> <<>>]
    [] OTHER -> [answer |-> "400", outcome |-> <<>>]

(* handle and finish: what the browser is told and what is reported.  A     *)
(* request that is not a redirect, or that does not come in time, is        *)
(* answered and reports nothing.                                            *)
Verdict(request) ==
  CASE request = "code" -> [answer |-> "signed_in", outcome |-> <<"code">>]
    [] request = "denied" -> [answer |-> "refused", outcome |-> <<"denied">>]
    [] request = "neither" -> [answer |-> "400", outcome |-> <<"unusable">>]
    [] request = "foreign" -> [answer |-> "400", outcome |-> <<"mismatch">>]
    [] request = "stray" -> [answer |-> "404", outcome |-> <<>>]
    [] OTHER -> [answer |-> "400", outcome |-> <<>>]

\* respond
Answer(c) ==
  /\ peer[c].stage \in {"thread", "inline"}
  /\ peer' = [peer EXCEPT ![c] =
                [@ EXCEPT !.answer = Verdict(peer[c].request).answer,
                          !.stage = IF peer[c].stage = "thread" THEN "thread_answered"
                                    ELSE "inline_answered"]]
  /\ UNCHANGED <<backlog, live, waiting, expired, outcomes>>

\* The outcome is sent; nobody receives it after the wait has ended.
Report(c) ==
  /\ peer[c].stage \in {"thread_answered", "inline_answered"}
  /\ outcomes' = IF waiting.stage = "ended" THEN outcomes
                 ELSE outcomes \o Verdict(peer[c].request).outcome
  /\ IF peer[c].stage = "inline_answered"
     THEN /\ peer' = [peer EXCEPT ![c].stage = "closed"]
          /\ waiting' = [waiting EXCEPT !.stage = "loop"]
     ELSE /\ peer' = [peer EXCEPT ![c].stage = "thread_reported"]
          /\ UNCHANGED waiting
  /\ UNCHANGED <<backlog, live, expired>>

Release_Twice(c) ==
  /\ peer[c].stage = "thread_reported"
  /\ live' = live - 2
  /\ peer' = [peer EXCEPT ![c].stage = "closed"]
  /\ UNCHANGED <<backlog, waiting, expired, outcomes>>

\* The thread ends.
Release(c) ==
  /\ peer[c].stage = "thread_reported"
  /\ live' = live - 1
  /\ peer' = [peer EXCEPT ![c].stage = "closed"]
  /\ UNCHANGED <<backlog, waiting, expired, outcomes>>

LoopbackNext ==
  \/ Listen \/ Expire \/ Loop \/ Drain \/ Serve
  \/ \E c \in Connections :
       \/ \E request \in Requests : Connect(c, request)
       \/ Answer(c) \/ Report(c) \/ Release(c)

LoopbackSpec == LoopbackInit /\ [][LoopbackNext]_loopbackVars

-----------------------------------------------------------------------------
(* The login goes on with a code only if a redirect carrying its own state  *)
(* brought one, whoever else connected in whatever order.                   *)
OnlyOurCode ==
  waiting.result = "code" =>
    \E c \in Connections : peer[c].request = "code" /\ peer[c].answer = "signed_in"

(* The wait ends by its deadline only if no handler had reported anything.  *)
NothingReportedIsLost ==
  waiting.result = "timeout" => outcomes = <<>>

(* No connection is closed unread: at the limit of threads it is answered   *)
(* all the same, since it may be the redirect.                              *)
NothingUnread ==
  \A c \in Connections : peer[c].stage = "closed" => peer[c].answer # "none"

(* The threads counted are the threads there are, so that room for one is   *)
(* never lost and never exceeded.                                           *)
LiveIsCounted ==
  live = Cardinality({c \in Connections :
                        peer[c].stage \in {"thread", "thread_answered", "thread_reported"}})

(* What a login may rely on in the callback server.                         *)
LoopbackIsSound == OnlyOurCode /\ NothingReportedIsLost /\ NothingUnread /\ LiveIsCounted
=============================================================================

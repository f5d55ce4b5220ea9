------------------------- MODULE TokenRefreshProofs -------------------------
(***************************************************************************)
(* The proofs about TokenRefresh, for every set of processes, origins,     *)
(* clients and response shapes and for every bound on the tokens issued.   *)
(*                                                                         *)
(* The argument: the file, the lock and the exchange of the lock's holder  *)
(* satisfy IInv.  Most steps of a process either happen outside the lock   *)
(* and change nothing shared (OutsideLock), move it along inside the lock  *)
(* (InsideLock), or take it out of the lock with the file untouched        *)
(* (LeaveLock); what is left are the steps that change the file or the     *)
(* server, one lemma each.  What a process remembers outside the lock is   *)
(* MemoryInv, and is behind the two action properties of the requests.     *)
(***************************************************************************)
EXTENDS TokenRefresh, TLAPS

USE MaxGenAssumption, NoSessionAssumption, ProcsAssumption, TokensAssumption,
    ShapesAssumption
USE DEF Gen, NoToken, Session, Tokens, Stages, Fresh, Aging, Lapsed

-----------------------------------------------------------------------------
(* What the data operators return.                                          *)

(* A response folded into a session is a session again, with the new         *)
(* access token; it keeps the old refresh token exactly when the response    *)
(* has none (merge, source.rs).                                              *)
LEMMA MergeType ==
  ASSUME NEW s \in Session, NEW t \in Tokens
  PROVE  /\ Merge(s, t) \in Session
         /\ Merge(s, t).at = t.at
         /\ Merge(s, t).rt = IF t.rt = NoToken THEN s.rt ELSE t.rt
  BY DEF Merge

(* Response number g carries the access token g, and the refresh token g     *)
(* unless its shape does not renew.                                          *)
LEMMA ResponseType ==
  ASSUME NEW g \in Gen, NEW shape \in Shapes
  PROVE  /\ Response(g, shape) \in Tokens
         /\ Response(g, shape).at = g
         /\ Response(g, shape).rt \in {g, NoToken}
         /\ Response(g, shape).rt = NoToken <=> ~ shape.renews
  BY DEF Response

(* What a login stores is a session with the tokens of the response          *)
(* (build_session, login.rs).                                                *)
LEMMA SignedInType ==
  ASSUME NEW t \in Tokens, NEW o \in Origins, NEW c \in Clients
  PROVE  /\ SignedIn(t, o, c) \in Session
         /\ SignedIn(t, o, c).at = t.at
         /\ SignedIn(t, o, c).rt = t.rt
  BY DEF SignedIn

-----------------------------------------------------------------------------
(* The three ways in which a step of a process leaves the file alone.       *)

(* A step of p outside the lock that changes nothing shared, and nothing     *)
(* of any other process, preserves the invariant.                            *)
LEMMA OutsideLock ==
  ASSUME IInv, TypeOK', NEW p \in Procs,
         pc[p] \notin InLock, pc'[p] \notin InLock,
         pc'[p] # "off" => state'[p] # NoSession,
         \A q \in Procs \ {p} : /\ pc'[q] = pc[q]
                                /\ state'[q] = state[q]
                                /\ registered'[q] = registered[q]
                                /\ held'[q] = held[q]
                                /\ answer'[q] = answer[q],
         UNCHANGED <<oauth, lock, issued, retired, revoked, late, doubtful>>
  PROVE  IInv'
<1> USE DEF IInv
<1>1. (SessionInMemory /\ LockIsHeld /\ ReadIsStillStored)'
  BY DEF SessionInMemory, LockIsHeld, ReadIsStillStored
<1>2. IssuedOnly'
  BY DEF IssuedOnly
<1>3. ExchangeInv'
  BY DEF ExchangeInv, Refusable, SecretMismatch, InLock, InExchange
<1>4. StoredTokenIsCurrent'
  BY DEF StoredTokenIsCurrent, HasSuccessorOf, InLock, InExchange
<1> QED
  BY <1>1, <1>2, <1>3, <1>4

(* A step of p within the lock that changes only how far its exchange has    *)
(* come preserves the invariant: an exchange needs a refresh token, and a    *)
(* refusal a reason.                                                         *)
LEMMA InsideLock ==
  ASSUME IInv, TypeOK', NEW p \in Procs,
         pc[p] \in InLock \ {"granted"}, pc'[p] \in InExchange \ {"granted"},
         held[p] # NoSession, held[p].rt # NoToken,
         pc'[p] = "rejected" => Refusable(p),
         \A q \in Procs \ {p} : pc'[q] = pc[q],
         UNCHANGED <<fileVars, serverVars, provider, request, exchange, doubtful>>
  PROVE  IInv'
<1> USE DEF IInv, fileVars, serverVars, provider, request, exchange
<1>1. (SessionInMemory /\ LockIsHeld /\ ReadIsStillStored)'
  BY DEF SessionInMemory, LockIsHeld, ReadIsStillStored, InLock, InExchange
<1>2. IssuedOnly'
  BY DEF IssuedOnly
<1>3. ExchangeInv'
  BY DEF ExchangeInv, Refusable, SecretMismatch, InLock, InExchange
<1>4. StoredTokenIsCurrent'
  BY DEF StoredTokenIsCurrent, HasSuccessorOf
<1> QED
  BY <1>1, <1>2, <1>3, <1>4

(* A step that takes p out of the lock, with the file and the server as      *)
(* they were, preserves the invariant, provided an answer that is given up   *)
(* is remembered as lost: nobody else is in the lock, so no exchange is      *)
(* left.                                                                     *)
LEMMA LeaveLock ==
  ASSUME IInv, TypeOK', NEW p \in Procs,
         pc[p] \in InLock, pc'[p] \notin InLock, lock' = NoProc,
         pc'[p] # "off" => state'[p] # NoSession,
         pc[p] = "granted" => held[p].rt \in doubtful',
         doubtful \subseteq doubtful', doubtful' \subseteq 1 .. issued,
         late' \subseteq doubtful',
         \A q \in Procs \ {p} : pc'[q] = pc[q] /\ state'[q] = state[q],
         UNCHANGED <<oauth, issued, retired>>
  PROVE  IInv'
<1> USE DEF IInv
<1>1. \A q \in Procs : pc'[q] \notin InLock
  BY DEF LockIsHeld
<1>2. (SessionInMemory /\ LockIsHeld /\ ReadIsStillStored)'
  BY <1>1 DEF SessionInMemory, LockIsHeld, ReadIsStillStored, TypeOK
<1>3. IssuedOnly'
  BY DEF IssuedOnly
<1>4. ExchangeInv'
  BY <1>1 DEF ExchangeInv, InLock, InExchange
<1>5. StoredTokenIsCurrent'
  BY DEF StoredTokenIsCurrent, HasSuccessorOf, LockIsHeld, InLock, InExchange
<1> QED
  BY <1>2, <1>3, <1>4, <1>5

(* The token a process exchanges is one the server issued: it is the one     *)
(* in the file.                                                              *)
LEMMA HeldIsIssued ==
  ASSUME IInv, NEW p \in Procs, pc[p] \in InExchange
  PROVE  held[p] \in Session /\ held[p] = oauth /\ held[p].rt \in 1 .. issued
  BY DEF IInv, TypeOK, ExchangeInv, ReadIsStillStored, IssuedOnly, InLock, InExchange

-----------------------------------------------------------------------------
(* The steps outside the lock.                                             *)

(* Starting a command reads the file and nothing else.                       *)
LEMMA OpenInv == ASSUME IInv, NEW p \in Procs, Open(p) PROVE IInv'
<1> USE DEF IInv, TypeOK, Open, fileVars, serverVars, request, exchange
<1>1. TypeOK'
  BY DEF InLock, InExchange, PCs, Outcomes
<1>2. pc[p] \notin InLock /\ pc'[p] \notin InLock /\ state'[p] # NoSession
  BY DEF InLock, InExchange
<1>3. \A q \in Procs \ {p} : /\ pc'[q] = pc[q]
                           /\ state'[q] = state[q]
                           /\ registered'[q] = registered[q]
  OBVIOUS
<1> QED
  BY <1>1, <1>2, <1>3, OutsideLock DEF IInv

(* Using a fresh token changes the process only.                             *)
LEMMA UseBearerInv == ASSUME IInv, NEW p \in Procs, UseBearer(p) PROVE IInv'
<1> USE DEF IInv, TypeOK, UseBearer, fileVars, serverVars, provider, exchange, SendWith
<1>1. TypeOK'
  BY DEF SessionInMemory, InLock, InExchange, PCs, Outcomes
<1> QED
  BY <1>1, OutsideLock DEF SessionInMemory, InLock, InExchange

(* So does deciding to renew it first.                                       *)
LEMMA RenewBearerInv == ASSUME IInv, NEW p \in Procs, RenewBearer(p) PROVE IInv'
<1> USE DEF IInv, TypeOK, RenewBearer, fileVars, serverVars, provider, exchange
<1>1. TypeOK'
  BY DEF SessionInMemory, InLock, InExchange, PCs, Outcomes
<1> QED
  BY <1>1, OutsideLock DEF SessionInMemory, InLock, InExchange

(* The instance answers the request, with a 401 or otherwise.                *)
LEMMA SendInv == ASSUME IInv, NEW p \in Procs, Send(p) PROVE IInv'
<1> USE DEF IInv, TypeOK, Send, fileVars, serverVars, provider, request, exchange,
            Finish
<1>1. TypeOK'
  BY DEF InLock, InExchange, PCs, Outcomes
<1> QED
  BY <1>1, OutsideLock DEF SessionInMemory, InLock, InExchange

(* A 401 that is to be renewed sends the process to the lock.                *)
LEMMA RenewInv == ASSUME IInv, NEW p \in Procs, Renew(p) PROVE IInv'
<1> USE DEF IInv, TypeOK, Renew, fileVars, serverVars, provider, exchange
<1>1. TypeOK'
  BY DEF InLock, InExchange, PCs, Outcomes
<1> QED
  BY <1>1, OutsideLock DEF SessionInMemory, InLock, InExchange

(* A second 401 ends the request.                                            *)
LEMMA GiveUpInv == ASSUME IInv, NEW p \in Procs, GiveUp(p) PROVE IInv'
<1> USE DEF IInv, TypeOK, GiveUp, fileVars, serverVars, provider, exchange, Finish
<1>1. TypeOK'
  BY DEF InLock, InExchange, PCs, Outcomes
<1> QED
  BY <1>1, OutsideLock DEF SessionInMemory, InLock, InExchange

(* Giving up on the lock ends the request.                                   *)
LEMMA LockTimeoutInv == ASSUME IInv, NEW p \in Procs, LockTimeout(p) PROVE IInv'
<1> USE DEF IInv, TypeOK, LockTimeout, fileVars, serverVars, provider, exchange, Finish
<1>1. TypeOK'
  BY DEF InLock, InExchange, PCs, Outcomes
<1> QED
  BY <1>1, OutsideLock DEF SessionInMemory, InLock, InExchange

(* A command that ends leaves the file as it is.                             *)
LEMMA ExitInv == ASSUME IInv, NEW p \in Procs, Exit(p) PROVE IInv'
<1> USE DEF IInv, TypeOK, Exit, fileVars, serverVars, request, exchange
<1>1. TypeOK'
  BY DEF InLock, InExchange, PCs, Outcomes
<1> QED
  BY <1>1, OutsideLock DEF SessionInMemory, InLock, InExchange

-----------------------------------------------------------------------------
(* The steps within the lock.                                              *)

(* Taking the lock: nobody else is in it, and the file is read.              *)
LEMMA AcquireInv == ASSUME IInv, NEW p \in Procs, Acquire(p) PROVE IInv'
<1> USE DEF IInv, TypeOK, Acquire, serverVars, provider, request
<1>1. TypeOK'
  BY DEF InLock, InExchange, PCs
<1>2. (SessionInMemory /\ LockIsHeld /\ ReadIsStillStored)'
  BY DEF SessionInMemory, LockIsHeld, ReadIsStillStored, InLock, InExchange
<1>3. IssuedOnly'
  BY DEF IssuedOnly
<1>4. ExchangeInv'
  BY DEF ExchangeInv, Refusable, SecretMismatch, InLock, InExchange
<1>5. StoredTokenIsCurrent'
  BY DEF StoredTokenIsCurrent, HasSuccessorOf, InLock, InExchange
<1> QED
  BY <1>1, <1>2, <1>3, <1>4, <1>5

(* The refresh is sent: there is a session and a refresh token to send.      *)
LEMMA PostInv == ASSUME IInv, NEW p \in Procs, Post(p) PROVE IInv'
<1> USE DEF IInv, TypeOK, Post, MustRefresh
<1>1. TypeOK'
  BY DEF fileVars, serverVars, provider, request, exchange, InLock, InExchange, PCs
<1> QED
  BY <1>1, InsideLock DEF InLock, InExchange

(* The server cannot serve it now.                                           *)
LEMMA BusyInv == ASSUME IInv, NEW p \in Procs, Busy(p) PROVE IInv'
<1> USE DEF IInv, TypeOK, Busy, serverVars
<1>1. TypeOK'
  BY DEF fileVars, serverVars, provider, request, exchange, InLock, InExchange, PCs
<1> QED
  BY <1>1, InsideLock DEF ExchangeInv, InLock, InExchange

(* The server refuses it: the token was withdrawn, or retired -- and a       *)
(* retired token still in the file is one whose exchange was lost.           *)
LEMMA RejectInv == ASSUME IInv, NEW p \in Procs, Reject(p) PROVE IInv'
<1> USE DEF IInv, TypeOK, Reject, InLock, InExchange
<1>1. TypeOK'
  BY DEF fileVars, serverVars, provider, request, exchange, PCs
<1>2. held[p] = oauth /\ held[p] # NoSession /\ held[p].rt # NoToken
  BY DEF ExchangeInv, ReadIsStillStored
<1>3. Refusable(p)
  BY <1>2 DEF Refusable, Alive, StoredTokenIsCurrent, HasSuccessorOf, LockIsHeld
<1> QED
  BY <1>1, <1>2, <1>3, InsideLock

(* The server grants it: the old token is retired unless the answer keeps    *)
(* it, and the process that spent it is about to save a token nobody has     *)
(* yet.                                                                      *)
LEMMA GrantInv == ASSUME IInv, NEW p \in Procs, Grant(p) PROVE IInv'
<1> USE DEF IInv, TypeOK, Grant, fileVars, provider, request, Rotate
<1>1. held[p] \in Session /\ held[p] = oauth /\ held[p].rt \in 1 .. issued
  BY HeldIsIssued DEF InExchange
<1>2. PICK shape \in Shapes :
        /\ Rotate(held[p].rt, shape)
        /\ answer' = [answer EXCEPT ![p] = Response(issued + 1, shape)]
  OBVIOUS
<1>3. issued' \in 1 .. MaxGen /\ issued' = issued + 1
  BY <1>2
<1>4. /\ answer'[p] \in Tokens
      /\ answer'[p].at = issued'
      /\ answer'[p].rt \in {issued', NoToken}
      /\ answer'[p].rt = NoToken <=> ~ shape.renews
  BY <1>2, <1>3, ResponseType
<1>5. retired' \subseteq retired \cup {held[p].rt}
  BY <1>2
<1>6. retired' \subseteq 1 .. issued'
  <2>1. retired \subseteq 1 .. issued' /\ held[p].rt \in 1 .. issued'
    BY <1>1, <1>3 DEF IssuedOnly
  <2> QED
    BY <1>5, <2>1
<1>7. ~ shape.renews => retired' = retired
  BY <1>2
<1>8. answer' = [answer EXCEPT ![p] = answer'[p]]
  BY <1>2
<1>9. TypeOK'
  <2>1. retired' \subseteq Gen
    BY <1>3, <1>6
  <2> QED
    BY <1>3, <1>4, <1>8, <2>1 DEF InLock, InExchange, PCs
<1>10. (SessionInMemory /\ LockIsHeld /\ ReadIsStillStored)'
  BY DEF SessionInMemory, LockIsHeld, ReadIsStillStored, InLock, InExchange
<1>11. IssuedOnly'
  BY <1>3, <1>6 DEF IssuedOnly
<1>12. ExchangeInv'
  <2>1. \A q \in Procs : pc'[q] \in InExchange => q = p
    BY DEF LockIsHeld, InLock, InExchange
  <2>2. pc'[p] = "granted" /\ held[p] # NoSession /\ held[p].rt # NoToken
    BY DEF ExchangeInv, InExchange
  <2>3. answer'[p] # NoTokens /\ answer'[p].at \in held[p].at + 1 .. issued'
    BY <1>1, <1>3, <1>4 DEF IssuedOnly
  <2>4. answer'[p].rt # NoToken =>
          /\ answer'[p].rt \in 1 .. issued'
          /\ answer'[p].rt \notin retired' \cup doubtful
          /\ held[p].rt \in retired'
    BY <1>1, <1>2, <1>3, <1>4, <1>5 DEF IssuedOnly
  <2>5. answer'[p].rt = NoToken => held[p].rt \notin retired'
    BY <1>4, <1>7 DEF Alive
  <2> QED
    BY <2>1, <2>2, <2>3, <2>4, <2>5 DEF ExchangeInv, InExchange
<1>13. StoredTokenIsCurrent'
  BY <1>1, <1>5
  DEF StoredTokenIsCurrent, HasSuccessorOf, LockIsHeld, InLock, InExchange
<1> QED
  BY <1>9, <1>10, <1>11, <1>12, <1>13

-----------------------------------------------------------------------------
(* The steps out of the lock, with the file as it was.                      *)

(* The store cannot be used.                                                 *)
LEMMA StoreErrorInv == ASSUME IInv, NEW p \in Procs, StoreError(p) PROVE IInv'
<1> USE DEF IInv, TypeOK, StoreError, serverVars, provider, Finish, Release
<1>1. TypeOK'
  BY DEF InLock, InExchange, PCs, Outcomes
<1> QED
  BY <1>1, LeaveLock DEF SessionInMemory, IssuedOnly, InLock, InExchange

(* There is no session any more.                                             *)
LEMMA SessionGoneInv == ASSUME IInv, NEW p \in Procs, SessionGone(p) PROVE IInv'
<1> USE DEF IInv, TypeOK, SessionGone, serverVars, provider, Finish, Release
<1>1. TypeOK'
  BY DEF InLock, InExchange, PCs, Outcomes
<1> QED
  BY <1>1, LeaveLock DEF SessionInMemory, IssuedOnly, InLock, InExchange

(* The session in the file is adopted.                                       *)
LEMMA AdoptInv == ASSUME IInv, NEW p \in Procs, Adopt(p) PROVE IInv'
<1> USE DEF IInv, TypeOK, Adopt, serverVars, SendWith, Release
<1>1. TypeOK'
  BY DEF InLock, InExchange, PCs, Outcomes
<1> QED
  BY <1>1, LeaveLock DEF SessionInMemory, IssuedOnly, InLock, InExchange

(* The token endpoint is of another instance.                                *)
LEMMA ForeignEndpointInv == ASSUME IInv, NEW p \in Procs, ForeignEndpoint(p) PROVE IInv'
<1> USE DEF IInv, TypeOK, ForeignEndpoint, serverVars, provider, Finish, Release,
            MustRefresh
<1>1. TypeOK'
  BY DEF InLock, InExchange, PCs, Outcomes
<1> QED
  BY <1>1, LeaveLock DEF SessionInMemory, IssuedOnly, InLock, InExchange

(* There is no refresh token.                                                *)
LEMMA NotRenewableInv == ASSUME IInv, NEW p \in Procs, NotRenewable(p) PROVE IInv'
<1> USE DEF IInv, TypeOK, NotRenewable, serverVars, provider, Finish, Release,
            MustRefresh
<1>1. TypeOK'
  BY DEF InLock, InExchange, PCs, Outcomes
<1> QED
  BY <1>1, LeaveLock DEF SessionInMemory, IssuedOnly, InLock, InExchange

(* The server could not serve the refresh.                                   *)
LEMMA RefreshFailedInv == ASSUME IInv, NEW p \in Procs, RefreshFailed(p) PROVE IInv'
<1> USE DEF IInv, TypeOK, RefreshFailed, serverVars, provider, Finish, Release
<1>1. TypeOK'
  BY DEF InLock, InExchange, PCs, Outcomes
<1> QED
  BY <1>1, LeaveLock DEF SessionInMemory, IssuedOnly, InLock, InExchange

(* The server refused it.                                                    *)
LEMMA RefreshRejectedInv == ASSUME IInv, NEW p \in Procs, RefreshRejected(p) PROVE IInv'
<1> USE DEF IInv, TypeOK, RefreshRejected, serverVars, provider, Finish, Release
<1>1. TypeOK'
  BY DEF InLock, InExchange, PCs, Outcomes
<1> QED
  BY <1>1, LeaveLock DEF SessionInMemory, IssuedOnly, InLock, InExchange

(* Nobody waits for the answer any more: the token may be spent.             *)
LEMMA PostTimeoutInv == ASSUME IInv, NEW p \in Procs, PostTimeout(p) PROVE IInv'
<1> USE DEF IInv, TypeOK, PostTimeout, provider, Finish, Release, InLock, InExchange
<1>1. held[p].rt \in 1 .. issued
  BY HeldIsIssued
<1>2. doubtful \subseteq doubtful' /\ doubtful' \subseteq 1 .. issued /\ late' \subseteq doubtful'
  BY <1>1 DEF IssuedOnly
<1>3. TypeOK'
  BY <1>1, <1>2 DEF PCs, Outcomes
<1>4. state'[p] # NoSession /\ pc'[p] \notin InLock /\ lock' = NoProc
  BY DEF SessionInMemory
<1> QED
  BY <1>2, <1>3, <1>4, LeaveLock

(* The answer is lost: the token is spent.                                   *)
LEMMA AnswerLostInv == ASSUME IInv, NEW p \in Procs, AnswerLost(p) PROVE IInv'
<1> USE DEF IInv, TypeOK, AnswerLost, serverVars, provider, Finish, Release, InLock,
            InExchange
<1>1. held[p].rt \in 1 .. issued
  BY HeldIsIssued
<1>2. doubtful \subseteq doubtful' /\ doubtful' \subseteq 1 .. issued /\ late' \subseteq doubtful'
  BY <1>1 DEF IssuedOnly
<1>3. TypeOK'
  BY <1>1, <1>2 DEF PCs, Outcomes
<1>4. state'[p] # NoSession /\ pc'[p] \notin InLock /\ lock' = NoProc
  BY DEF SessionInMemory
<1> QED
  BY <1>2, <1>3, <1>4, LeaveLock

(* A process dies.  Outside the lock nothing is left of it; inside, the      *)
(* lock is released and an exchange under way is a lost one.                 *)
LEMMA CrashInv == ASSUME IInv, NEW p \in Procs, Crash(p) PROVE IInv'
<1> USE DEF IInv, TypeOK, Crash
<1>1. CASE pc[p] \notin InLock
  <2>1. lock' = lock /\ late' = late /\ doubtful' = doubtful
    BY <1>1 DEF LockIsHeld, InLock, InExchange
  <2>2. TypeOK'
    BY <2>1 DEF PCs, Outcomes
  <2> QED
    BY <1>1, <2>1, <2>2, OutsideLock DEF InLock, InExchange
<1>2. CASE pc[p] \in InLock
  <2>1. pc[p] \in InExchange => held[p].rt \in 1 .. issued
    BY HeldIsIssued
  <2>2. doubtful \subseteq doubtful' /\ doubtful' \subseteq 1 .. issued /\ late' \subseteq doubtful'
    BY <2>1 DEF IssuedOnly, InExchange
  <2>3. TypeOK'
    BY <2>1, <2>2 DEF InLock, InExchange, PCs, Outcomes
  <2>4. lock' = NoProc /\ pc'[p] = "off"
    BY <1>2 DEF LockIsHeld
  <2>5. pc[p] = "granted" => held[p].rt \in doubtful'
    BY DEF InExchange
  <2>6. pc'[p] \notin InLock /\ UNCHANGED <<oauth, issued, retired>>
    BY <2>4 DEF InLock, InExchange
  <2>7. \A q \in Procs \ {p} : pc'[q] = pc[q] /\ state'[q] = state[q]
    OBVIOUS
  <2> QED
    BY <1>2, <2>2, <2>3, <2>4, <2>5, <2>6, <2>7, LeaveLock
<1> QED
  BY <1>1, <1>2

-----------------------------------------------------------------------------
(* The steps that write the file.                                          *)

(* A save: the merged session carries a token the server still honours,      *)
(* and the lock is free again.                                               *)
LEMMA SaveInv == ASSUME IInv, NEW p \in Procs, Save(p) PROVE IInv'
<1> USE DEF IInv, TypeOK, Save, serverVars, SendWith, Release
<1> DEFINE new == Merge(held[p], answer[p])
<1>1. held[p] \in Session /\ answer[p] \in Tokens /\ held[p] = oauth
  BY DEF ExchangeInv, ReadIsStillStored, InLock, InExchange
<1>2. /\ new \in Session
      /\ new.at = answer[p].at
      /\ new.rt = IF answer[p].rt = NoToken THEN held[p].rt ELSE answer[p].rt
  BY <1>1, MergeType
<1>3. oauth' = new /\ state' = [state EXCEPT ![p] = new]
  OBVIOUS
<1> HIDE DEF new
<1>4. TypeOK'
  BY <1>1, <1>2, <1>3 DEF InLock, InExchange, PCs, Outcomes
<1>5. (SessionInMemory /\ LockIsHeld /\ ReadIsStillStored)'
  BY <1>1, <1>2, <1>3
  DEF SessionInMemory, LockIsHeld, ReadIsStillStored, InLock, InExchange
<1>6. IssuedOnly'
  BY <1>1, <1>2, <1>3 DEF IssuedOnly, ExchangeInv
<1>7. ExchangeInv'
  BY <1>1 DEF ExchangeInv, Refusable, SecretMismatch, InLock, InExchange
<1>8. StoredTokenIsCurrent'
  BY <1>1, <1>2, <1>3 DEF StoredTokenIsCurrent, ExchangeInv
<1> QED
  BY <1>4, <1>5, <1>6, <1>7, <1>8

(* A save that fails, before or after the file was replaced.                 *)
LEMMA SaveFailedInv == ASSUME IInv, NEW p \in Procs, SaveFailed(p) PROVE IInv'
<1> USE DEF IInv, TypeOK, SaveFailed, serverVars, provider, Finish, Release
<1> DEFINE new == Merge(held[p], answer[p])
<1>1. held[p] \in Session /\ answer[p] \in Tokens /\ held[p] = oauth
  BY DEF ExchangeInv, ReadIsStillStored, InLock, InExchange
<1>2. /\ new \in Session
      /\ new.at = answer[p].at
      /\ new.rt = IF answer[p].rt = NoToken THEN held[p].rt ELSE answer[p].rt
  BY <1>1, MergeType
<1>3. held[p].rt \in 1 .. issued
  BY <1>1 DEF ExchangeInv, IssuedOnly, InExchange
<1>4. \/ oauth' = oauth /\ doubtful' = doubtful \cup {held[p].rt} /\ answer[p].rt # NoToken
      \/ oauth' = oauth /\ doubtful' = doubtful /\ answer[p].rt = NoToken
      \/ oauth' = new /\ doubtful' = doubtful
  BY DEF Spent
<1> HIDE DEF new
<1>5. doubtful' \subseteq 1 .. issued /\ doubtful \subseteq doubtful'
  BY <1>3, <1>4 DEF IssuedOnly
<1>6. doubtful' \subseteq Gen
  BY <1>5
<1>7. TypeOK'
  BY <1>1, <1>2, <1>4, <1>6 DEF InLock, InExchange, PCs, Outcomes
<1>8. (SessionInMemory /\ LockIsHeld /\ ReadIsStillStored)'
  BY <1>1, <1>2 DEF SessionInMemory, LockIsHeld, ReadIsStillStored, InLock, InExchange
<1>9. IssuedOnly'
  <2>1. new.at <= issued /\ new.rt <= issued
    BY <1>1, <1>2, <1>3 DEF ExchangeInv
  <2>2. oauth' # NoSession => oauth'.at <= issued /\ oauth'.rt <= issued
    BY <1>4, <2>1 DEF IssuedOnly
  <2>3. late \subseteq doubtful'
    BY <1>5 DEF IssuedOnly
  <2> QED
    BY <1>5, <2>2, <2>3 DEF IssuedOnly
<1>10. ExchangeInv'
  <2>1. \A q \in Procs : pc'[q] \notin InExchange
    BY DEF LockIsHeld, InLock, InExchange
  <2> QED
    BY <2>1 DEF ExchangeInv, InExchange
<1>11. StoredTokenIsCurrent'
  <2>1. pc[p] = "granted" /\ oauth # NoSession
    BY <1>1 DEF ExchangeInv, InExchange
  <2>2. \A rt : HasSuccessorOf(p, rt) => rt = held[p].rt
    BY DEF HasSuccessorOf
  <2>3. oauth.rt \in retired => oauth.rt \in doubtful \/ oauth.rt = held[p].rt
    BY <2>1, <2>2 DEF StoredTokenIsCurrent, HasSuccessorOf, LockIsHeld, InLock, InExchange
  <2>4. answer[p].rt = NoToken => (held[p].rt \in retired => held[p].rt \in doubtful)
    BY <2>1 DEF ExchangeInv
  <2>5. answer[p].rt # NoToken => answer[p].rt \notin retired
    BY <2>1 DEF ExchangeInv
  <2>6. oauth' # NoSession /\ oauth'.rt \in retired => oauth'.rt \in doubtful'
    BY <1>1, <1>2, <1>4, <2>1, <2>3, <2>4, <2>5
  <2> QED
    BY <2>6 DEF StoredTokenIsCurrent
<1> QED
  BY <1>7, <1>8, <1>9, <1>10, <1>11

(* A login stores a session of a new response, with nobody in the lock.      *)
LEMMA PeerLoginInv == ASSUME IInv, PeerLogin PROVE IInv'
<1> USE DEF IInv, TypeOK, PeerLogin, procVars, provider, request, exchange
<1>1. TypeOK'
  BY ResponseType, SignedInType
<1>2. (SessionInMemory /\ LockIsHeld /\ ReadIsStillStored)'
  BY DEF SessionInMemory, LockIsHeld, ReadIsStillStored
<1>3. IssuedOnly'
  <2>1. issued' = issued + 1 /\ issued' \in Gen
    OBVIOUS
  <2>2. oauth'.at = issued' /\ oauth'.rt \in {issued', NoToken}
    BY <2>1, ResponseType, SignedInType
  <2> QED
    BY <2>1, <2>2 DEF IssuedOnly
<1>4. ExchangeInv'
  BY DEF ExchangeInv, LockIsHeld, InLock, InExchange
<1>5. StoredTokenIsCurrent'
  BY ResponseType, SignedInType DEF StoredTokenIsCurrent, IssuedOnly
<1> QED
  BY <1>1, <1>2, <1>3, <1>4, <1>5

(* A logout removes the session, with nobody in the lock.                    *)
LEMMA PeerLogoutInv == ASSUME IInv, PeerLogout PROVE IInv'
<1> USE DEF IInv, TypeOK, PeerLogout, serverVars, procVars, provider, request, exchange
<1>1. TypeOK'
  OBVIOUS
<1>2. (SessionInMemory /\ LockIsHeld /\ ReadIsStillStored)'
  BY DEF SessionInMemory, LockIsHeld, ReadIsStillStored
<1>3. IssuedOnly'
  BY DEF IssuedOnly
<1>4. ExchangeInv'
  BY DEF ExchangeInv, LockIsHeld, InLock, InExchange
<1>5. StoredTokenIsCurrent'
  BY DEF StoredTokenIsCurrent
<1> QED
  BY <1>1, <1>2, <1>3, <1>4, <1>5

-----------------------------------------------------------------------------
(* The server by itself, and time.                                         *)

(* A request nobody waits for is granted after all: its token is one whose   *)
(* exchange was lost already.                                                *)
LEMMA GrantLateInv == ASSUME IInv, NEW g \in Gen, GrantLate(g) PROVE IInv'
<1> USE DEF IInv, TypeOK, GrantLate, fileVars, procVars, provider, request, exchange
<1>1. g \in doubtful /\ late' \subseteq late
  BY DEF IssuedOnly
<1>2. issued' \in issued .. MaxGen /\ issued \in 0 .. issued'
  BY DEF Rotate
<1>3. retired' \subseteq retired \cup {g} /\ retired \subseteq retired'
  BY DEF Rotate
<1>4. retired' \subseteq 1 .. issued' /\ doubtful' \subseteq 1 .. issued'
  BY <1>1, <1>2, <1>3 DEF IssuedOnly
<1>5. TypeOK'
  BY <1>1, <1>2, <1>3
<1>6. (SessionInMemory /\ LockIsHeld /\ ReadIsStillStored)'
  BY DEF SessionInMemory, LockIsHeld, ReadIsStillStored
<1>7. IssuedOnly'
  BY <1>1, <1>2, <1>4 DEF IssuedOnly
<1>8. ExchangeInv'
  BY <1>1, <1>2, <1>3 DEF ExchangeInv, Refusable, SecretMismatch, InExchange
<1>9. StoredTokenIsCurrent'
  BY <1>1, <1>3 DEF StoredTokenIsCurrent, HasSuccessorOf
<1> QED
  BY <1>5, <1>6, <1>7, <1>8, <1>9

(* Withdrawing grants only adds to the reasons for a refusal.                *)
LEMMA RevokeInv == ASSUME IInv, Revoke PROVE IInv'
<1> USE DEF IInv, TypeOK, Revoke, fileVars, procVars, provider, request, exchange
<1>1. TypeOK'
  OBVIOUS
<1>2. (SessionInMemory /\ LockIsHeld /\ ReadIsStillStored)'
  BY DEF SessionInMemory, LockIsHeld, ReadIsStillStored
<1>3. IssuedOnly'
  BY DEF IssuedOnly
<1>4. ExchangeInv'
  BY DEF ExchangeInv, Refusable, SecretMismatch, IssuedOnly, ReadIsStillStored, InLock, InExchange
<1>5. StoredTokenIsCurrent'
  BY DEF StoredTokenIsCurrent, HasSuccessorOf
<1> QED
  BY <1>1, <1>2, <1>3, <1>4, <1>5

(* A token grows older, and that is all.                                     *)
LEMMA AgeInv == ASSUME IInv, NEW g \in Gen, Age(g) PROVE IInv'
<1> USE DEF IInv, TypeOK, Age, fileVars, procVars, provider, request, exchange
<1>1. TypeOK'
  <2>1. stage[g] \in {Fresh, Aging}
    OBVIOUS
  <2>2. stage[g] + 1 \in Stages
    BY <2>1
  <2> QED BY <2>2
<1>2. (SessionInMemory /\ LockIsHeld /\ ReadIsStillStored)'
  BY DEF SessionInMemory, LockIsHeld, ReadIsStillStored
<1>3. IssuedOnly'
  BY DEF IssuedOnly
<1>4. ExchangeInv'
  BY DEF ExchangeInv, Refusable, SecretMismatch, InLock, InExchange
<1>5. StoredTokenIsCurrent'
  BY DEF StoredTokenIsCurrent, HasSuccessorOf
<1> QED
  BY <1>1, <1>2, <1>3, <1>4, <1>5

-----------------------------------------------------------------------------
(* The theorems.                                                           *)

(* A step in which nothing changes preserves the invariant.                  *)
LEMMA StutterInv == ASSUME IInv, UNCHANGED vars PROVE IInv'
  BY DEF IInv, TypeOK, SessionInMemory, LockIsHeld, ReadIsStillStored, IssuedOnly,
     ExchangeInv, StoredTokenIsCurrent, HasSuccessorOf, Refusable, SecretMismatch, vars, fileVars,
     serverVars, procVars, provider, request, exchange

(* The invariant holds when the first login has stored its session.          *)
LEMMA InitInv == Init => IInv
<1> SUFFICES ASSUME Init PROVE IInv
  OBVIOUS
<1>1. PICK o \in Origins, c \in Clients :
        oauth = [at |-> 1, rt |-> 1, timed |-> TRUE, origin |-> o, client |-> c]
        /\ home = [p \in Procs |-> o] /\ registered = [p \in Procs |-> c]
  BY DEF Init
<1>2. oauth \in Session /\ oauth.at = 1 /\ oauth.rt = 1
  BY <1>1
<1>3. TypeOK
  BY <1>1, <1>2 DEF Init, TypeOK, PCs, Outcomes
<1>4. SessionInMemory /\ LockIsHeld /\ ReadIsStillStored /\ IssuedOnly
      /\ ExchangeInv /\ StoredTokenIsCurrent
  BY <1>2
  DEF Init, SessionInMemory, LockIsHeld, ReadIsStillStored, IssuedOnly, ExchangeInv,
      StoredTokenIsCurrent, InLock, InExchange
<1> QED
  BY <1>3, <1>4 DEF IInv

(* Every step of every process, of the server and of the other writers       *)
(* preserves the invariant.                                                  *)
LEMMA NextInv == IInv /\ [Next]_vars => IInv'
<1> SUFFICES ASSUME IInv, [Next]_vars PROVE IInv'
  OBVIOUS
<1>1. ASSUME NEW p \in Procs, Step(p) PROVE IInv'
  BY <1>1, SendInv, RenewInv, GiveUpInv, AcquireInv, LockTimeoutInv, StoreErrorInv,
     SessionGoneInv, AdoptInv, ForeignEndpointInv, NotRenewableInv, PostInv,
     PostTimeoutInv, AnswerLostInv, RefreshFailedInv, RefreshRejectedInv, SaveInv,
     SaveFailedInv
  DEF Step
<1>2. ASSUME NEW p \in Procs, Command(p) PROVE IInv'
  BY <1>2, OpenInv, UseBearerInv, RenewBearerInv, ExitInv, CrashInv DEF Command
<1>3. ASSUME NEW p \in Procs, Serve(p) PROVE IInv'
  BY <1>3, GrantInv, RejectInv, BusyInv DEF Serve
<1>4. ASSUME NEW g \in Gen, GrantLate(g) \/ Age(g) PROVE IInv'
  BY <1>4, GrantLateInv, AgeInv
<1>5. CASE Revoke \/ PeerLogin \/ PeerLogout
  BY <1>5, RevokeInv, PeerLoginInv, PeerLogoutInv
<1>6. CASE UNCHANGED vars
  BY <1>6, StutterInv
<1> QED
  BY <1>1, <1>2, <1>3, <1>4, <1>5, <1>6 DEF Next

(* The invariant holds in every reachable state.                             *)
THEOREM Invariance == Spec => []IInv
<1>1. Init => IInv
  BY InitInv
<1>2. IInv /\ [Next]_vars => IInv'
  BY NextInv
<1> QED
  BY <1>1, <1>2, PTL DEF Spec

(* Every variable keeps its type.                                            *)
THEOREM TypeCorrect == Spec => []TypeOK
<1>1. IInv => TypeOK
  BY DEF IInv
<1> QED
  BY <1>1, Invariance, PTL

(* The refresh token in the file is one the server honours, unless it was    *)
(* withdrawn, an exchange of it was lost, or the process that spent it is    *)
(* about to save its successor (refresh_locked).                             *)
THEOREM StoredTokenCurrent == Spec => []StoredTokenIsCurrent
<1>1. IInv => StoredTokenIsCurrent
  BY DEF IInv
<1> QED
  BY <1>1, Invariance, PTL

(* What a process read under the lock is still what the file holds, so a     *)
(* save overwrites nobody else's session (CredentialStore::update).          *)
THEOREM NoLostUpdate == Spec => []ReadIsStillStored
<1>1. IInv => ReadIsStillStored
  BY DEF IInv
<1> QED
  BY <1>1, Invariance, PTL

(* Only a save and a login write a session.                                  *)
LEMMA WritersOfOauth ==
  ASSUME Next, oauth' # oauth, oauth' # NoSession
  PROVE  (\E p \in Procs : Save(p) \/ SaveFailed(p)) \/ PeerLogin
<1> USE DEF fileVars, serverVars, procVars, provider, request, exchange
<1>1. ASSUME NEW p \in Procs, Step(p), ~ Save(p), ~ SaveFailed(p) PROVE FALSE
  BY <1>1
  DEF Step, Send, Renew, GiveUp, Acquire, LockTimeout, StoreError, SessionGone, Adopt,
      ForeignEndpoint, NotRenewable, Post, PostTimeout, AnswerLost, RefreshFailed,
      RefreshRejected
<1>2. ASSUME NEW p \in Procs, Command(p) \/ Serve(p) PROVE FALSE
  BY <1>2
  DEF Command, Serve, Open, UseBearer, RenewBearer, Exit, Crash, Grant, Reject, Busy
<1>3. ASSUME NEW g \in Gen, GrantLate(g) \/ Age(g) PROVE FALSE
  BY <1>3 DEF GrantLate, Age
<1>4. ~ Revoke /\ ~ PeerLogout
  BY DEF Revoke, PeerLogout
<1> QED
  BY <1>1, <1>2, <1>3, <1>4 DEF Next

(* What they write is never a token the server has retired, save a lost      *)
(* one, and always a later session than the one it replaces.                 *)
LEMMA WriteAdvances ==
  ASSUME IInv, Next, oauth' # oauth, oauth' # NoSession
  PROVE  /\ oauth'.rt \in retired' => oauth'.rt \in doubtful'
         /\ oauth # NoSession => oauth'.at > oauth.at
<1> USE DEF IInv, TypeOK
<1>1. ASSUME NEW p \in Procs, Save(p) \/ SaveFailed(p)
      PROVE  /\ oauth'.rt \in retired' => oauth'.rt \in doubtful'
             /\ oauth'.at > oauth.at
  <2> DEFINE new == Merge(held[p], answer[p])
  <2>1. pc[p] = "granted" /\ oauth' = new /\ retired' = retired /\ doubtful \subseteq doubtful'
    BY <1>1 DEF Save, SaveFailed, serverVars
  <2>2. held[p] \in Session /\ answer[p] \in Tokens /\ held[p] = oauth
    BY <2>1 DEF ExchangeInv, ReadIsStillStored, InLock, InExchange
  <2>3. /\ new.at = answer[p].at
        /\ new.rt = IF answer[p].rt = NoToken THEN held[p].rt ELSE answer[p].rt
    BY <2>2, MergeType
  <2> HIDE DEF new
  <2> QED
    BY <2>1, <2>2, <2>3 DEF ExchangeInv
<1>2. CASE PeerLogin
  <2>1. PICK o \in Origins, c \in Clients, shape \in Shapes :
          oauth' = SignedIn(Response(issued + 1, shape), o, c)
    BY <1>2 DEF PeerLogin
  <2>2. issued + 1 \in Gen /\ retired' = retired
    BY <1>2 DEF PeerLogin
  <2>3. oauth'.at = issued + 1 /\ oauth'.rt \in {issued + 1, NoToken}
    BY <2>1, <2>2, ResponseType, SignedInType
  <2> QED
    BY <2>2, <2>3 DEF IssuedOnly
<1> QED
  BY <1>1, <1>2, WritersOfOauth

(* No write ever resurrects a spent refresh token or an earlier session      *)
(* (refresh_locked, CredentialStore::update).                                *)
THEOREM Resurrection == Spec => NoResurrection
<1>1. IInv /\ [Next]_vars =>
        [oauth' # oauth /\ oauth' # NoSession =>
           /\ oauth'.rt \in retired' => oauth'.rt \in doubtful'
           /\ oauth # NoSession => oauth'.at > oauth.at]_vars
  BY WriteAdvances
<1> QED
  BY <1>1, Invariance, PTL DEF Spec, NoResurrection

(* Only these four steps tell a process to sign in again.                    *)
LEMMA ReauthSteps ==
  ASSUME IInv, [Next]_vars, NEW p \in Procs, outcome[p] # "reauth", outcome'[p] = "reauth"
  PROVE  SessionGone(p) \/ NotRenewable(p) \/ RefreshRejected(p) \/ SaveFailed(p)
<1> USE DEF IInv, TypeOK, fileVars, serverVars, procVars, provider, request,
            exchange, Finish
<1>1. ASSUME NEW q \in Procs, Step(q), ~ SessionGone(q), ~ NotRenewable(q), ~ RefreshRejected(q),
             ~ SaveFailed(q)
      PROVE  FALSE
  BY <1>1
  DEF Step, Send, Renew, GiveUp, Acquire, LockTimeout, StoreError, Adopt,
      ForeignEndpoint,
      Post, PostTimeout, AnswerLost, RefreshFailed, Save
<1>2. ASSUME NEW q \in Procs, Command(q) \/ Serve(q) PROVE FALSE
  BY <1>2
  DEF Command, Serve, Open, UseBearer, RenewBearer, Exit, Crash, Grant, Reject, Busy
<1>3. ASSUME NEW g \in Gen, GrantLate(g) \/ Age(g) PROVE FALSE
  BY <1>3 DEF GrantLate, Age
<1>4. ~ Revoke /\ ~ PeerLogin /\ ~ PeerLogout /\ ~ UNCHANGED vars
  BY DEF Revoke, PeerLogin, PeerLogout, vars
<1>5. ASSUME NEW q \in Procs,
             SessionGone(q) \/ NotRenewable(q) \/ RefreshRejected(q) \/ SaveFailed(q)
      PROVE  q = p
  BY <1>5 DEF SessionGone, NotRenewable, RefreshRejected, SaveFailed
<1> QED
  BY <1>1, <1>2, <1>3, <1>4, <1>5 DEF Next

(* A process is told to sign in again only for a grant that is gone          *)
(* (request_refresh, classify_refresh), with the two named exceptions of a   *)
(* good one: losing the race for a refresh is no reason.                     *)
THEOREM Reauth == Spec => ReauthIsJustified
<1> DEFINE Justified ==
      \A p \in Procs : outcome[p] # "reauth" /\ outcome'[p] = "reauth" =>
        \/ GrantGone(p)
        \/ pc[p] = "rejected" /\ SecretMismatch(p)
        \/ KeptAfterFailedSave(p)
<1>1. IInv /\ [Next]_vars => [Justified]_vars
  <2> SUFFICES ASSUME IInv, [Next]_vars,
                      NEW p \in Procs, outcome[p] # "reauth", outcome'[p] = "reauth"
               PROVE  \/ GrantGone(p)
                      \/ pc[p] = "rejected" /\ SecretMismatch(p)
                      \/ KeptAfterFailedSave(p)
    OBVIOUS
  <2>1. CASE SessionGone(p) \/ NotRenewable(p)
    BY <2>1 DEF SessionGone, NotRenewable, GrantGone
  <2>2. CASE RefreshRejected(p)
    BY <2>2 DEF RefreshRejected, IInv, ExchangeInv, Refusable, GrantGone
  <2>3. CASE SaveFailed(p)
    BY <2>3 DEF SaveFailed, Spent, IInv, ExchangeInv, GrantGone, KeptAfterFailedSave
  <2> QED
    BY <2>1, <2>2, <2>3, ReauthSteps
<1> QED
  BY <1>1, Invariance, PTL DEF Spec, ReauthIsJustified

-----------------------------------------------------------------------------
(* What a process remembers: its session, and the token it asks to have      *)
(* replaced.                                                                 *)

(* The session in memory was issued, and the file holds no earlier one: a    *)
(* process may be behind the file and never ahead of it (RotationLost keeps  *)
(* the old session in memory).                                               *)
NeverAhead ==
  \A p \in Procs : state[p] # NoSession =>
    /\ state[p].at <= issued
    /\ oauth # NoSession => state[p].at <= oauth.at

(* The token a request is sent with is the one in memory, and so is the one  *)
(* refresh_locked is asked to replace; between two requests there is none.   *)
OneToken ==
  \A p \in Procs :
    /\ pc[p] = "off" => state[p] = NoSession
    /\ pc[p] \in {"off", "idle"} => superseded[p] = NoToken
    /\ pc[p] \in {"send", "unauthorized"} => credential[p] = state[p].at
    /\ pc[p] \in {"wait"} \cup InLock => superseded[p] = state[p].at

MemoryInv == NeverAhead /\ OneToken

(* A save stores, and remembers, a later session than the one it replaces.   *)
LEMMA SavesLater ==
  ASSUME IInv, NEW p \in Procs, pc[p] = "granted"
  PROVE  /\ Merge(held[p], answer[p]) \in Session
         /\ Merge(held[p], answer[p]).at = answer[p].at
         /\ answer[p].at \in Gen /\ answer[p].at <= issued
         /\ oauth \in Session /\ answer[p].at > oauth.at
<1> USE DEF IInv, TypeOK
<1>1. held[p] \in Session /\ answer[p] \in Tokens /\ held[p] = oauth
  BY DEF ExchangeInv, ReadIsStillStored, InLock, InExchange
<1>2. Merge(held[p], answer[p]) \in Session /\ Merge(held[p], answer[p]).at = answer[p].at
  BY <1>1, MergeType
<1> QED
  BY <1>1, <1>2 DEF ExchangeInv

(* An adopted session is the one in the file, and a later one than the       *)
(* session in memory: not the token that was to be replaced, and the file    *)
(* holds no earlier one.                                                     *)
LEMMA AdoptsLater ==
  ASSUME IInv, MemoryInv, NEW p \in Procs, Adopt(p)
  PROVE  /\ held[p] \in Session /\ held[p] = oauth
         /\ held[p].at # superseded[p]
         /\ state[p] \in Session /\ held[p].at > state[p].at
  BY DEF IInv, TypeOK, MemoryInv, NeverAhead, OneToken, Adopt, SupersededBy,
         ReadIsStillStored, SessionInMemory, InLock

(* No process runs yet: nothing is remembered.                               *)
LEMMA MemoryInit == Init => MemoryInv
  BY DEF Init, MemoryInv, NeverAhead, OneToken, InLock, InExchange

(* What a process does by itself keeps what it remembers true.               *)
LEMMA MemoryStep ==
  ASSUME IInv, MemoryInv, NEW p \in Procs, Step(p)
  PROVE  MemoryInv'
<1> USE DEF fileVars, serverVars, provider, request, exchange, IInv, TypeOK,
            MemoryInv, NeverAhead, OneToken
<1>1. CASE Adopt(p)
  <2>1. held[p] \in Session /\ held[p] = oauth
    BY <1>1, AdoptsLater
  <2> QED
    BY <1>1, <2>1 DEF Adopt, SendWith, Release, IssuedOnly, InLock, InExchange
<1>2. CASE Save(p)
  <2> DEFINE new == Merge(held[p], answer[p])
  <2>1. pc[p] = "granted" /\ oauth' = new /\ state' = [state EXCEPT ![p] = new]
    BY <1>2 DEF Save
  <2>2. /\ new \in Session /\ new.at = answer[p].at /\ answer[p].at <= issued
        /\ oauth \in Session /\ answer[p].at > oauth.at
    BY <2>1, SavesLater
  <2> HIDE DEF new
  <2> QED
    BY <1>2, <2>1, <2>2 DEF Save, SendWith, Release, InLock, InExchange
<1>3. CASE SaveFailed(p)
  <2> DEFINE new == Merge(held[p], answer[p])
  <2>1. pc[p] = "granted" /\ (oauth' = oauth \/ oauth' = new) /\ state' = state
    BY <1>3 DEF SaveFailed
  <2>2. /\ new \in Session /\ new.at = answer[p].at
        /\ oauth \in Session /\ answer[p].at > oauth.at
    BY <2>1, SavesLater
  <2> HIDE DEF new
  <2>3. NeverAhead'
    BY <1>3, <2>1, <2>2 DEF SaveFailed
  <2>4. OneToken'
    BY <1>3 DEF SaveFailed, Finish, Release, InLock, InExchange
  <2> QED
    BY <2>3, <2>4
<1>4. CASE Send(p) \/ Renew(p) \/ GiveUp(p) \/ Acquire(p) \/ LockTimeout(p)
  BY <1>4 DEF Send, Renew, GiveUp, Acquire, LockTimeout, Finish, InLock, InExchange
<1>5. CASE StoreError(p) \/ SessionGone(p) \/ ForeignEndpoint(p) \/ NotRenewable(p)
           \/ PostTimeout(p) \/ AnswerLost(p) \/ RefreshFailed(p) \/ RefreshRejected(p)
  <2>1. /\ pc' = [pc EXCEPT ![p] = "idle"]
        /\ credential' = [credential EXCEPT ![p] = NoToken]
        /\ superseded' = [superseded EXCEPT ![p] = NoToken]
        /\ pc[p] \in InLock
        /\ UNCHANGED <<oauth, issued, state>>
    BY <1>5 DEF StoreError, SessionGone, ForeignEndpoint, NotRenewable, PostTimeout, AnswerLost,
                RefreshFailed, RefreshRejected, MustRefresh, Finish, InLock, InExchange
  <2>2. NeverAhead'
    BY <2>1
  <2>3. OneToken'
    BY <2>1 DEF InLock, InExchange
  <2> QED
    BY <2>2, <2>3
<1>6. CASE Post(p)
  BY <1>6 DEF Post, MustRefresh, InLock, InExchange
<1> QED
  BY <1>1, <1>2, <1>3, <1>4, <1>5, <1>6 DEF Step

(* So does what its user makes it do, and the answers of the server.         *)
LEMMA MemoryCommand ==
  ASSUME IInv, MemoryInv, NEW p \in Procs, Command(p) \/ Serve(p)
  PROVE  MemoryInv'
<1> USE DEF fileVars, serverVars, provider, request, exchange, IInv, TypeOK,
            MemoryInv, NeverAhead, OneToken
<1>1. CASE Open(p)
  BY <1>1 DEF Open, IssuedOnly, InLock, InExchange
<1>2. CASE UseBearer(p) \/ RenewBearer(p)
  BY <1>2 DEF UseBearer, RenewBearer, SendWith, SessionInMemory, InLock, InExchange
<1>3. CASE Exit(p) \/ Crash(p)
  <2>1. /\ pc' = [pc EXCEPT ![p] = "off"]
        /\ state' = [state EXCEPT ![p] = NoSession]
        /\ UNCHANGED <<oauth, issued>>
    BY <1>3 DEF Exit, Crash
  <2>2. NeverAhead'
    BY <2>1
  <2>3. \A q \in Procs \ {p} : credential'[q] = credential[q] /\ superseded'[q] = superseded[q]
    BY <1>3 DEF Exit, Crash
  <2>4. superseded'[p] = NoToken
    BY <1>3 DEF Exit, Crash
  <2>5. OneToken'
    BY <2>1, <2>3, <2>4 DEF InLock, InExchange
  <2> QED
    BY <2>2, <2>5
<1>4. CASE Grant(p)
  <2>1. issued' = issued + 1 /\ UNCHANGED <<oauth, state, credential, superseded>>
    BY <1>4 DEF Grant, Rotate
  <2>2. NeverAhead'
    BY <2>1
  <2>3. OneToken'
    BY <1>4, <2>1 DEF Grant, InLock, InExchange
  <2> QED
    BY <2>2, <2>3
<1>5. CASE Reject(p) \/ Busy(p)
  BY <1>5 DEF Reject, Busy, InLock, InExchange
<1> QED
  BY <1>1, <1>2, <1>3, <1>4, <1>5 DEF Command, Serve

(* So does every step: a login stores a token later than every one issued.   *)
LEMMA MemoryNext == IInv /\ MemoryInv /\ [Next]_vars => MemoryInv'
<1> SUFFICES ASSUME IInv, MemoryInv, [Next]_vars PROVE MemoryInv'
  OBVIOUS
<1> USE DEF fileVars, serverVars, procVars, provider, request, exchange, IInv, TypeOK,
            MemoryInv, NeverAhead, OneToken
<1>1. ASSUME NEW g \in Gen, GrantLate(g) \/ Age(g) PROVE MemoryInv'
  <2>1. issued' \in {issued, issued + 1} /\ UNCHANGED <<oauth, procVars>>
    BY <1>1 DEF GrantLate, Age, Rotate
  <2>2. NeverAhead'
    BY <2>1
  <2>3. OneToken'
    BY <2>1
  <2> QED
    BY <2>2, <2>3
<1>2. CASE PeerLogin
  <2>1. PICK o \in Origins, c \in Clients, shape \in Shapes :
          oauth' = SignedIn(Response(issued + 1, shape), o, c)
    BY <1>2 DEF PeerLogin
  <2>2. issued + 1 \in Gen /\ issued' = issued + 1
    BY <1>2 DEF PeerLogin
  <2>3. oauth'.at = issued + 1
    BY <2>1, <2>2, ResponseType, SignedInType
  <2> QED
    BY <1>2, <2>2, <2>3 DEF PeerLogin
<1>3. CASE Revoke \/ PeerLogout \/ UNCHANGED vars
  BY <1>3 DEF Revoke, PeerLogout, vars
<1> QED
  BY <1>1, <1>2, <1>3, MemoryStep, MemoryCommand DEF Next

(* No process is ever ahead of the file, and a request and its refresh name  *)
(* one token, the one in memory (OAuthSource, source.rs).                    *)
THEOREM Memory == Spec => []MemoryInv
<1>1. Init => MemoryInv
  BY MemoryInit
<1>2. IInv /\ MemoryInv /\ [Next]_vars => MemoryInv'
  BY MemoryNext
<1> QED
  BY <1>1, <1>2, Invariance, PTL DEF Spec

(* Only these steps send a request.                                          *)
LEMMA SendSteps ==
  ASSUME IInv, [Next]_vars, NEW p \in Procs, pc[p] # "send", pc'[p] = "send"
  PROVE  UseBearer(p) \/ Adopt(p) \/ Save(p)
<1> USE DEF IInv, TypeOK, fileVars, serverVars, procVars, provider, request,
            exchange, Finish, SendWith
<1>1. ASSUME NEW q \in Procs, Step(q), ~ Adopt(q), ~ Save(q) PROVE FALSE
  BY <1>1
  DEF Step, Send, Renew, GiveUp, Acquire, LockTimeout, StoreError, SessionGone,
      ForeignEndpoint, NotRenewable, Post, PostTimeout, AnswerLost, RefreshFailed,
      RefreshRejected, SaveFailed
<1>2. ASSUME NEW q \in Procs, Command(q) \/ Serve(q), ~ UseBearer(q) PROVE FALSE
  BY <1>2 DEF Command, Serve, Open, RenewBearer, Exit, Crash, Grant, Reject, Busy
<1>3. ASSUME NEW g \in Gen, GrantLate(g) \/ Age(g) PROVE FALSE
  BY <1>3 DEF GrantLate, Age
<1>4. ~ Revoke /\ ~ PeerLogin /\ ~ PeerLogout /\ ~ UNCHANGED vars
  BY DEF Revoke, PeerLogin, PeerLogout, vars
<1>5. ASSUME NEW q \in Procs, UseBearer(q) \/ Adopt(q) \/ Save(q) PROVE q = p
  BY <1>5 DEF UseBearer, Adopt, Save
<1> QED
  BY <1>1, <1>2, <1>3, <1>4, <1>5 DEF Next

(* Only these steps change a session in memory for another.                  *)
LEMMA StateSteps ==
  ASSUME IInv, [Next]_vars, MemoryInv, NEW p \in Procs,
         state[p] # NoSession, state'[p] # NoSession, state'[p] # state[p]
  PROVE  Adopt(p) \/ Save(p)
<1> USE DEF IInv, TypeOK, fileVars, serverVars, procVars, provider, request,
            exchange, Finish, SendWith
<1>1. ASSUME NEW q \in Procs, Step(q), ~ Adopt(q), ~ Save(q) PROVE FALSE
  BY <1>1
  DEF Step, Send, Renew, GiveUp, Acquire, LockTimeout, StoreError, SessionGone,
      ForeignEndpoint, NotRenewable, Post, PostTimeout, AnswerLost, RefreshFailed,
      RefreshRejected, SaveFailed
<1>2. ASSUME NEW q \in Procs, Command(q) \/ Serve(q) PROVE FALSE
  BY <1>2 DEF Command, Serve, Open, UseBearer, RenewBearer, Exit, Crash, Grant, Reject, Busy,
              MemoryInv, OneToken
<1>3. ASSUME NEW g \in Gen, GrantLate(g) \/ Age(g) PROVE FALSE
  BY <1>3 DEF GrantLate, Age
<1>4. ~ Revoke /\ ~ PeerLogin /\ ~ PeerLogout /\ ~ UNCHANGED vars
  BY DEF Revoke, PeerLogin, PeerLogout, vars
<1>5. ASSUME NEW q \in Procs, Adopt(q) \/ Save(q) PROVE q = p
  BY <1>5 DEF Adopt, Save
<1> QED
  BY <1>1, <1>2, <1>3, <1>4, <1>5 DEF Next

(* The replay after a 401 never sends the token that was just refused, not   *)
(* even one adopted from another process (send_response, refresh_locked).    *)
THEOREM Replay == Spec => ReplayUsesAnotherToken
<1> DEFINE Another == \A p \in Procs : pc[p] # "send" /\ pc'[p] = "send" =>
                        credential'[p] # superseded[p]
<1>1. IInv /\ MemoryInv /\ [Next]_vars => [Another]_vars
  <2> SUFFICES ASSUME IInv, MemoryInv, [Next]_vars,
                      NEW p \in Procs, pc[p] # "send", pc'[p] = "send"
               PROVE  credential'[p] # superseded[p]
    OBVIOUS
  <2> USE DEF IInv, TypeOK, SendWith
  <2>1. CASE UseBearer(p)
    BY <2>1 DEF UseBearer, MemoryInv, OneToken, SessionInMemory
  <2>2. CASE Adopt(p)
    BY <2>2, AdoptsLater DEF Adopt
  <2>3. CASE Save(p)
    <3>1. pc[p] = "granted" /\ credential'[p] = answer[p].at
      BY <2>3 DEF Save
    <3>2. answer[p].at \in Gen /\ oauth \in Session /\ answer[p].at > oauth.at
      BY <3>1, SavesLater
    <3>3. /\ superseded[p] = state[p].at
          /\ state[p] \in Session /\ state[p].at <= oauth.at
      BY <3>1, <3>2 DEF MemoryInv, OneToken, NeverAhead, SessionInMemory, InLock, InExchange
    <3> QED
      BY <3>1, <3>2, <3>3
  <2> QED
    BY <2>1, <2>2, <2>3, SendSteps
<1> QED
  BY <1>1, Invariance, Memory, PTL DEF Spec, ReplayUsesAnotherToken

(* The session a process works with only moves forward: neither a refresh    *)
(* nor an adoption brings back an earlier token (refresh_locked).            *)
THEOREM Advance == Spec => MemoryOnlyAdvances
<1> DEFINE Forward == \A p \in Procs : state[p] # NoSession /\ state'[p] # NoSession
                        /\ state'[p] # state[p] => state'[p].at > state[p].at
<1>1. IInv /\ MemoryInv /\ [Next]_vars => [Forward]_vars
  <2> SUFFICES ASSUME IInv, MemoryInv, [Next]_vars, NEW p \in Procs,
                      state[p] # NoSession, state'[p] # NoSession, state'[p] # state[p]
               PROVE  state'[p].at > state[p].at
    OBVIOUS
  <2> USE DEF IInv, TypeOK
  <2>1. CASE Adopt(p)
    BY <2>1, AdoptsLater DEF Adopt
  <2>2. CASE Save(p)
    <3> DEFINE new == Merge(held[p], answer[p])
    <3>1. pc[p] = "granted" /\ state'[p] = new
      BY <2>2 DEF Save
    <3>2. /\ new.at = answer[p].at /\ answer[p].at \in Gen
          /\ oauth \in Session /\ answer[p].at > oauth.at
      BY <3>1, SavesLater
    <3>3. state[p] \in Session /\ state[p].at <= oauth.at
      BY <3>2 DEF MemoryInv, NeverAhead
    <3> HIDE DEF new
    <3> QED
      BY <3>1, <3>2, <3>3
  <2> QED
    BY <2>1, <2>2, StateSteps
<1> QED
  BY <1>1, Invariance, Memory, PTL DEF Spec, MemoryOnlyAdvances
=============================================================================

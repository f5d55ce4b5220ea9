----------------------------- MODULE TokenRefresh -----------------------------
(***************************************************************************)
(* The credential provider of otl (auth/source.rs) under the request       *)
(* channel of the engine (client.rs, send_response), in several otl        *)
(* processes that share one credential file and one advisory lock.         *)
(*                                                                         *)
(* A refresh token is single-use: the server retires it when it answers a  *)
(* refresh.  A process therefore refreshes with the file to itself: it     *)
(* takes the lock, reads the file again, and either adopts what another    *)
(* process put there or spends the stored token and saves the answer.  The *)
(* lock is held across the request, a request can be answered after the    *)
(* process stopped waiting for it, and a process can die at any step.      *)
(*                                                                         *)
(* The other writers of the file, `otl auth login` and `otl auth logout`,  *)
(* are the single transactions PeerLogin and PeerLogout here.              *)
(***************************************************************************)
EXTENDS CredentialData

CONSTANTS
  Procs,         \* otl processes using the profile's session
  NoProc,        \* nobody holds the lock
  NoTokens,      \* no answer
  Confidential,  \* the clients the server issued a secret to
  Shapes,        \* what the server's token responses leave out
  Peers          \* whether somebody also signs in and out meanwhile

ASSUME ProcsAssumption == NoProc \notin Procs
ASSUME TokensAssumption == NoTokens \notin Tokens
ASSUME ConfidentialAssumption == Confidential \subseteq Clients

ASSUME PeersAssumption == Peers \in BOOLEAN

(* A response may carry no refresh token (the old one is kept, and a login  *)
(* is not renewable) and no expires_in.                                     *)
ASSUME ShapesAssumption == Shapes \subseteq [renews : BOOLEAN, timed : BOOLEAN]

(* The session a login stores for a response.                              *)
SignedIn(t, o, c) ==
  [at |-> t.at, rt |-> t.rt, timed |-> t.timed, origin |-> o, client |-> c]

(* The token response number g, in one of these shapes.                     *)
Response(g, shape) ==
  [at |-> g, rt |-> IF shape.renews THEN g ELSE NoToken, timed |-> shape.timed]

VARIABLES
  \* shared between processes
  oauth,     \* the session in the credential file
  lock,      \* holder of the credential lock
  \* the authorization server
  issued,    \* number of token responses given so far
  retired,   \* refresh tokens consumed by a rotation
  revoked,   \* refresh tokens withdrawn by an administrator or a logout
  late,      \* refresh tokens in requests still under way that nobody awaits
  stage,     \* age of each access token
  \* each process
  pc,        \* where the process stands
  home,      \* origin of the instance the process talks to
  registered,\* client whose record the provider was built with
  state,     \* CredentialProvider.state, the session in memory
  credential,\* the bearer of the request being made (last of `used`)
  superseded,\* argument of refresh_locked
  renewed,   \* the request was already replayed once
  held,      \* the session read inside the lock
  answer,    \* tokens the server answered with
  outcome,   \* how the last request of the process ended
  \* history
  doubtful   \* refresh tokens whose exchange a process lost track of

fileVars == <<oauth, lock>>
serverVars == <<issued, retired, revoked, late, stage>>
provider == <<home, registered, state>>
request == <<credential, superseded, renewed>>
exchange == <<held, answer>>
procVars == <<pc, provider, request, exchange, outcome>>
vars == <<fileVars, serverVars, procVars, doubtful>>

\* The request of the process is in its token refresh, with the lock.
InExchange == {"posted", "granted", "rejected", "failed"}
InLock == {"locked"} \cup InExchange
PCs == {"off", "idle", "send", "unauthorized", "wait"} \cup InLock

\* How a request ends; "none" is the instance's answer, or none yet.
\* credential_error reports SessionExpired and RotationLost alike: "reauth".
Outcomes == {"none", "unauthorized", "reauth", "unavailable"}

TypeOK ==
  /\ oauth \in Session \cup {NoSession}
  /\ lock \in Procs \cup {NoProc}
  /\ issued \in 0 .. MaxGen
  /\ retired \subseteq Gen
  /\ revoked \subseteq Gen
  /\ late \subseteq Gen
  /\ stage \in [Gen -> Stages]
  /\ pc \in [Procs -> PCs]
  /\ home \in [Procs -> Origins]
  /\ registered \in [Procs -> Clients]
  /\ state \in [Procs -> Session \cup {NoSession}]
  /\ credential \in [Procs -> Gen \cup {NoToken}]
  /\ superseded \in [Procs -> Gen \cup {NoToken}]
  /\ renewed \in [Procs -> BOOLEAN]
  /\ held \in [Procs -> Session \cup {NoSession}]
  /\ answer \in [Procs -> Tokens \cup {NoTokens}]
  /\ outcome \in [Procs -> Outcomes]
  /\ doubtful \subseteq Gen

-----------------------------------------------------------------------------
(* A first login has stored the first session; no process runs yet.         *)
Init ==
  \E o \in Origins, c \in Clients :
    /\ oauth = [at |-> 1, rt |-> 1, timed |-> TRUE, origin |-> o, client |-> c]
    /\ lock = NoProc
    /\ issued = 1
    /\ retired = {}
    /\ revoked = {}
    /\ late = {}
    /\ stage = [g \in Gen |-> Fresh]
    /\ pc = [p \in Procs |-> "off"]
    /\ home = [p \in Procs |-> o]
    /\ registered = [p \in Procs |-> c]
    /\ state = [p \in Procs |-> NoSession]
    /\ credential = [p \in Procs |-> NoToken]
    /\ superseded = [p \in Procs |-> NoToken]
    /\ renewed = [p \in Procs |-> FALSE]
    /\ held = [p \in Procs |-> NoSession]
    /\ answer = [p \in Procs |-> NoTokens]
    /\ outcome = [p \in Procs |-> "none"]
    /\ doubtful = {}

(* Leaving the lock drops what was read and received inside it.             *)
Release(p) ==
  /\ lock' = NoProc
  /\ held' = [held EXCEPT ![p] = NoSession]
  /\ answer' = [answer EXCEPT ![p] = NoTokens]

(* The request of p is over, with a result.                                 *)
Finish(p, result) ==
  /\ pc' = [pc EXCEPT ![p] = "idle"]
  /\ outcome' = [outcome EXCEPT ![p] = result]
  /\ credential' = [credential EXCEPT ![p] = NoToken]
  /\ superseded' = [superseded EXCEPT ![p] = NoToken]
  /\ renewed' = [renewed EXCEPT ![p] = FALSE]

(* The request of p is sent, or replayed, with the access token at.         *)
SendWith(p, at) ==
  /\ pc' = [pc EXCEPT ![p] = "send"]
  /\ credential' = [credential EXCEPT ![p] = at]
  /\ superseded' = [superseded EXCEPT ![p] = NoToken]

-----------------------------------------------------------------------------
(* One otl command from start to exit.                                      *)

(* resolve_credential and for_session: the file is read without the lock,   *)
(* and check_binding only accepts a session of the instance in use.         *)
Open(p) ==
  /\ pc[p] = "off"
  /\ oauth # NoSession
  /\ pc' = [pc EXCEPT ![p] = "idle"]
  /\ home' = [home EXCEPT ![p] = oauth.origin]
  /\ registered' = [registered EXCEPT ![p] = oauth.client]
  /\ state' = [state EXCEPT ![p] = oauth]
  /\ outcome' = [outcome EXCEPT ![p] = "none"]
  /\ UNCHANGED <<fileVars, serverVars, request, exchange, doubtful>>

(* send_response asks for a bearer, and the session in memory is fresh.     *)
UseBearer(p) ==
  /\ pc[p] = "idle"
  /\ FreshEnough(state[p], stage)
  /\ SendWith(p, state[p].at)
  /\ outcome' = [outcome EXCEPT ![p] = "none"]
  /\ UNCHANGED <<fileVars, serverVars, provider, renewed, exchange,
                 doubtful>>

(* ... or it is at its expiry and has to be replaced first.                 *)
RenewBearer(p) ==
  /\ pc[p] = "idle"
  /\ ~ FreshEnough(state[p], stage)
  /\ pc' = [pc EXCEPT ![p] = "wait"]
  /\ superseded' = [superseded EXCEPT ![p] = state[p].at]
  /\ outcome' = [outcome EXCEPT ![p] = "none"]
  /\ UNCHANGED <<fileVars, serverVars, provider, credential, renewed,
                 exchange, doubtful>>

(* The instance answers the request, with a 401 or otherwise.  Whether it   *)
(* accepts a token is its own affair, so both are always possible.          *)
Send(p) ==
  /\ pc[p] = "send"
  /\ \/ Finish(p, "none")
     \/ /\ pc' = [pc EXCEPT ![p] = "unauthorized"]
        /\ UNCHANGED <<request, outcome>>
  /\ UNCHANGED <<fileVars, serverVars, provider, exchange, doubtful>>

(* A first 401 renews: the token refused is the one superseded.             *)
Renew(p) ==
  /\ pc[p] = "unauthorized"
  /\ ~ renewed[p]
  /\ pc' = [pc EXCEPT ![p] = "wait"]
  /\ superseded' = [superseded EXCEPT ![p] = credential[p]]
  /\ renewed' = [renewed EXCEPT ![p] = TRUE]
  /\ UNCHANGED <<fileVars, serverVars, provider, credential, exchange,
                 outcome, doubtful>>

(* A second 401 is the server's answer.                                     *)
GiveUp(p) ==
  /\ pc[p] = "unauthorized"
  /\ renewed[p]
  /\ Finish(p, "unauthorized")
  /\ UNCHANGED <<fileVars, serverVars, provider, exchange, doubtful>>

-----------------------------------------------------------------------------
(* refresh_locked, step by step.                                            *)

Acquire_StaleRead(p) ==
  /\ pc[p] = "wait"
  /\ lock = NoProc
  /\ lock' = p
  /\ pc' = [pc EXCEPT ![p] = "locked"]
  /\ held' = [held EXCEPT ![p] = state[p]]
  /\ UNCHANGED <<oauth, serverVars, provider, request, answer,
                 outcome, doubtful>>

(* The lock is free, and the file is read inside it.                        *)
Acquire(p) ==
  /\ pc[p] = "wait"
  /\ lock = NoProc
  /\ lock' = p
  /\ pc' = [pc EXCEPT ![p] = "locked"]
  /\ held' = [held EXCEPT ![p] = oauth]
  /\ UNCHANGED <<oauth, serverVars, provider, request, answer,
                 outcome, doubtful>>

LockTimeout_Never(p) == FALSE /\ UNCHANGED vars

LockTimeout_TakesOver(p) ==
  /\ pc[p] = "wait"
  /\ lock # NoProc
  /\ lock' = p
  /\ pc' = [pc EXCEPT ![p] = "locked"]
  /\ held' = [held EXCEPT ![p] = oauth]
  /\ UNCHANGED <<oauth, serverVars, provider, request, answer,
                 outcome, doubtful>>

(* Another process kept the lock for LOCK_TIMEOUT.                          *)
LockTimeout(p) ==
  /\ pc[p] = "wait"
  /\ lock # NoProc
  /\ Finish(p, "unavailable")
  /\ UNCHANGED <<fileVars, serverVars, provider, exchange, doubtful>>

(* The lock file or the credential file cannot be used: replaced while it   *)
(* was being locked, permissions too open, unreadable, a later version.     *)
StoreError(p) ==
  /\ pc[p] = "locked"
  /\ Release(p)
  /\ Finish(p, "unavailable")
  /\ UNCHANGED <<oauth, serverVars, provider, doubtful>>

(* Nothing is stored any more: SessionExpired.                              *)
SessionGone(p) ==
  /\ pc[p] = "locked"
  /\ held[p] = NoSession
  /\ Release(p)
  /\ Finish(p, "reauth")
  /\ UNCHANGED <<oauth, serverVars, provider, doubtful>>

(* Another process already did this work: its session is adopted.           *)
Adopt(p) ==
  /\ pc[p] = "locked"
  /\ held[p] # NoSession
  /\ SupersededBy(held[p], superseded[p], stage)
  /\ Release(p)
  /\ state' = [state EXCEPT ![p] = held[p]]
  /\ SendWith(p, held[p].at)
  /\ UNCHANGED <<oauth, serverVars, home, registered, renewed,
                 outcome, doubtful>>

\* The session read inside the lock has to be refreshed by this process.
MustRefresh(p) ==
  /\ pc[p] = "locked"
  /\ held[p] # NoSession
  /\ ~ SupersededBy(held[p], superseded[p], stage)

(* request_refresh refuses a token endpoint of another instance.            *)
ForeignEndpoint(p) ==
  /\ MustRefresh(p)
  /\ held[p].origin # home[p]
  /\ Release(p)
  /\ Finish(p, "unavailable")
  /\ UNCHANGED <<oauth, serverVars, provider, doubtful>>

(* No refresh token was stored: SessionExpired.                             *)
NotRenewable(p) ==
  /\ MustRefresh(p)
  /\ held[p].origin = home[p]
  /\ held[p].rt = NoToken
  /\ Release(p)
  /\ Finish(p, "reauth")
  /\ UNCHANGED <<oauth, serverVars, provider, doubtful>>

(* The refresh grant goes out, with the lock held.                          *)
Post(p) ==
  /\ MustRefresh(p)
  /\ held[p].origin = home[p]
  /\ held[p].rt # NoToken
  /\ pc' = [pc EXCEPT ![p] = "posted"]
  /\ UNCHANGED <<fileVars, serverVars, provider, request, exchange,
                 outcome, doubtful>>

(* OAUTH_TIMEOUT, or the connection broke before the server answered: the   *)
(* request may still reach the server.                                      *)
PostTimeout(p) ==
  /\ pc[p] = "posted"
  /\ late' = late \cup {held[p].rt}
  /\ doubtful' = doubtful \cup {held[p].rt}
  /\ Release(p)
  /\ Finish(p, "unavailable")
  /\ UNCHANGED <<oauth, issued, retired, revoked, stage, provider>>

(* The server answered, and the answer does not arrive or cannot be read.   *)
AnswerLost(p) ==
  /\ pc[p] \in {"granted", "rejected"}
  /\ doubtful' = IF pc[p] = "granted" THEN doubtful \cup {held[p].rt} ELSE doubtful
  /\ Release(p)
  /\ Finish(p, "unavailable")
  /\ UNCHANGED <<oauth, serverVars, provider>>

(* A 429 or a 5xx: the grant may still be good.                             *)
RefreshFailed(p) ==
  /\ pc[p] = "failed"
  /\ Release(p)
  /\ Finish(p, "unavailable")
  /\ UNCHANGED <<oauth, serverVars, provider, doubtful>>

(* Any other 4xx is a rejected grant: SessionExpired.                       *)
RefreshRejected(p) ==
  /\ pc[p] = "rejected"
  /\ Release(p)
  /\ Finish(p, "reauth")
  /\ UNCHANGED <<oauth, serverVars, provider, doubtful>>

(* The merged session is saved, then adopted, then the lock is released.    *)
Save(p) ==
  /\ pc[p] = "granted"
  /\ oauth' = Merge(held[p], answer[p])
  /\ state' = [state EXCEPT ![p] = Merge(held[p], answer[p])]
  /\ SendWith(p, answer[p].at)
  /\ Release(p)
  /\ UNCHANGED <<serverVars, home, registered, renewed, outcome, doubtful>>

\* The refresh token the exchange of p consumed, unless the response keeps it.
Spent(p) == IF answer[p].rt = NoToken THEN {} ELSE {held[p].rt}

SaveFailed_Adopts(p) ==
  /\ pc[p] = "granted"
  /\ oauth' = oauth
  /\ doubtful' = doubtful \cup Spent(p)
  /\ state' = [state EXCEPT ![p] = Merge(held[p], answer[p])]
  /\ Release(p)
  /\ Finish(p, "reauth")
  /\ UNCHANGED <<serverVars, home, registered>>

(* The save fails: RotationLost, which the user sees as any other "sign in  *)
(* again", and the session in memory stays.  A write that fails up to the   *)
(* rename leaves the file as it was; one that fails after it (the directory *)
(* sync) has replaced the file.                                             *)
SaveFailed(p) ==
  /\ pc[p] = "granted"
  /\ \/ /\ oauth' = oauth
        /\ doubtful' = doubtful \cup Spent(p)
     \/ /\ oauth' = Merge(held[p], answer[p])
        /\ doubtful' = doubtful
  /\ Release(p)
  /\ Finish(p, "reauth")
  /\ UNCHANGED <<serverVars, provider>>

(* The command ends.                                                        *)
Exit(p) ==
  /\ pc[p] = "idle"
  /\ pc' = [pc EXCEPT ![p] = "off"]
  /\ state' = [state EXCEPT ![p] = NoSession]
  /\ outcome' = [outcome EXCEPT ![p] = "none"]
  /\ UNCHANGED <<fileVars, serverVars, home, registered, request,
                 exchange, doubtful>>

(* The process dies.  Its lock goes with it; a request it made does not.    *)
Crash(p) ==
  /\ pc[p] \notin {"off", "idle"}
  /\ pc' = [pc EXCEPT ![p] = "off"]
  /\ state' = [state EXCEPT ![p] = NoSession]
  /\ credential' = [credential EXCEPT ![p] = NoToken]
  /\ superseded' = [superseded EXCEPT ![p] = NoToken]
  /\ renewed' = [renewed EXCEPT ![p] = FALSE]
  /\ held' = [held EXCEPT ![p] = NoSession]
  /\ answer' = [answer EXCEPT ![p] = NoTokens]
  /\ outcome' = [outcome EXCEPT ![p] = "none"]
  /\ lock' = IF lock = p THEN NoProc ELSE lock
  /\ late' = IF pc[p] = "posted" THEN late \cup {held[p].rt} ELSE late
  /\ doubtful' = IF pc[p] \in InExchange THEN doubtful \cup {held[p].rt}
                                         ELSE doubtful
  /\ UNCHANGED <<oauth, issued, retired, revoked, stage, home, registered>>

-----------------------------------------------------------------------------
(* The authorization server.                                                *)

Alive(rt) == rt \notin retired \cup revoked

(* A confidential client authenticates with the secret of its own record.   *)
SecretMismatch(p) == held[p].client \in Confidential /\ registered[p] # held[p].client

(* A refresh: new tokens, and unless the response keeps the refresh token,  *)
(* the old one is retired.                                                  *)
Rotate(rt, shape) ==
  /\ issued < MaxGen
  /\ issued' = issued + 1
  /\ retired' = IF shape.renews THEN retired \cup {rt} ELSE retired

(* The server answers the refresh of p ...                                  *)
Grant(p) ==
  /\ pc[p] = "posted"
  /\ Alive(held[p].rt)
  /\ ~ SecretMismatch(p)
  /\ \E shape \in Shapes :
       /\ Rotate(held[p].rt, shape)
       /\ answer' = [answer EXCEPT ![p] = Response(issued + 1, shape)]
  /\ pc' = [pc EXCEPT ![p] = "granted"]
  /\ UNCHANGED <<fileVars, revoked, late, stage, provider, request,
                 held, outcome, doubtful>>

(* ... refuses it ...                                                       *)
Reject(p) ==
  /\ pc[p] = "posted"
  /\ ~ Alive(held[p].rt) \/ SecretMismatch(p)
  /\ pc' = [pc EXCEPT ![p] = "rejected"]
  /\ UNCHANGED <<fileVars, serverVars, provider, request, exchange,
                 outcome, doubtful>>

(* ... or cannot serve it now.                                              *)
Busy(p) ==
  /\ pc[p] = "posted"
  /\ pc' = [pc EXCEPT ![p] = "failed"]
  /\ UNCHANGED <<fileVars, serverVars, provider, request, exchange,
                 outcome, doubtful>>

(* A request nobody waits for any more reaches the server.                  *)
GrantLate(rt) ==
  /\ rt \in late
  /\ late' = late \ {rt}
  /\ IF Alive(rt) THEN \E shape \in Shapes : Rotate(rt, shape)
                  ELSE UNCHANGED <<issued, retired>>
  /\ UNCHANGED <<fileVars, procVars, revoked, stage, doubtful>>

(* The grants given so far are withdrawn on the server.                     *)
Revoke ==
  /\ revoked # 1 .. issued
  /\ revoked' = 1 .. issued
  /\ UNCHANGED <<fileVars, procVars, issued, retired, late, stage, doubtful>>

(* Time passes for an access token somebody holds with its expiry.          *)
Age(g) ==
  /\ stage[g] # Lapsed
  /\ \E s \in {oauth} \cup {state[p] : p \in Procs} :
       s # NoSession /\ s.at = g /\ s.timed
  /\ stage' = [stage EXCEPT ![g] = @ + 1]
  /\ UNCHANGED <<fileVars, procVars, issued, retired, revoked, late,
                 doubtful>>

-----------------------------------------------------------------------------
(* The other transactions on the file, each within one hold of the lock.    *)

(* `otl auth login` stores a session: a profile that holds one is of the    *)
(* same instance (ensure_bindable) and the same client (claim_client).      *)
PeerLogin ==
  /\ Peers
  /\ lock = NoProc
  /\ issued < MaxGen
  /\ issued' = issued + 1
  /\ \E o \in Origins, c \in Clients, shape \in Shapes :
       /\ oauth # NoSession => oauth.origin = o /\ oauth.client = c
       /\ oauth' = SignedIn(Response(issued + 1, shape), o, c)
  /\ UNCHANGED <<lock, procVars, retired, revoked, late, stage, doubtful>>

PeerLogout_Unlocked ==
  /\ Peers
  /\ oauth # NoSession
  /\ oauth' = NoSession
  /\ UNCHANGED <<lock, procVars, serverVars, doubtful>>

(* `otl auth logout` removes it.                                            *)
PeerLogout ==
  /\ Peers
  /\ lock = NoProc
  /\ oauth # NoSession
  /\ oauth' = NoSession
  /\ UNCHANGED <<lock, procVars, serverVars, doubtful>>

-----------------------------------------------------------------------------
(* What a process does by itself, its timeouts included ...                 *)
Step(p) ==
  \/ Send(p) \/ Renew(p) \/ GiveUp(p)
  \/ Acquire(p) \/ LockTimeout(p)
  \/ StoreError(p) \/ SessionGone(p) \/ Adopt(p)
  \/ ForeignEndpoint(p) \/ NotRenewable(p) \/ Post(p)
  \/ PostTimeout(p) \/ AnswerLost(p) \/ RefreshFailed(p) \/ RefreshRejected(p)
  \/ Save(p) \/ SaveFailed(p)

(* ... what its user makes it do ...                                        *)
Command(p) == Open(p) \/ UseBearer(p) \/ RenewBearer(p) \/ Exit(p) \/ Crash(p)

(* ... and what the server does.                                            *)
Serve(p) == Grant(p) \/ Reject(p) \/ Busy(p)

Next ==
  \/ \E p \in Procs : Step(p) \/ Command(p) \/ Serve(p)
  \/ \E g \in Gen : GrantLate(g) \/ Age(g)
  \/ Revoke \/ PeerLogin \/ PeerLogout

(* Every wait of the program has a deadline, so a process that has begun a  *)
(* request keeps taking steps.  Nothing is assumed of the server, of the    *)
(* user, or of which process gets the lock.                                 *)
Spec == Init /\ [][Next]_vars /\ \A p \in Procs : WF_vars(Step(p))

-----------------------------------------------------------------------------
(* Properties.                                                              *)

\* p has the answer that replaces the refresh token rt, not saved yet.
HasSuccessorOf(p, rt) == pc[p] = "granted" /\ held[p].rt = rt

(* The refresh token in the file is one the server still honours (unless    *)
(* withdrawn), whatever the processes do to it: it is retired only while    *)
(* the process that spent it is about to save its successor, or after an    *)
(* exchange some process lost track of (a crash, a lost answer, a reported  *)
(* RotationLost).  This is what refresh_locked is for (source.rs, lock.rs). *)
StoredTokenIsCurrent ==
  oauth # NoSession /\ oauth.rt \in retired =>
    \/ oauth.rt \in doubtful
    \/ \E p \in Procs : HasSuccessorOf(p, oauth.rt)

(* What a process has read inside the lock is still what the file holds:    *)
(* nobody writes the file under a running refresh, so its save overwrites   *)
(* no other process's session (CredentialStore::update, lock.rs).           *)
ReadIsStillStored ==
  \A p \in Procs : pc[p] \in InLock => held[p] = oauth

(* No write ever puts a retired refresh token back into the file (unless an *)
(* earlier exchange of that token was lost), nor a session older than the   *)
(* one it replaces: a stale snapshot is never resurrected (the promise of   *)
(* CredentialStore::update).                                                *)
NoResurrection ==
  [][oauth' # oauth /\ oauth' # NoSession =>
       /\ oauth'.rt \in retired' => oauth'.rt \in doubtful'
       /\ oauth # NoSession => oauth'.at > oauth.at]_vars

\* The session p read cannot be renewed by anybody any more: there is none,
\* it has no refresh token, or the server retired or withdrew that token.
GrantGone(p) ==
  \/ held[p] = NoSession
  \/ held[p].rt \in {NoToken} \cup revoked
  \/ held[p].rt \in retired \cap doubtful'

\* p could not save an answer that left a good grant in the file: the write
\* failed after the rename, or the response kept the refresh token.
KeptAfterFailedSave(p) ==
  /\ pc[p] = "granted"
  /\ oauth' = Merge(held[p], answer[p]) \/ answer[p].rt = NoToken

(* A process is told to sign in again (credential_error: SessionExpired and *)
(* RotationLost) only for a grant that is gone on the server or in the      *)
(* file, and a token the server retired is gone only when some exchange of  *)
(* it was lost: being late in the queue of refreshing processes is never a  *)
(* reason (superseded_by).  Two cases in which the grant is good are named, *)
(* because the code has them.  A process refreshes a session that another   *)
(* client stored with the secret of its own record (SecretMismatch), and    *)
(* RotationLost is reported over a file that still holds a good grant       *)
(* (KeptAfterFailedSave): there error.rs (RotationLost: "the stored one is  *)
(* already dead and the only way forward is a new login") is untrue.        *)
ReauthIsJustified ==
  [][\A p \in Procs : outcome[p] # "reauth" /\ outcome'[p] = "reauth" =>
       \/ GrantGone(p)
       \/ pc[p] = "rejected" /\ SecretMismatch(p)
       \/ KeptAfterFailedSave(p)]_vars

(* The replay after a 401 never sends the token that was just refused, even *)
(* when the process adopts a session another one stored (send_response,     *)
(* refresh_locked).                                                         *)
ReplayUsesAnotherToken ==
  [][\A p \in Procs : pc[p] # "send" /\ pc'[p] = "send" =>
       credential'[p] # superseded[p]]_vars

(* The session a process works with only moves forward: neither a refresh   *)
(* nor an adoption brings back an earlier token.                            *)
MemoryOnlyAdvances ==
  [][\A p \in Procs : state[p] # NoSession /\ state'[p] # NoSession
       /\ state'[p] # state[p] => state'[p].at > state[p].at]_vars

(* A request that has begun ends, with an answer or an error: neither a     *)
(* server that never answers, nor a process that dies with the lock, nor a  *)
(* queue of processes for the lock holds it up forever (LOCK_TIMEOUT,       *)
(* OAUTH_TIMEOUT, at most one renewal per request).                         *)
EveryRequestEnds ==
  \A p \in Procs : pc[p] \notin {"off", "idle"} ~> pc[p] \in {"off", "idle"}

-----------------------------------------------------------------------------
(* The inductive strengthening of the invariants above: TokenRefreshProofs  *)
(* proves it of every instance.                                             *)

(* The lock variable and the program counters agree.                        *)
LockIsHeld == \A p \in Procs : lock = p <=> pc[p] \in InLock

(* A running process has a session in memory.                               *)
SessionInMemory == \A p \in Procs : pc[p] # "off" => state[p] # NoSession

(* Nothing names a token that was not issued yet, so a new token is new to  *)
(* everybody; a request nobody awaits is one a process lost track of.       *)
IssuedOnly ==
  /\ oauth # NoSession => oauth.at <= issued /\ oauth.rt <= issued
  /\ retired \subseteq 1 .. issued
  /\ doubtful \subseteq 1 .. issued
  /\ late \subseteq doubtful

\* Why the server refuses the refresh of p.
Refusable(p) ==
  held[p].rt \in revoked \cup (retired \cap doubtful) \/ SecretMismatch(p)

(* What a process in the middle of an exchange knows.                       *)
ExchangeInv ==
  \A p \in Procs :
    /\ pc[p] \in InExchange => held[p] # NoSession /\ held[p].rt # NoToken
    /\ pc[p] = "rejected" => Refusable(p)
    /\ pc[p] = "granted" =>
         /\ answer[p] # NoTokens
         /\ answer[p].at \in held[p].at + 1 .. issued
         /\ answer[p].rt # NoToken =>
              /\ answer[p].rt \in 1 .. issued
              /\ answer[p].rt \notin retired \cup doubtful
              /\ held[p].rt \in retired
         /\ answer[p].rt = NoToken =>
              (held[p].rt \in retired => held[p].rt \in doubtful)

(* No process, no exchange and no file ever leaves these.                   *)
IInv ==
  /\ TypeOK
  /\ SessionInMemory
  /\ LockIsHeld
  /\ ReadIsStillStored
  /\ IssuedOnly
  /\ ExchangeInv
  /\ StoredTokenIsCurrent

-----------------------------------------------------------------------------
(* What the sources say and the program does not do; the README names the   *)
(* other such statements.                                                   *)

(* A stored credential is only ever sent to the instance that issued it     *)
(* (source.rs, for_session): false, an adopted session is not checked.      *)
CredentialStaysWithItsInstance ==
  \A p \in Procs : pc[p] = "send" => state[p].origin = home[p]
=============================================================================

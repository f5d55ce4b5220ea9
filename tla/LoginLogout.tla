----------------------------- MODULE LoginLogout ------------------------------
(***************************************************************************)
(* `otl auth login`, `otl auth logout` and `otl auth set-key` of several   *)
(* processes over one profile of the credential file (auth/login.rs,       *)
(* client_acquisition.rs, logout.rs, logout_remote.rs, dcr.rs).            *)
(*                                                                         *)
(* A login that finds no usable client registers one on the server.  The   *)
(* answer carries the management token of that application, the only thing *)
(* that can ever delete it; the file has room for one.  Every command      *)
(* works from a snapshot of the file, talks to the server for as long as   *)
(* that takes, and then changes the file in one transaction                *)
(* (CredentialStore::update), by which time the file may be another one.   *)
(*                                                                         *)
(* A transaction is one step here: TokenRefresh models the lock it takes.  *)
(* It can fail without effect, or after the file was replaced.             *)
(*                                                                         *)
(* Operators named X_... are X with one plausible mistake in it; nothing   *)
(* uses them but the mutation runs listed in PROJECT.json.                 *)
(***************************************************************************)
EXTENDS Integers

CONSTANTS
  Procs,        \* processes running commands
  Origins,      \* instances
  AdminClient,  \* client id registered by an administrator
  Offered,      \* client ids a user may pass as --client-id
  Commands,     \* the commands run, of "login", "logout" and "set-key"
  Forces,       \* values of --force and --force-new-client tried
  MaxApps,      \* bound on the applications registered
  MaxTokens,    \* bound on the tokens issued
  NoOrigin, NoClient, NoSession, NoKey, NoProc

ASSUME BoundsAssumption == MaxApps \in Nat /\ MaxTokens \in Nat
ASSUME CommandsAssumption ==
  Commands \subseteq {"login", "logout", "set-key"} /\ Forces \subseteq BOOLEAN

\* Dynamic registrations are numbered in the order the server created them.
Apps == 1 .. MaxApps
ClientIds == Apps \cup {AdminClient}

ASSUME ClientsAssumption == AdminClient \notin Apps /\ Offered \subseteq ClientIds

\* A login goes with an access token; `owner` stands for the account that
\* signed in, `account` for the label shown by `otl auth info`.
Tokens == 1 .. MaxTokens

(* ClientRegistration: `managed` says whether it carries the management     *)
(* token and URI.  What is recorded as dynamic was created by a login.      *)
Registration ==
  {r \in [id : ClientIds, dynamic : BOOLEAN, managed : BOOLEAN, origin : Origins] :
     r.dynamic => r.id \in Apps}

(* OAuthSession: `origin` is that of its token endpoint.                    *)
Session ==
  [token : Tokens, origin : Origins, owner : Procs, account : Procs \cup {NoProc}]

\* An API key the user of a process entered for an instance.
ApiKey == [origin : Origins, owner : Procs]

(* ProfileCredentials.                                                      *)
Profile ==
  [origin : Origins \cup {NoOrigin}, key : ApiKey \cup {NoKey},
   oauth : Session \cup {NoSession}, client : Registration \cup {NoClient}]

EmptyProfile ==
  [origin |-> NoOrigin, key |-> NoKey, oauth |-> NoSession, client |-> NoClient]

ASSUME NoneAssumption ==
  /\ NoOrigin \notin Origins
  /\ NoKey \notin ApiKey
  /\ NoSession \notin Session
  /\ NoClient \notin Registration
  /\ NoProc \notin Procs

\* What a command was asked to do.
LoginOptions == [origin : Origins, clientId : Offered \cup {NoClient}]
LogoutOptions == [purge : BOOLEAN, force : Forces]
KeyOptions == [origin : Origins]
NoOptions == [origin |-> NoOrigin]

VARIABLES
  profile,   \* the profile in the credential file
  apps,      \* applications that exist on the server
  live,      \* access tokens the server accepts
  lastApp, lastToken,
  pc,        \* where each process stands
  options,   \* its command line
  snap,      \* the profile as it read it when it started
  mine,      \* login: the client it signs in with
  source,    \* login: where that client comes from
  session,   \* login: the session it was granted
  cause,     \* login: why it is being abandoned
  seen,      \* login: the account auth.info answered with
  report,    \* logout: what became of the steps on the server
  outcome    \* how the command that this step ended, if any, ended

server == <<apps, live, lastApp, lastToken>>
login == <<mine, source, session, cause, seen>>
vars == <<profile, server, pc, options, snap, login, report, outcome>>

LoginPCs == {"client", "retire", "register", "record", "browser", "persist",
             "abandon", "identity", "label"}
LogoutPCs == {"revoke", "purge", "remove"}
PCs == {"off", "prompt"} \cup LoginPCs \cup LogoutPCs

Sources == {"none", "provided", "cached", "registered"}
Causes == {"none", "failed", "concurrent"}

(* Report: revoked, registration_deleted, retry_could_succeed, and whether  *)
(* the tokens can never be revoked (`unrevocable` and not `retryable`).     *)
Reports == [revoked : BOOLEAN, deleted : BOOLEAN, retry : BOOLEAN, final : BOOLEAN]
NoReport == [revoked |-> FALSE, deleted |-> FALSE, retry |-> FALSE, final |-> FALSE]

(* How a command ends, as far as the properties tell it apart: "signed_out" *)
(* is a logout that reports the tokens of the profile revoked.              *)
Outcomes == Causes \cup {"done", "signed_out"}

TypeOK ==
  /\ profile \in Profile
  /\ apps \subseteq Apps
  /\ live \subseteq Tokens
  /\ lastApp \in 0 .. MaxApps
  /\ lastToken \in 0 .. MaxTokens
  /\ pc \in [Procs -> PCs]
  /\ options \in [Procs -> LoginOptions \cup LogoutOptions \cup KeyOptions \cup {NoOptions}]
  /\ snap \in [Procs -> Profile]
  /\ mine \in [Procs -> Registration \cup {NoClient}]
  /\ source \in [Procs -> Sources]
  /\ session \in [Procs -> Session \cup {NoSession}]
  /\ cause \in [Procs -> Causes]
  /\ seen \in [Procs -> Procs \cup {NoProc}]
  /\ report \in [Procs -> Reports]
  /\ outcome \in Outcomes

Init ==
  /\ profile = EmptyProfile
  /\ apps = {} /\ live = {} /\ lastApp = 0 /\ lastToken = 0
  /\ pc = [p \in Procs |-> "off"]
  /\ options = [p \in Procs |-> NoOptions]
  /\ snap = [p \in Procs |-> EmptyProfile]
  /\ mine = [p \in Procs |-> NoClient]
  /\ source = [p \in Procs |-> "none"]
  /\ session = [p \in Procs |-> NoSession]
  /\ cause = [p \in Procs |-> "none"]
  /\ seen = [p \in Procs |-> NoProc]
  /\ report = [p \in Procs |-> NoReport]
  /\ outcome = "none"

-----------------------------------------------------------------------------
(* The profile.                                                             *)

Empty(f) == f.oauth = NoSession /\ f.key = NoKey /\ f.client = NoClient

(* ensure_bindable: nothing is added for one instance to a profile of       *)
(* another.                                                                 *)
Bindable(f, o) == Empty(f) \/ f.origin = o

Claim_Anything(f, c) == TRUE

(* claim_client: the client in the file is absent, or ours.                 *)
Claim(f, c) == f.client = NoClient \/ f.client.id = c.id

\* CredentialStore::update towards f succeeds ...
Stored(f) == profile' = f

\* ... or fails: the lock, the read, or the save, before or after the rename.
StoreFailed(f) == profile' \in {profile, f}

(* The command of p is over: its process forgets everything.                *)
End(p, result) ==
  /\ pc' = [pc EXCEPT ![p] = "off"]
  /\ options' = [options EXCEPT ![p] = NoOptions]
  /\ snap' = [snap EXCEPT ![p] = EmptyProfile]
  /\ mine' = [mine EXCEPT ![p] = NoClient]
  /\ source' = [source EXCEPT ![p] = "none"]
  /\ session' = [session EXCEPT ![p] = NoSession]
  /\ cause' = [cause EXCEPT ![p] = "none"]
  /\ seen' = [seen EXCEPT ![p] = NoProc]
  /\ report' = [report EXCEPT ![p] = NoReport]
  /\ outcome' = result

\* The command of p goes on, and no command ends.
Goto(p, where) == pc' = [pc EXCEPT ![p] = where] /\ outcome' = "none"

(* A command begins with reading the file, and may keep what it read.       *)
Begin(p, command, opts, read, where) ==
  /\ command \in Commands
  /\ pc[p] = "off"
  /\ Goto(p, where)
  /\ options' = [options EXCEPT ![p] = opts]
  /\ snap' = [snap EXCEPT ![p] = read]
  /\ UNCHANGED <<profile, server, login, report>>

-----------------------------------------------------------------------------
(* The server's side of RFC 7591 and RFC 7592.                              *)

(* dcr::delete answered: the application is gone, now or before.            *)
Deleted(c) == c.managed /\ apps' = apps \ {c.id}

(* It failed: there is no management token, the server refused, or the      *)
(* answer to a deletion that took place was lost.                           *)
NotDeleted(c) == apps' = apps \/ (c.managed /\ apps' = apps \ {c.id})

(* The server takes the client to the consent screen: it still knows it, and *)
(* the redirect URI is the one registered.  A client otl registered is       *)
(* pinned to the port it had then, while --client-id listens on one of the   *)
(* documented ports (bind_ephemeral, bind_fixed).                            *)
Accepts(c) == IF c.dynamic THEN c.id \in apps ELSE c.id \notin Apps

-----------------------------------------------------------------------------
(* otl auth login.                                                          *)

LoginStart(p) ==
  \E opts \in LoginOptions :
    /\ Bindable(profile, opts.origin)
    /\ Begin(p, "login", opts, profile, "client")

\* p holds the callback port its client is pinned to.
Listening(p) == pc[p] \in {"record", "browser", "persist", "abandon", "identity", "label"}

PortTaken(p) ==
  \E q \in Procs \ {p} :
    Listening(q) /\ mine[q].id = snap[p].client.id

\* cached_for: a client is recorded, for this instance.
Cached(p) == snap[p].client # NoClient /\ snap[p].client.origin = options[p].origin

\* acquire_client without --client-id.
Acquires(p) == pc[p] = "client" /\ options[p].clientId = NoClient

\* The client is chosen: of the command line and the snapshot, only the
\* instance is used again.
Acquired(p, c, from, where) ==
  /\ options' = [options EXCEPT ![p] = [origin |-> options[p].origin]]
  /\ snap' = [snap EXCEPT ![p] = EmptyProfile]
  /\ mine' = [mine EXCEPT ![p] = c]
  /\ source' = [source EXCEPT ![p] = from]
  /\ Goto(p, where)

\* The record of a client an administrator made.
Administered_NoOrigin(id, o) ==
  [id |-> id, dynamic |-> FALSE, managed |-> FALSE, origin |-> NoOrigin]

Administered(id, o) == [id |-> id, dynamic |-> FALSE, managed |-> FALSE, origin |-> o]

(* --client-id: the client is an administrator's, whatever the file says.   *)
UseProvided(p) ==
  /\ pc[p] = "client"
  /\ options[p].clientId # NoClient
  /\ Acquired(p, Administered(options[p].clientId, options[p].origin), "provided", "browser")
  /\ UNCHANGED <<profile, server, session, cause, seen, report>>

(* The recorded client is used again, if its callback port can be bound.    *)
UseCached(p) ==
  /\ Acquires(p) /\ Cached(p)
  /\ snap[p].client.dynamic => ~ PortTaken(p)
  /\ Acquired(p, snap[p].client, "cached", "browser")
  /\ UNCHANGED <<profile, server, session, cause, seen, report>>

(* The port is taken, by another login or by anything else.                 *)
PortUnavailable(p) ==
  /\ Acquires(p) /\ Cached(p)
  /\ Goto(p, IF snap[p].client.dynamic THEN "retire" ELSE "register")
  /\ UNCHANGED <<profile, server, options, snap, login, report>>

(* retire: the unusable client comes off the server before there is a new   *)
(* one, unless the user forces it; its record stays in the file until then. *)
Retire(p) ==
  /\ pc[p] = "retire"
  /\ \E force \in Forces :
       \/ /\ Deleted(snap[p].client) \/ (NotDeleted(snap[p].client) /\ force)
          /\ Goto(p, "register")
          /\ UNCHANGED <<options, snap, login, report>>
       \/ /\ NotDeleted(snap[p].client) /\ ~ force
          /\ End(p, "failed")
  /\ UNCHANGED <<profile, live, lastApp, lastToken>>

(* register_new: the callback port is bound and the server creates an       *)
(* application, with a management token or without; or the process never    *)
(* gets to use its answer, which is lost, has no client id or names another *)
(* host (build): the error it ends with says nothing of the application.    *)
Register(p) ==
  /\ \/ pc[p] = "register"
     \/ Acquires(p) /\ ~ Cached(p)
  /\ lastApp < MaxApps
  /\ lastApp' = lastApp + 1
  /\ apps' = apps \cup {lastApp + 1}
  /\ \/ /\ \E managed \in BOOLEAN :
             Acquired(p, [id |-> lastApp + 1, dynamic |-> TRUE, managed |-> managed,
                          origin |-> options[p].origin], "registered", "record")
        /\ UNCHANGED <<session, cause, seen, report>>
     \/ End(p, "failed")
  /\ UNCHANGED <<profile, live, lastToken>>

Refusal_BindingUnchecked(p) ==
  IF ~ Claim(profile, mine[p]) THEN "concurrent" ELSE "none"

\* Why the transaction of login p may not change the file, if it may not.
Refusal(p) ==
  IF ~ Bindable(profile, options[p].origin) THEN "failed"
  ELSE IF ~ Claim(profile, mine[p]) THEN "concurrent" ELSE "none"

\* A failed transaction: what this login created is taken back.
Abandoned(p, why) ==
  IF source[p] = "registered"
    THEN /\ Goto(p, "abandon")
         /\ cause' = [cause EXCEPT ![p] = why]
         /\ UNCHANGED <<options, snap, mine, source, session, seen, report>>
    ELSE End(p, why)

(* One transaction of login p, towards the file f.                          *)
LoginStores(p, f, next) ==
  /\ \/ /\ Refusal(p) = "none"
        /\ Stored(f)
        /\ Goto(p, next)
        /\ UNCHANGED <<options, snap, login, report>>
     \/ /\ StoreFailed(IF Refusal(p) = "none" THEN f ELSE profile)
        /\ Abandoned(p, "failed")
     \/ /\ Refusal(p) # "none"
        /\ Abandoned(p, Refusal(p))
        /\ UNCHANGED profile
  /\ UNCHANGED server

(* persist_registration: the new client is recorded before the browser step.*)
Record(p) ==
  /\ pc[p] = "record"
  /\ LoginStores(p, [profile EXCEPT !.origin = options[p].origin, !.client = mine[p]],
                 "browser")

(* authorize: the browser, and the exchange of the code for tokens.         *)
Authorize(p) ==
  /\ pc[p] = "browser"
  /\ Accepts(mine[p])
  /\ lastToken < MaxTokens
  /\ lastToken' = lastToken + 1
  /\ live' = live \cup {lastToken + 1}
  /\ session' = [session EXCEPT ![p] =
       [token |-> lastToken + 1, origin |-> options[p].origin,
        owner |-> p, account |-> NoProc]]
  /\ Goto(p, "persist")
  /\ UNCHANGED <<profile, apps, lastApp, options, snap, mine, source, cause, seen,
                 report>>

(* Discovery, the callback port, the registration request, the consent      *)
(* screen or the exchange fails: the command ends, and a client recorded    *)
(* before the browser step stays recorded.                                  *)
LoginFails(p) ==
  /\ pc[p] \in {"client", "register", "browser"}
  /\ End(p, "failed")
  /\ UNCHANGED <<profile, server>>

(* persist_session: the session, its client and the binding in one write.   *)
Persist(p) ==
  /\ pc[p] = "persist"
  /\ LoginStores(p, [profile EXCEPT !.origin = options[p].origin, !.client = mine[p],
                                    !.oauth = session[p]],
                 "identity")

(* abandon: one attempt to delete the client this login registered, and     *)
(* what became of it goes into the message.                                 *)
Abandon(p) ==
  /\ pc[p] = "abandon"
  /\ Deleted(mine[p]) \/ NotDeleted(mine[p])
  /\ End(p, cause[p])
  /\ UNCHANGED <<profile, live, lastApp, lastToken>>

(* capture_identity asks with the session the file holds by then.           *)
QueryIdentity(p) ==
  /\ pc[p] = "identity"
  /\ \/ /\ profile.oauth # NoSession
        /\ profile.oauth.origin = options[p].origin
        /\ seen' = [seen EXCEPT ![p] = profile.oauth.owner]
        /\ Goto(p, "label")
        /\ UNCHANGED <<options, snap, mine, source, session, cause, report>>
     \/ End(p, "done")
  /\ UNCHANGED <<profile, server>>

RecordIdentity_AnySession(p) ==
  /\ pc[p] = "label"
  /\ IF profile.oauth # NoSession
       THEN profile' = [profile EXCEPT !.oauth.account = seen[p]]
       ELSE UNCHANGED profile
  /\ End(p, "done")
  /\ UNCHANGED server

(* record_identity labels the session this login stored, and no other.      *)
RecordIdentity(p) ==
  /\ pc[p] = "label"
  /\ IF profile.oauth # NoSession /\ profile.oauth.token = session[p].token
       THEN profile' = [profile EXCEPT !.oauth.account = seen[p]] \/ UNCHANGED profile
       ELSE UNCHANGED profile
  /\ End(p, "done")
  /\ UNCHANGED server

-----------------------------------------------------------------------------
(* otl auth logout.                                                         *)

LogoutStart(p) ==
  /\ ~ Empty(profile)
  /\ \E opts \in LogoutOptions :
       Begin(p, "logout", opts, profile,
             IF profile.oauth # NoSession THEN "revoke" ELSE "purge")

Reported(p, r) ==
  /\ report' = [report EXCEPT ![p] = r]
  /\ UNCHANGED <<options, snap, login>>

(* revoke_tokens: both tokens are revoked; or not both, and every failure   *)
(* is for good (no endpoint, or the server refuses the client), or one may  *)
(* be tried again.  The server may have revoked them all the same.          *)
Revoke(p) ==
  /\ pc[p] = "revoke"
  /\ \/ /\ live' = live \ {snap[p].oauth.token}
        /\ Reported(p, [report[p] EXCEPT !.revoked = TRUE])
     \/ /\ live' \in {live, live \ {snap[p].oauth.token}}
        /\ \/ Reported(p, [report[p] EXCEPT !.final = TRUE])
           \/ Reported(p, [report[p] EXCEPT !.retry = TRUE])
  /\ Goto(p, "purge")
  /\ UNCHANGED <<profile, apps, lastApp, lastToken>>

\* `logout --purge` has a registration of ours to delete.
Purges(p) ==
  options[p].purge /\ snap[p].client # NoClient /\ snap[p].client.dynamic

(* purge_registration.                                                      *)
Purge(p) ==
  /\ pc[p] = "purge"
  /\ IF Purges(p)
       THEN \/ /\ Deleted(snap[p].client)
               /\ Reported(p, [report[p] EXCEPT !.deleted = TRUE])
            \/ /\ apps' = apps
               /\ Reported(p, report[p])
            \/ /\ snap[p].client.managed
               /\ NotDeleted(snap[p].client)
               /\ Reported(p, [report[p] EXCEPT !.retry = TRUE])
       ELSE apps' = apps /\ Reported(p, report[p])
  /\ Goto(p, "remove")
  /\ UNCHANGED <<profile, live, lastApp, lastToken>>

\* keep_for_retry
KeepForRetry(p) == report[p].retry /\ ~ options[p].force

SignedOut_RevokedOnly(p, survived) == report[p].revoked

\* Report::signed_out()
SignedOut(p, survived) == report[p].revoked /\ ~ survived

\* What the output of a logout says of the tokens (logout_output, "revoked").
Says(p, survived) == IF SignedOut(p, survived) THEN "signed_out" ELSE "done"

(* Something on the server could still be done later: nothing is removed,   *)
(* and what the file holds by now is not looked at.                         *)
Keep(p) ==
  /\ pc[p] = "remove"
  /\ KeepForRetry(p)
  /\ End(p, Says(p, FALSE))
  /\ UNCHANGED <<profile, server>>

(* drop_registration: the record of a client goes once the client is gone,  *)
(* or was never ours; --force gives it up.                                  *)
DropRegistration(p) ==
  \/ report[p].deleted
  \/ /\ options[p].purge
     /\ snap[p].client # NoClient
     /\ ~ snap[p].client.dynamic \/ options[p].force

\* same_registration: the application, and what can delete it.
SameRegistration(now, then) == now.id = then.id /\ now.managed = then.managed

SameSession_Any(now, then) == TRUE

\* same_session: compared on the access token.
SameSession(now, then) == now.token = then.token

\* What clear_if_unchanged leaves of the file.
Remaining(p) ==
  LET oauth == IF /\ profile.oauth # NoSession /\ snap[p].oauth # NoSession
                  /\ SameSession(profile.oauth, snap[p].oauth)
                 THEN NoSession ELSE profile.oauth
      key == IF profile.key = snap[p].key THEN NoKey ELSE profile.key
      client == IF /\ DropRegistration(p)
                   /\ profile.client # NoClient /\ snap[p].client # NoClient
                   /\ SameRegistration(profile.client, snap[p].client)
                  THEN NoClient ELSE profile.client
  IN  [origin |-> profile.origin, key |-> key, oauth |-> oauth, client |-> client]

\* A profile with nothing in it is bound to no instance.
Pruned(f) == IF Empty(f) THEN EmptyProfile ELSE f

\* The record of an application the server still has is given up for good.
GivesUp(p) == Purges(p) /\ options[p].force /\ ~ report[p].deleted

\* A credential is still there, which another process has written.
Survives(f) == f.oauth # NoSession \/ f.key # NoKey

(* remove_locally: what this logout acted on, and nothing else, goes.  The  *)
(* warnings are printed with the report, and there is none if the           *)
(* transaction fails.                                                       *)
Remove(p) ==
  /\ pc[p] = "remove"
  /\ ~ KeepForRetry(p)
  /\ LET f == Pruned(Remaining(p)) IN
       \/ Stored(f) /\ End(p, Says(p, Survives(f)))
       \/ StoreFailed(f) /\ End(p, "failed")
  /\ UNCHANGED server

-----------------------------------------------------------------------------
(* otl auth set-key, and what else happens.                                 *)

SetKeyStart(p) ==
  \E opts \in KeyOptions :
    /\ Bindable(profile, opts.origin)
    /\ Begin(p, "set-key", opts, EmptyProfile, "prompt")

(* The prompt is answered, and the profile may be another one by then.      *)
StoreKey(p) ==
  /\ pc[p] = "prompt"
  /\ LET f == [profile EXCEPT !.origin = options[p].origin,
                              !.key = [origin |-> options[p].origin, owner |-> p]] IN
       \/ /\ Bindable(profile, options[p].origin)
          /\ \/ Stored(f) /\ End(p, "done")
             \/ StoreFailed(f) /\ End(p, "failed")
       \/ /\ ~ Bindable(profile, options[p].origin)
          /\ UNCHANGED profile
          /\ End(p, "failed")
  /\ UNCHANGED server

(* A running command refreshes the session (TokenRefresh).                  *)
Refresh ==
  /\ profile.oauth # NoSession
  /\ profile.oauth.token \in live
  /\ lastToken < MaxTokens
  /\ lastToken' = lastToken + 1
  /\ live' = (live \ {profile.oauth.token}) \cup {lastToken + 1}
  /\ profile' = [profile EXCEPT !.oauth.token = lastToken + 1]
  /\ outcome' = "none"
  /\ UNCHANGED <<apps, lastApp, pc, options, snap, login, report>>

(* A process dies, and with it the answer to a registration not recorded    *)
(* yet.                                                                     *)
Crash(p) ==
  /\ pc[p] # "off"
  /\ End(p, "none")
  /\ UNCHANGED <<profile, server>>

Login(p) ==
  \/ LoginStart(p) \/ UseProvided(p) \/ UseCached(p) \/ PortUnavailable(p)
  \/ Retire(p) \/ Register(p) \/ Record(p) \/ Authorize(p) \/ LoginFails(p)
  \/ Persist(p) \/ Abandon(p) \/ QueryIdentity(p) \/ RecordIdentity(p)

Logout(p) == LogoutStart(p) \/ Revoke(p) \/ Purge(p) \/ Keep(p) \/ Remove(p)

SetKey(p) == SetKeyStart(p) \/ StoreKey(p)

Next ==
  \/ \E p \in Procs : Login(p) \/ Logout(p) \/ SetKey(p) \/ Crash(p)
  \/ Refresh

Spec == Init /\ [][Next]_vars

-----------------------------------------------------------------------------
(* Properties.                                                              *)

(* The parts of a profile are of the instance it is bound to.               *)
OfOneInstance(f) ==
  /\ f.origin = NoOrigin <=> Empty(f)
  /\ f.oauth # NoSession => f.oauth.origin = f.origin
  /\ f.key # NoKey => f.key.origin = f.origin
  /\ f.client # NoClient => f.client.origin = f.origin

(* A profile never mixes two instances: its session, its key and its client *)
(* are all of the origin it is bound to, whoever wrote them and however     *)
(* long ago the writer looked (ensure_bindable, remove_locally).            *)
OneInstance == OfOneInstance(profile)

(* Why: what a command is about to write is of the instance it was started  *)
(* for, and an application it may have to give up is one it registered.     *)
OwnInstance ==
  \A p \in Procs :
    /\ pc[p] = "client" => options[p] \in LoginOptions
    /\ pc[p] \in LoginPCs \cup {"prompt"} => options[p].origin \in Origins
    /\ pc[p] \in {"record", "browser", "persist", "abandon"} =>
         mine[p] # NoClient /\ mine[p].origin = options[p].origin
    /\ pc[p] = "persist" =>
         session[p] # NoSession /\ session[p].origin = options[p].origin
    /\ pc[p] \in {"record", "abandon"} => source[p] = "registered"
    /\ source[p] = "registered" => mine[p] # NoClient /\ mine[p].dynamic

(* The inductive strengthening of OneInstance (LoginLogoutProofs).          *)
LInv == TypeOK /\ OwnInstance /\ OneInstance

\* The record of application a is in the file, with what the server gave
\* to delete it.
OnFile(a) ==
  /\ profile.client # NoClient
  /\ profile.client.id = a
  /\ profile.client.dynamic

\* Something that can delete application a is in the file, or in the hands
\* of a login that is about to record or to delete it.
Kept(a) ==
  OnFile(a) \/ \E p \in Procs : pc[p] \in {"record", "abandon"} /\ mine[p].id = a

\* A message says that a is left on the server: the login or the purge that
\* could not delete it ends with it.
Named(a) ==
  \E p \in Procs :
    /\ pc'[p] = "off"
    /\ \/ pc[p] = "abandon" /\ mine[p].id = a /\ outcome' # "none"
       \/ pc[p] = "remove" /\ GivesUp(p) /\ snap[p].client.id = a /\ outcome' # "failed"

\* p ends with a in its hands and without a word of it.
Silent(p, a) ==
  \/ pc[p] \in {"client", "register"} /\ a \notin apps
  \/ pc[p] \in {"record", "abandon"} /\ mine[p].id = a /\ outcome' = "none"
  \/ pc[p] = "remove" /\ GivesUp(p) /\ snap[p].client.id = a /\ outcome' = "failed"

(* No application on the server loses the last thing that can delete it     *)
(* without the user being told of it, whatever other logins and logouts do  *)
(* to the file meanwhile (persist_registration, abandon, drop_registration).*)
(* Three cases are excepted (Silent), in which the program does not do what *)
(* login.rs:221-228 and logout.rs:36 ("Whatever could not be done is always *)
(* reported") promise: the answer to a registration cannot be used, and the *)
(* error says nothing of the application; the process dies before it has    *)
(* recorded one; the transaction of a forced purge fails after the file was *)
(* replaced, and its warnings are never printed.                            *)
NoOrphan ==
  [][\A a \in apps' : (Kept(a) \/ a \notin apps) =>
       \/ Kept(a)'
       \/ Named(a)
       \/ \E p \in Procs : pc'[p] = "off" /\ Silent(p, a)]_vars

(* The account shown for a session is the one that signed in to it, though  *)
(* another login may replace the session while the server is being asked    *)
(* (capture_identity, record_identity).                                     *)
LabelIsOwners ==
  profile.oauth # NoSession /\ profile.oauth.account # NoProc =>
    profile.oauth.account = profile.oauth.owner

(* Nothing irreversible happens by default: a session leaves the file while *)
(* the server still honours its token only in a logout that had that token  *)
(* and was told it can never be revoked, or was forced (logout.rs, rule 3). *)
NothingIrreversible ==
  [][profile.oauth # NoSession /\ profile'.oauth = NoSession
       /\ profile.oauth.token \in live' =>
     \E p \in Procs :
       /\ pc[p] = "remove"
       /\ snap[p].oauth # NoSession /\ snap[p].oauth.token = profile.oauth.token
       /\ options[p].force \/ report[p].final]_vars

(* A logout reports the tokens of the profile revoked only when the server  *)
(* no longer accepts the one it acted on, and the profile is left without a *)
(* session and without a key, or this logout keeps what it found for a      *)
(* retry of the rest (Report::signed_out, which says "revoked AND gone" of  *)
(* that case too: see RevokedIsGone).                                       *)
SignedOutIsSound ==
  [][\A p \in Procs : pc[p] = "remove" /\ pc'[p] = "off" /\ outcome' = "signed_out" =>
       /\ snap[p].oauth # NoSession /\ snap[p].oauth.token \notin live'
       /\ \/ profile'.oauth = NoSession /\ profile'.key = NoKey
          \/ KeepForRetry(p) /\ profile' = profile]_vars

-----------------------------------------------------------------------------
(* What the sources say and the program does not do.                        *)

(* A login is abandoned because another login completed only if there is    *)
(* another one (error.rs, ConcurrentLogin): false for one process on its    *)
(* own, whose file still holds the client it has just retired, or another   *)
(* client than the one --client-id names.                                   *)
ConcurrentLoginIsReal ==
  (\A p, q \in Procs : p = q) => outcome # "concurrent"

(* What a logout reports revoked is revoked AND gone, and a session another *)
(* process wrote meanwhile is not claimed (logout.rs, Report::signed_out;   *)
(* exit-codes.md): false when the credentials are kept for a retry of the   *)
(* deletion, since nobody looks at what the file holds by then.             *)
RevokedIsGone ==
  outcome = "signed_out" /\ profile.oauth # NoSession =>
    profile.oauth.token \notin live
=============================================================================

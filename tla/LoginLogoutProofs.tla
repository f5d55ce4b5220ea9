-------------------------- MODULE LoginLogoutProofs --------------------------
(***************************************************************************)
(* The proof that a profile never mixes two instances, and of what logins  *)
(* and logouts leave behind, for every set of processes and instances and  *)
(* every bound on applications and tokens.                                 *)
(*                                                                         *)
(* The invariant has a part about the profile (FileOK), a part about the   *)
(* server (ServerOK) and a part about each process (LocalOK).  Most steps  *)
(* touch only the last, and a command that ends leaves nothing behind      *)
(* (EndLocal).  What is written into the profile is checked, inside the    *)
(* same transaction, against the instance the profile is bound to.         *)
(*                                                                         *)
(* To it come three parts.  Sessions: no token is issued twice, so a       *)
(* session with the token of a login is that login's, and a login that     *)
(* asked about another one finds another one still.  Told: what a logout   *)
(* knows of its token stays true while it waits.  Numbering: an            *)
(* application has one number for good, so that a record with its number   *)
(* is its record, and one that was deleted does not come back.             *)
(***************************************************************************)
EXTENDS LoginLogout, TLAPS

USE BoundsAssumption, ClientsAssumption, NoneAssumption, CommandsAssumption
USE DEF Apps, ClientIds, Tokens

-----------------------------------------------------------------------------
(* The parts of the invariant.                                              *)

FileOK(f) == f \in Profile /\ OfOneInstance(f)

ServerOK ==
  /\ apps \subseteq Apps
  /\ live \subseteq Tokens
  /\ lastApp \in 0 .. MaxApps
  /\ lastToken \in 0 .. MaxTokens

LocalOK ==
  /\ pc \in [Procs -> PCs]
  /\ options \in [Procs -> LoginOptions \cup LogoutOptions \cup KeyOptions \cup {NoOptions}]
  /\ snap \in [Procs -> Profile]
  /\ mine \in [Procs -> Registration \cup {NoClient}]
  /\ source \in [Procs -> Sources]
  /\ session \in [Procs -> Session \cup {NoSession}]
  /\ cause \in [Procs -> Causes]
  /\ seen \in [Procs -> Procs \cup {NoProc}]
  /\ report \in [Procs -> Reports]
  /\ outcome \in Outcomes
  /\ OwnInstance

(* The invariant is the conjunction of its parts.                           *)
LEMMA Parts == LInv <=> FileOK(profile) /\ ServerOK /\ LocalOK
  BY DEF LInv, TypeOK, OneInstance, FileOK, ServerOK, LocalOK

(* So it is in the next state.                                              *)
LEMMA PartsNext == LInv' <=> FileOK(profile') /\ ServerOK' /\ LocalOK'
  BY DEF LInv, TypeOK, OneInstance, FileOK, ServerOK, LocalOK, OfOneInstance, Empty

(* A profile with nothing in it is bound to nothing.                        *)
LEMMA EmptyFile == FileOK(EmptyProfile)
  BY DEF FileOK, OfOneInstance, Empty, EmptyProfile, Profile

(* A command that ends leaves no trace of its process.                      *)
LEMMA EndLocal ==
  ASSUME LocalOK, NEW p \in Procs, NEW result \in Outcomes, End(p, result)
  PROVE  LocalOK'
<1>1. EmptyProfile \in Profile
  BY EmptyFile DEF FileOK
<1>2. /\ "off" \in PCs /\ "none" \in Sources /\ "none" \in Causes
      /\ NoReport \in Reports
  BY DEF PCs, Sources, Causes, Reports, NoReport
<1>3. /\ pc' \in [Procs -> PCs]
      /\ options' \in [Procs -> LoginOptions \cup LogoutOptions \cup KeyOptions \cup {NoOptions}]
      /\ snap' \in [Procs -> Profile]
      /\ mine' \in [Procs -> Registration \cup {NoClient}]
      /\ source' \in [Procs -> Sources]
      /\ session' \in [Procs -> Session \cup {NoSession}]
      /\ cause' \in [Procs -> Causes]
      /\ seen' \in [Procs -> Procs \cup {NoProc}]
      /\ report' \in [Procs -> Reports]
      /\ outcome' \in Outcomes
  BY <1>1, <1>2 DEF LocalOK, End
<1>4. OwnInstance'
  BY DEF LocalOK, End, OwnInstance, LoginPCs
<1>5. QED
  BY <1>3, <1>4 DEF LocalOK

(* A command that goes on, with nothing else of its process changed: it must *)
(* have what it needs where it goes.                                         *)
LEMMA GotoLocal ==
  ASSUME LocalOK, NEW p \in Procs, NEW where \in PCs, Goto(p, where),
         UNCHANGED <<options, snap, mine, source, session>>,
         cause' \in [Procs -> Causes], seen' \in [Procs -> Procs \cup {NoProc}],
         report' \in [Procs -> Reports],
         where # "client",
         where \in LoginPCs \cup {"prompt"} => options[p].origin \in Origins,
         where \in {"record", "browser", "persist", "abandon"} =>
           mine[p] # NoClient /\ mine[p].origin = options[p].origin,
         where = "persist" => session[p] # NoSession /\ session[p].origin = options[p].origin,
         where \in {"record", "abandon"} => source[p] = "registered"
  PROVE  LocalOK'
<1>1. OwnInstance'
  BY DEF LocalOK, Goto, OwnInstance
<1>2. QED
  BY <1>1 DEF LocalOK, Goto, Outcomes, Causes

(* The server as it was.                                                    *)
LEMMA SameServer ==
  ASSUME ServerOK, UNCHANGED server
  PROVE  ServerOK'
  BY DEF ServerOK, server

(* An application is removed from the server, or is not.                    *)
LEMMA Deletion ==
  ASSUME ServerOK, NEW c, Deleted(c) \/ NotDeleted(c),
         UNCHANGED <<live, lastApp, lastToken>>
  PROVE  ServerOK'
  BY DEF ServerOK, Deleted, NotDeleted

-----------------------------------------------------------------------------
(* What is written into the file.                                           *)

(* A client, or a client and a session, of the instance that was checked    *)
(* against the profile.                                                     *)
LEMMA BoundLogin ==
  ASSUME NEW f, FileOK(f), NEW o \in Origins, Bindable(f, o),
         NEW c \in Registration, c.origin = o
  PROVE  /\ FileOK([f EXCEPT !.origin = o, !.client = c])
         /\ \A s \in Session : s.origin = o =>
              FileOK([f EXCEPT !.origin = o, !.client = c, !.oauth = s])
  BY DEF FileOK, OfOneInstance, Bindable, Empty, Profile

(* So for an API key.                                                       *)
LEMMA BoundKey ==
  ASSUME NEW f, FileOK(f), NEW o \in Origins, Bindable(f, o), NEW p \in Procs
  PROVE  FileOK([f EXCEPT !.origin = o, !.key = [origin |-> o, owner |-> p]])
<1>1. [origin |-> o, owner |-> p] \in ApiKey
  BY DEF ApiKey
<1>2. QED
  BY <1>1 DEF FileOK, OfOneInstance, Bindable, Empty, Profile

(* Changing the token or the account of the session leaves it where it is.  *)
LEMMA SameBinding ==
  ASSUME NEW f, FileOK(f), f.oauth # NoSession
  PROVE  /\ \A t \in Tokens : FileOK([f EXCEPT !.oauth.token = t])
         /\ \A a \in Procs \cup {NoProc} : FileOK([f EXCEPT !.oauth.account = a])
<1>1. f.oauth \in Session
  BY DEF FileOK, Profile
<1>2. \A t \in Tokens : /\ [f.oauth EXCEPT !.token = t] \in Session
                         /\ [f.oauth EXCEPT !.token = t].origin = f.oauth.origin
  BY <1>1 DEF Session
<1>3. \A a \in Procs \cup {NoProc} :
         /\ [f.oauth EXCEPT !.account = a] \in Session
         /\ [f.oauth EXCEPT !.account = a].origin = f.oauth.origin
  BY <1>1 DEF Session
<1>4. \A s \in Session : s.origin = f.oauth.origin => FileOK([f EXCEPT !.oauth = s])
  BY DEF FileOK, OfOneInstance, Empty, Profile
<1>5. /\ \A t \in Tokens : FileOK([f EXCEPT !.oauth = [f.oauth EXCEPT !.token = t]])
      /\ \A a \in Procs \cup {NoProc} :
           FileOK([f EXCEPT !.oauth = [f.oauth EXCEPT !.account = a]])
  BY <1>2, <1>3, <1>4
<1>6. QED
  BY <1>5

(* What a logout leaves is of the same instance, or nothing.                *)
LEMMA Removal ==
  ASSUME FileOK(profile), NEW p \in Procs
  PROVE  FileOK(Pruned(Remaining(p)))
<1>1. /\ Remaining(p) \in Profile
      /\ Remaining(p).origin = profile.origin
      /\ Remaining(p).oauth \in {profile.oauth, NoSession}
      /\ Remaining(p).key \in {profile.key, NoKey}
      /\ Remaining(p).client \in {profile.client, NoClient}
  BY DEF FileOK, Remaining, Profile
<1>2. CASE Empty(Remaining(p))
  BY <1>2, EmptyFile DEF Pruned
<1>3. CASE ~ Empty(Remaining(p))
  BY <1>1, <1>3 DEF Pruned, FileOK, OfOneInstance, Empty
<1>4. QED
  BY <1>2, <1>3

-----------------------------------------------------------------------------
(* The shapes of steps.                                                     *)

(* A step that changes neither the file nor the server.                     *)
LEMMA Quiet ==
  ASSUME LInv, UNCHANGED <<profile, server>>, LocalOK'
  PROVE  LInv'
  BY Parts, PartsNext, SameServer

(* A command that ends without having changed anything.                     *)
LEMMA QuietEnd ==
  ASSUME LInv, NEW p \in Procs, NEW result \in Outcomes, End(p, result),
         UNCHANGED <<profile, server>>
  PROVE  LInv'
  BY Parts, EndLocal, Quiet

(* A command begins.                                                        *)
LEMMA BeginInv ==
  ASSUME LInv, NEW p \in Procs, NEW command,
         NEW opts \in LoginOptions \cup LogoutOptions \cup KeyOptions,
         NEW read \in Profile, NEW where \in {"client", "prompt", "revoke", "purge"},
         where = "client" => opts \in LoginOptions,
         where \in {"client", "prompt"} => opts.origin \in Origins,
         Begin(p, command, opts, read, where)
  PROVE  LInv'
<1>1. LocalOK
  BY Parts
<1>2. where \in PCs
  BY DEF PCs, LoginPCs, LogoutPCs
<1>3. OwnInstance'
  BY <1>1 DEF LocalOK, Begin, Goto, OwnInstance, LoginPCs, login
<1>4. LocalOK'
  BY <1>1, <1>2, <1>3 DEF LocalOK, Begin, Goto, Outcomes, Causes, login
<1>5. QED
  BY <1>4, Quiet DEF Begin

(* The client of a login is chosen, of the instance it signs in to.         *)
LEMMA AcquiredLocal ==
  ASSUME LocalOK, NEW p \in Procs, NEW c \in Registration, NEW from \in Sources,
         NEW where \in {"record", "browser"}, Acquired(p, c, from, where),
         UNCHANGED <<session, cause, seen, report>>,
         options[p].origin \in Origins, c.origin = options[p].origin,
         where = "record" => from = "registered",
         from = "registered" => c.dynamic
  PROVE  LocalOK'
<1>1. where \in PCs
  BY DEF PCs, LoginPCs
<1>2. /\ EmptyProfile \in Profile
      /\ [origin |-> options[p].origin] \in KeyOptions
  BY EmptyFile DEF FileOK, KeyOptions
<1>3. c # NoClient
  BY NoneAssumption
<1>4. OwnInstance'
  BY <1>3 DEF LocalOK, Acquired, Goto, OwnInstance
<1>5. QED
  BY <1>1, <1>2, <1>4 DEF LocalOK, Acquired, Goto, Outcomes, Causes

(* A login whose transaction failed is over, or first takes back what it    *)
(* created.                                                                 *)
LEMMA AbandonedLocal ==
  ASSUME LocalOK, NEW p \in Procs, pc[p] \in {"record", "persist"},
         NEW why \in Causes, Abandoned(p, why)
  PROVE  LocalOK'
<1>1. CASE source[p] = "registered"
  <2>1. /\ "abandon" \in PCs
        /\ cause' \in [Procs -> Causes]
    BY <1>1 DEF PCs, LoginPCs, Abandoned, LocalOK
  <2>2. QED
    BY <1>1, <2>1, GotoLocal DEF Abandoned, LocalOK, OwnInstance, LoginPCs
<1>2. CASE source[p] # "registered"
  BY <1>2, EndLocal DEF Abandoned, Outcomes
<1>3. QED
  BY <1>1, <1>2

(* A transaction of a login writes only what may be written.                *)
LEMMA LoginStoresInv ==
  ASSUME LInv, NEW p \in Procs, pc[p] \in {"record", "persist"},
         NEW f, Refusal(p) = "none" => FileOK(f),
         NEW next \in {"browser", "identity"}, LoginStores(p, f, next)
  PROVE  LInv'
<1>1. FileOK(profile) /\ ServerOK /\ LocalOK
  BY Parts
<1>2. ServerOK'
  BY <1>1, SameServer DEF LoginStores
<1>3. Refusal(p) \in Causes /\ "failed" \in Causes
  BY DEF Refusal, Causes
<1>4. CASE /\ Refusal(p) = "none" /\ Stored(f) /\ Goto(p, next)
           /\ UNCHANGED <<options, snap, login, report>>
  <2>1. next \in PCs
    BY DEF PCs, LoginPCs
  <2>2. LocalOK'
    BY <1>1, <1>4, <2>1, GotoLocal DEF login, LocalOK, OwnInstance, LoginPCs
  <2>3. QED
    BY <1>2, <1>4, <2>2, PartsNext DEF Stored
<1>5. CASE /\ StoreFailed(IF Refusal(p) = "none" THEN f ELSE profile)
           /\ Abandoned(p, "failed")
  BY <1>1, <1>2, <1>3, <1>5, AbandonedLocal, PartsNext DEF StoreFailed
<1>6. CASE Abandoned(p, Refusal(p)) /\ UNCHANGED profile
  BY <1>1, <1>2, <1>3, <1>6, AbandonedLocal, PartsNext
<1>7. QED
  BY <1>4, <1>5, <1>6 DEF LoginStores

-----------------------------------------------------------------------------
(* The steps of a login.                                                    *)

(* A login starts for an instance.                                          *)
LEMMA LoginStartInv == ASSUME LInv, NEW p \in Procs, LoginStart(p) PROVE LInv'
<1>1. PICK opts \in LoginOptions : Begin(p, "login", opts, profile, "client")
  BY DEF LoginStart
<1>2. opts.origin \in Origins /\ profile \in Profile
  BY DEF LoginOptions, LInv, TypeOK
<1>3. QED
  BY <1>1, <1>2, BeginInv

(* The client is the one named on the command line.                         *)
LEMMA UseProvidedInv == ASSUME LInv, NEW p \in Procs, UseProvided(p) PROVE LInv'
<1>1. LocalOK /\ options[p].origin \in Origins
  BY Parts DEF UseProvided, LocalOK, OwnInstance, LoginPCs
<1>2. options[p].clientId \in ClientIds
  BY <1>1, ClientsAssumption DEF UseProvided, LocalOK, OwnInstance, LoginOptions
<1>3. LET c == Administered(options[p].clientId, options[p].origin)
      IN  c \in Registration /\ c.origin = options[p].origin
  BY <1>1, <1>2 DEF Administered, Registration
<1>4. LocalOK'
  BY <1>1, <1>3, AcquiredLocal DEF UseProvided, Sources
<1>5. QED
  BY <1>4, Quiet DEF UseProvided

(* The client is the recorded one, which is of the same instance.           *)
LEMMA UseCachedInv == ASSUME LInv, NEW p \in Procs, UseCached(p) PROVE LInv'
<1>1. LocalOK /\ options[p].origin \in Origins
  BY Parts DEF UseCached, Acquires, LocalOK, OwnInstance, LoginPCs
<1>2. snap[p].client \in Registration
  BY <1>1 DEF UseCached, Cached, LocalOK, Profile
<1>3. LocalOK'
  BY <1>1, <1>2, AcquiredLocal DEF UseCached, Cached, Sources
<1>4. QED
  BY <1>3, Quiet DEF UseCached

(* Its port is taken.                                                       *)
LEMMA PortUnavailableInv == ASSUME LInv, NEW p \in Procs, PortUnavailable(p) PROVE LInv'
<1>1. LocalOK /\ options[p].origin \in Origins
  BY Parts DEF PortUnavailable, Acquires, LocalOK, OwnInstance, LoginPCs
<1>2. LocalOK'
  BY <1>1, GotoLocal DEF PortUnavailable, LocalOK, login, PCs, LoginPCs
<1>3. QED
  BY <1>2, Quiet DEF PortUnavailable

(* It is retired, or the login ends.                                        *)
LEMMA RetireInv == ASSUME LInv, NEW p \in Procs, Retire(p) PROVE LInv'
<1>1. FileOK(profile) /\ ServerOK /\ LocalOK /\ options[p].origin \in Origins
  BY Parts DEF Retire, LocalOK, OwnInstance, LoginPCs
<1>2. ServerOK'
  BY <1>1, Deletion DEF Retire, ServerOK
<1>3. CASE Goto(p, "register") /\ UNCHANGED <<options, snap, login, report>>
  <2>1. LocalOK'
    BY <1>1, <1>3, GotoLocal DEF LocalOK, login, PCs, LoginPCs
  <2>2. QED
    BY <1>1, <1>2, <2>1, PartsNext DEF Retire
<1>4. CASE End(p, "failed")
  BY <1>1, <1>2, <1>4, EndLocal, PartsNext DEF Retire, Outcomes, Causes
<1>5. QED
  BY <1>3, <1>4 DEF Retire

(* The server creates an application, of this instance.                     *)
LEMMA RegisterInv == ASSUME LInv, NEW p \in Procs, Register(p) PROVE LInv'
<1>1. FileOK(profile) /\ ServerOK /\ LocalOK /\ options[p].origin \in Origins
  BY Parts DEF Register, Acquires, LocalOK, OwnInstance, LoginPCs
<1>2. lastApp + 1 \in Apps /\ lastApp' \in 0 .. MaxApps
  BY <1>1 DEF Register, ServerOK
<1>3. ServerOK'
  BY <1>1, <1>2 DEF Register, ServerOK
<1>4. CASE End(p, "failed")
  BY <1>1, <1>3, <1>4, EndLocal, PartsNext DEF Register, Outcomes, Causes
<1>5. ASSUME NEW managed \in BOOLEAN,
             Acquired(p, [id |-> lastApp + 1, dynamic |-> TRUE, managed |-> managed,
                          origin |-> options[p].origin], "registered", "record"),
             UNCHANGED <<session, cause, seen, report>>
      PROVE  LocalOK'
  <2>1. [id |-> lastApp + 1, dynamic |-> TRUE, managed |-> managed,
         origin |-> options[p].origin] \in Registration
    BY <1>1, <1>2 DEF Registration
  <2>2. QED
    BY <1>1, <1>5, <2>1, AcquiredLocal DEF Sources
<1>6. QED
  BY <1>1, <1>3, <1>4, <1>5, PartsNext DEF Register

(* The transaction of a login that may proceed was checked against the      *)
(* binding of the profile.                                                  *)
LEMMA MayStore ==
  ASSUME NEW p \in Procs, Refusal(p) = "none"
  PROVE  Bindable(profile, options[p].origin)
  BY DEF Refusal

(* The new client is recorded.                                              *)
LEMMA RecordInv == ASSUME LInv, NEW p \in Procs, Record(p) PROVE LInv'
<1> DEFINE f == [profile EXCEPT !.origin = options[p].origin, !.client = mine[p]]
<1>1. FileOK(profile) /\ LocalOK
  BY Parts
<1>2. /\ options[p].origin \in Origins
      /\ mine[p] \in Registration /\ mine[p].origin = options[p].origin
  BY <1>1 DEF Record, LocalOK, OwnInstance, LoginPCs
<1>3. Refusal(p) = "none" => FileOK(f)
  BY <1>1, <1>2, MayStore, BoundLogin
<1>4. QED
  BY <1>3, LoginStoresInv DEF Record

(* Tokens are granted, of this instance.                                    *)
LEMMA AuthorizeInv == ASSUME LInv, NEW p \in Procs, Authorize(p) PROVE LInv'
<1>1. FileOK(profile) /\ ServerOK /\ LocalOK /\ options[p].origin \in Origins
  BY Parts DEF Authorize, LocalOK, OwnInstance, LoginPCs
<1>2. lastToken + 1 \in Tokens /\ lastToken' \in 0 .. MaxTokens
  BY <1>1 DEF Authorize, ServerOK
<1>3. ServerOK'
  BY <1>1, <1>2 DEF Authorize, ServerOK
<1>4. [token |-> lastToken + 1, origin |-> options[p].origin,
       owner |-> p, account |-> NoProc] \in Session
  BY <1>1, <1>2 DEF Session
<1>5. session'[p] \in Session /\ session'[p].origin = options[p].origin
  BY <1>1, <1>4 DEF Authorize, LocalOK
<1>6. OwnInstance'
  BY <1>1, <1>5, NoneAssumption DEF Authorize, LocalOK, Goto, OwnInstance, LoginPCs
<1>7. LocalOK'
  BY <1>1, <1>4, <1>6 DEF Authorize, LocalOK, Goto, Outcomes, Causes, PCs, LoginPCs
<1>8. QED
  BY <1>1, <1>3, <1>7, PartsNext DEF Authorize

(* The login fails.                                                         *)
LEMMA LoginFailsInv == ASSUME LInv, NEW p \in Procs, LoginFails(p) PROVE LInv'
  BY QuietEnd DEF LoginFails, Outcomes, Causes

(* The session is stored with its client.                                   *)
LEMMA PersistInv == ASSUME LInv, NEW p \in Procs, Persist(p) PROVE LInv'
<1> DEFINE f == [profile EXCEPT !.origin = options[p].origin, !.client = mine[p],
                                !.oauth = session[p]]
<1>1. FileOK(profile) /\ LocalOK
  BY Parts
<1>2. /\ options[p].origin \in Origins
      /\ mine[p] \in Registration /\ mine[p].origin = options[p].origin
      /\ session[p] \in Session /\ session[p].origin = options[p].origin
  BY <1>1 DEF Persist, LocalOK, OwnInstance, LoginPCs
<1>3. Refusal(p) = "none" => FileOK(f)
  BY <1>1, <1>2, MayStore, BoundLogin
<1>4. QED
  BY <1>3, LoginStoresInv DEF Persist

(* What the login created is deleted, or is not.                            *)
LEMMA AbandonInv == ASSUME LInv, NEW p \in Procs, Abandon(p) PROVE LInv'
<1>1. FileOK(profile) /\ ServerOK /\ LocalOK
  BY Parts
<1>4. ServerOK'
  BY <1>1, Deletion DEF Abandon
<1>5. cause[p] \in Outcomes
  BY <1>1 DEF LocalOK, Outcomes
<1>6. LocalOK'
  BY <1>1, <1>5, EndLocal DEF Abandon, Outcomes, Causes
<1>7. QED
  BY <1>1, <1>4, <1>6, PartsNext DEF Abandon

(* The instance says who is signed in.                                      *)
LEMMA QueryIdentityInv == ASSUME LInv, NEW p \in Procs, QueryIdentity(p) PROVE LInv'
<1>1. FileOK(profile) /\ LocalOK /\ options[p].origin \in Origins
  BY Parts DEF QueryIdentity, LocalOK, OwnInstance, LoginPCs
<1>2. CASE End(p, "done")
  BY <1>2, QuietEnd DEF QueryIdentity, Outcomes
<1>3. CASE /\ profile.oauth # NoSession
           /\ seen' = [seen EXCEPT ![p] = profile.oauth.owner]
           /\ Goto(p, "label")
           /\ UNCHANGED <<options, snap, mine, source, session, cause, report>>
  <2>1. profile.oauth.owner \in Procs
    BY <1>1, <1>3 DEF FileOK, Profile, Session
  <2>2. LocalOK'
    BY <1>1, <1>3, <2>1, GotoLocal DEF LocalOK, PCs, LoginPCs
  <2>3. QED
    BY <2>2, Quiet DEF QueryIdentity
<1>4. QED
  BY <1>2, <1>3 DEF QueryIdentity

(* The session is labelled.                                                 *)
LEMMA RecordIdentityInv == ASSUME LInv, NEW p \in Procs, RecordIdentity(p) PROVE LInv'
<1>1. FileOK(profile) /\ ServerOK /\ LocalOK
  BY Parts
<1>2. seen[p] \in Procs \cup {NoProc}
  BY <1>1 DEF LocalOK
<1>3. FileOK(profile')
  BY <1>1, <1>2, SameBinding DEF RecordIdentity
<1>4. ServerOK' /\ LocalOK'
  BY <1>1, SameServer, EndLocal DEF RecordIdentity, Outcomes
<1>5. QED
  BY <1>3, <1>4, PartsNext

-----------------------------------------------------------------------------
(* The steps of a logout.                                                   *)

(* A logout starts from a snapshot.                                         *)
LEMMA LogoutStartInv == ASSUME LInv, NEW p \in Procs, LogoutStart(p) PROVE LInv'
<1>1. profile \in Profile
  BY DEF LInv, TypeOK
<1>2. QED
  BY <1>1, BeginInv DEF LogoutStart

(* A report is filled in field by field.                                    *)
LEMMA Reporting ==
  ASSUME LocalOK, NEW p \in Procs
  PROVE  /\ report[p] \in Reports
         /\ [report[p] EXCEPT !.revoked = TRUE] \in Reports
         /\ [report[p] EXCEPT !.deleted = TRUE] \in Reports
         /\ [report[p] EXCEPT !.retry = TRUE] \in Reports
         /\ [report[p] EXCEPT !.final = TRUE] \in Reports
         /\ \A r \in Reports : Reported(p, r) =>
              report' \in [Procs -> Reports] /\ UNCHANGED <<options, snap, login>>
<1>1. report \in [Procs -> Reports] /\ report[p] \in Reports
  BY DEF LocalOK
<1>2. /\ [report[p] EXCEPT !.revoked = TRUE] \in Reports
      /\ [report[p] EXCEPT !.deleted = TRUE] \in Reports
      /\ [report[p] EXCEPT !.retry = TRUE] \in Reports
      /\ [report[p] EXCEPT !.final = TRUE] \in Reports
  BY <1>1 DEF Reports
<1>3. \A r \in Reports : Reported(p, r) =>
        report' \in [Procs -> Reports] /\ UNCHANGED <<options, snap, login>>
  BY <1>1 DEF Reported
<1>4. QED
  BY <1>1, <1>2, <1>3

(* The tokens are revoked, or not.                                          *)
LEMMA RevokeInv == ASSUME LInv, NEW p \in Procs, Revoke(p) PROVE LInv'
<1>1. FileOK(profile) /\ ServerOK /\ LocalOK
  BY Parts
<1>2. ServerOK'
  BY <1>1 DEF Revoke, ServerOK
<1>3. report' \in [Procs -> Reports] /\ UNCHANGED <<options, snap, login>>
  BY <1>1, Reporting DEF Revoke
<1>4. LocalOK'
  BY <1>1, <1>3, GotoLocal DEF Revoke, login, LocalOK, PCs, LogoutPCs, LoginPCs
<1>5. QED
  BY <1>1, <1>2, <1>4, PartsNext DEF Revoke

(* The application is deleted, or not.                                      *)
LEMMA PurgeInv == ASSUME LInv, NEW p \in Procs, Purge(p) PROVE LInv'
<1>1. FileOK(profile) /\ ServerOK /\ LocalOK
  BY Parts
<1>2. ServerOK'
  BY <1>1 DEF Purge, ServerOK, Deleted, NotDeleted
<1>3. report' \in [Procs -> Reports] /\ UNCHANGED <<options, snap, login>>
  BY <1>1, Reporting DEF Purge
<1>4. LocalOK'
  BY <1>1, <1>3, GotoLocal DEF Purge, login, LocalOK, PCs, LogoutPCs, LoginPCs
<1>5. QED
  BY <1>1, <1>2, <1>4, PartsNext DEF Purge

(* Nothing is removed.                                                      *)
LEMMA KeepInv == ASSUME LInv, NEW p \in Procs, Keep(p) PROVE LInv'
  BY QuietEnd DEF Keep, Says, Outcomes

(* What the logout acted on is removed.                                     *)
LEMMA RemoveInv == ASSUME LInv, NEW p \in Procs, Remove(p) PROVE LInv'
<1>1. FileOK(profile) /\ ServerOK /\ LocalOK
  BY Parts
<1>3. ServerOK'
  BY <1>1, SameServer DEF Remove
<1>4. FileOK(profile')
  BY <1>1, Removal DEF Remove, Stored, StoreFailed
<1>5. LocalOK'
  BY <1>1, EndLocal DEF Remove, Says, Outcomes, Causes
<1>6. QED
  BY <1>3, <1>4, <1>5, PartsNext

-----------------------------------------------------------------------------
(* The other steps.                                                         *)

(* The prompt of set-key opens.                                             *)
LEMMA SetKeyStartInv == ASSUME LInv, NEW p \in Procs, SetKeyStart(p) PROVE LInv'
<1>1. EmptyProfile \in Profile
  BY EmptyFile DEF FileOK
<1>2. QED
  BY <1>1, BeginInv DEF SetKeyStart, KeyOptions

(* The key is stored if the profile is still of its instance, or nobody's.  *)
LEMMA StoreKeyInv == ASSUME LInv, NEW p \in Procs, StoreKey(p) PROVE LInv'
<1>1. FileOK(profile) /\ ServerOK /\ LocalOK /\ options[p].origin \in Origins
  BY Parts DEF StoreKey, LocalOK, OwnInstance
<1> DEFINE f == [profile EXCEPT !.origin = options[p].origin,
                                !.key = [origin |-> options[p].origin, owner |-> p]]
<1>2. Bindable(profile, options[p].origin) => FileOK(f)
  BY <1>1, BoundKey
<1>3. profile' = profile \/ (Bindable(profile, options[p].origin) /\ profile' = f)
  BY DEF StoreKey, Stored, StoreFailed
<1>4. FileOK(profile')
  BY <1>1, <1>2, <1>3
<1>5. ServerOK' /\ LocalOK'
  BY <1>1, SameServer, EndLocal DEF StoreKey, Outcomes, Causes
<1>6. QED
  BY <1>4, <1>5, PartsNext

(* The session is refreshed.                                                *)
LEMMA RefreshInv == ASSUME LInv, Refresh PROVE LInv'
<1>1. FileOK(profile) /\ ServerOK /\ LocalOK
  BY Parts
<1>2. lastToken + 1 \in Tokens /\ lastToken' \in 0 .. MaxTokens
  BY <1>1 DEF Refresh, ServerOK
<1>3. FileOK(profile')
  BY <1>1, <1>2, SameBinding DEF Refresh
<1>4. ServerOK'
  BY <1>1, <1>2 DEF Refresh, ServerOK
<1>5. OwnInstance'
  BY <1>1 DEF Refresh, login, LocalOK, OwnInstance
<1>6. LocalOK'
  BY <1>1, <1>5 DEF Refresh, login, LocalOK, Outcomes, Causes
<1>7. QED
  BY <1>3, <1>4, <1>6, PartsNext

(* A process dies, and with it a registration it did not record.            *)
LEMMA CrashInv == ASSUME LInv, NEW p \in Procs, Crash(p) PROVE LInv'
<1>1. FileOK(profile) /\ ServerOK /\ LocalOK
  BY Parts
<1>3. ServerOK'
  BY <1>1, SameServer DEF Crash
<1>4. LocalOK'
  BY <1>1, EndLocal DEF Crash, Outcomes, Causes
<1>5. QED
  BY <1>1, <1>3, <1>4, PartsNext DEF Crash

-----------------------------------------------------------------------------
(* The theorems.                                                            *)

(* The invariant holds of an empty profile, with nobody running.            *)
LEMMA InitInv == Init => LInv
<1> SUFFICES ASSUME Init PROVE LInv
  OBVIOUS
<1>1. FileOK(profile)
  BY EmptyFile DEF Init
<1>2. ServerOK
  BY DEF Init, ServerOK
<1>3. OwnInstance
  BY DEF Init, OwnInstance, LoginPCs
<1>4. LocalOK
  BY <1>1, <1>3 DEF Init, LocalOK, FileOK, PCs, Sources, Causes, Reports, NoReport, Outcomes
<1>5. QED
  BY <1>1, <1>2, <1>4, Parts

(* Every step preserves it.                                                 *)
LEMMA NextInv == LInv /\ [Next]_vars => LInv'
<1> SUFFICES ASSUME LInv, [Next]_vars PROVE LInv'
  OBVIOUS
<1>1. CASE UNCHANGED vars
  <2>1. LocalOK /\ FileOK(profile) /\ ServerOK
    BY Parts
  <2>2. OwnInstance'
    BY <1>1, <2>1 DEF vars, login, LocalOK, OwnInstance
  <2>3. LocalOK'
    BY <1>1, <2>1, <2>2 DEF vars, login, LocalOK
  <2>4. QED
    BY <1>1, <2>3, Quiet DEF vars
<1>2. ASSUME NEW p \in Procs, Login(p) PROVE LInv'
  BY <1>2, LoginStartInv, UseProvidedInv, UseCachedInv, PortUnavailableInv, RetireInv,
     RegisterInv, RecordInv, AuthorizeInv, LoginFailsInv, PersistInv, AbandonInv,
     QueryIdentityInv, RecordIdentityInv
  DEF Login
<1>3. ASSUME NEW p \in Procs, Logout(p) PROVE LInv'
  BY <1>3, LogoutStartInv, RevokeInv, PurgeInv, KeepInv, RemoveInv DEF Logout
<1>4. ASSUME NEW p \in Procs, SetKey(p) PROVE LInv'
  BY <1>4, SetKeyStartInv, StoreKeyInv DEF SetKey
<1>5. QED
  BY <1>1, <1>2, <1>3, <1>4, CrashInv, RefreshInv DEF Next

(* The invariant holds in every reachable state.                            *)
THEOREM Invariance == Spec => []LInv
<1>1. QED
  BY InitInv, NextInv, PTL DEF Spec

(* Every variable keeps its type.                                           *)
THEOREM TypeCorrect == Spec => []TypeOK
<1>1. LInv => TypeOK
  BY DEF LInv
<1>2. QED
  BY <1>1, Invariance, PTL

(* The session, the key and the client of a profile are all of the instance *)
(* it is bound to, whatever logins, logouts, set-keys and refreshes run at  *)
(* once, fail or die (ensure_bindable, persist_session, remove_locally).    *)
THEOREM ProfileOfOneInstance == Spec => []OneInstance
<1>1. LInv => OneInstance
  BY DEF LInv
<1>2. QED
  BY <1>1, Invariance, PTL

-----------------------------------------------------------------------------
(* The parts of the invariant.                                              *)

(* A session is the one the process signed in with: no two are the same.    *)
Sessions ==
  /\ profile.oauth # NoSession =>
       /\ profile.oauth.token <= lastToken
       /\ profile.oauth.account \in {NoProc, profile.oauth.owner}
  /\ \A p \in Procs :
       /\ session[p] # NoSession =>
            /\ session[p].token <= lastToken
            /\ session[p].owner = p
            /\ session[p].account = NoProc
            /\ profile.oauth # NoSession /\ profile.oauth.token = session[p].token =>
                 profile.oauth.owner = p
            /\ \A q \in Procs \ {p} :
                 session[q] # NoSession => session[q].token # session[p].token
       /\ pc[p] \in {"identity", "label"} => session[p] # NoSession
       /\ pc[p] = "label" /\ profile.oauth # NoSession /\ profile.oauth.token = session[p].token =>
            seen[p] = p

(* What a logout has been told of its session.                              *)
Told ==
  \A p \in Procs :
    /\ snap[p].oauth # NoSession => snap[p].oauth.token <= lastToken
    /\ report[p].revoked =>
         /\ pc[p] \in {"purge", "remove"}
         /\ snap[p].oauth # NoSession /\ snap[p].oauth.token \notin live
    /\ pc[p] \in {"purge", "remove"} /\ snap[p].oauth # NoSession =>
         report[p].revoked \/ report[p].final \/ report[p].retry
    /\ pc[p] = "revoke" => snap[p].oauth # NoSession

(* A registration has the number of its application, or is the administrator's.*)
Numbered(c, last) ==
  c # NoClient => IF c.dynamic THEN c.id <= last ELSE c.id = AdminClient

\* So has the client of a login, once the server has accepted it: --client-id
\* names any.
HasNumber(p) ==
  mine[p] # NoClient =>
    IF mine[p].dynamic THEN mine[p].id <= lastApp
                       ELSE pc[p] = "browser" \/ mine[p].id = AdminClient

Numbering ==
  /\ \A a \in apps : a <= lastApp
  /\ Numbered(profile.client, lastApp)
  /\ \A p \in Procs : Numbered(snap[p].client, lastApp) /\ HasNumber(p)
  /\ \A p \in Procs : report[p].deleted =>
       /\ pc[p] = "remove"
       /\ snap[p].client # NoClient /\ snap[p].client.dynamic
       /\ snap[p].client.id \notin apps

-----------------------------------------------------------------------------
(* Sessions.                                                                *)

(* What a write into the profile leaves as it was.                          *)
LEMMA Written ==
  ASSUME LInv, NEW o, NEW v, NEW w
  PROVE  /\ [profile EXCEPT !.origin = o, !.client = v].oauth = profile.oauth
         /\ [profile EXCEPT !.origin = o, !.client = v].client = v
         /\ [profile EXCEPT !.origin = o, !.client = v, !.oauth = w].oauth = w
         /\ [profile EXCEPT !.origin = o, !.client = v, !.oauth = w].client = v
         /\ [profile EXCEPT !.origin = o, !.key = v].oauth = profile.oauth
         /\ [profile EXCEPT !.origin = o, !.key = v].client = profile.client
  BY DEF LInv, TypeOK, Profile

(* The file keeps its session, loses it, or is given that of a login, whose *)
(* process then asks who it is.                                             *)
LEMMA SessionsMove ==
  ASSUME LInv, Sessions, NEW p \in Procs, lastToken' = lastToken,
         \/ profile'.oauth \in {profile.oauth, NoSession}
         \/ session[p] # NoSession /\ profile'.oauth = session[p],
         \A q \in Procs \ {p} :
           session'[q] = session[q] /\ pc'[q] = pc[q] /\ seen'[q] = seen[q],
         session'[p] \in {session[p], NoSession},
         pc'[p] = "identity" => session'[p] # NoSession,
         pc'[p] # "label"
  PROVE  Sessions'
  BY DEF Sessions, LInv, TypeOK, Session

(* A transaction of a login keeps the session in the file or replaces it.   *)
LEMMA SessionsStore ==
  ASSUME LInv, Sessions, NEW p \in Procs, NEW f, NEW next \in {"browser", "identity"},
         LoginStores(p, f, next),
         f.oauth = profile.oauth \/ (session[p] # NoSession /\ f.oauth = session[p]),
         next = "identity" => session[p] # NoSession
  PROVE  Sessions'
<1>1. CASE Stored(f) /\ Goto(p, next) /\ UNCHANGED <<options, snap, login, report>>
  BY <1>1, SessionsMove DEF LoginStores, Stored, Goto, server, login, LInv, TypeOK
<1>2. ASSUME NEW why, Abandoned(p, why), profile' \in {profile, f} PROVE Sessions'
  BY <1>2, SessionsMove DEF LoginStores, Abandoned, Goto, End, server, LInv, TypeOK
<1> QED
  BY <1>1, <1>2 DEF LoginStores, StoreFailed

(* Recording the client leaves the session alone.                           *)
LEMMA SessionsRecord == ASSUME LInv, Sessions, NEW p \in Procs, Record(p) PROVE Sessions'
<1> DEFINE f == [profile EXCEPT !.origin = options[p].origin, !.client = mine[p]]
<1>1. f.oauth = profile.oauth
  BY Written
<1>2. LoginStores(p, f, "browser")
  BY DEF Record
<1> QED
  BY <1>1, <1>2, SessionsStore

(* A login stores the session of its own authorization.                     *)
LEMMA SessionsPersist == ASSUME LInv, Sessions, NEW p \in Procs, Persist(p) PROVE Sessions'
<1> DEFINE f == [profile EXCEPT !.origin = options[p].origin, !.client = mine[p],
                                !.oauth = session[p]]
<1>1. f.oauth = session[p]
  BY Written
<1>2. LoginStores(p, f, "identity") /\ session[p] # NoSession
  BY DEF Persist, LInv, OwnInstance
<1> QED
  BY <1>1, <1>2, SessionsStore

(* auth set-key leaves the session alone.                                   *)
LEMMA SessionsStoreKey == ASSUME LInv, Sessions, NEW p \in Procs, StoreKey(p) PROVE Sessions'
<1> DEFINE f == [profile EXCEPT !.origin = options[p].origin,
                                !.key = [origin |-> options[p].origin, owner |-> p]]
<1>1. f.oauth = profile.oauth
  BY Written
<1>2. profile' \in {profile, f}
  BY DEF StoreKey, Stored, StoreFailed
<1>3. profile'.oauth = profile.oauth
  BY <1>1, <1>2
<1> QED
  BY <1>3, SessionsMove DEF StoreKey, End, server, LInv, TypeOK

(* The server grants a token that no session has.                           *)
LEMMA SessionsAuthorize == ASSUME LInv, Sessions, NEW p \in Procs, Authorize(p) PROVE Sessions'
<1> DEFINE s == [token |-> lastToken + 1, origin |-> options[p].origin,
                 owner |-> p, account |-> NoProc]
<1>1. /\ lastToken' = lastToken + 1 /\ profile' = profile /\ seen' = seen
      /\ session' = [session EXCEPT ![p] = s] /\ pc' = [pc EXCEPT ![p] = "persist"]
  BY DEF Authorize, Goto
<1>2. s.token = lastToken + 1 /\ s.owner = p /\ s.account = NoProc
  OBVIOUS
<1>3. lastToken \in Nat /\ \A q \in Procs : session[q] \in Session \cup {NoSession}
  BY DEF LInv, TypeOK
<1>4. profile.oauth # NoSession => profile.oauth.token \in Nat
  BY DEF LInv, TypeOK, Profile, Session
<1>5. \A q \in Procs : session[q] # NoSession => session[q].token \in Nat
  BY <1>3 DEF Session
<1> HIDE DEF s
<1>6. session'[p] = s /\ \A q \in Procs \ {p} : session'[q] = session[q]
  BY <1>1 DEF LInv, TypeOK
<1>7. pc'[p] = "persist" /\ \A q \in Procs \ {p} : pc'[q] = pc[q]
  BY <1>1 DEF LInv, TypeOK
<1> QED
  BY <1>1, <1>2, <1>3, <1>4, <1>5, <1>6, <1>7 DEF Sessions

(* A refresh gives the stored session a token of its own.                   *)
LEMMA SessionsRefresh == ASSUME LInv, Sessions, Refresh PROVE Sessions'
<1>1. /\ profile'.oauth.token = lastToken + 1
      /\ profile'.oauth.owner = profile.oauth.owner
      /\ profile'.oauth.account = profile.oauth.account
      /\ profile.oauth # NoSession
  BY DEF Refresh, LInv, TypeOK, Profile, Session
<1>2. lastToken' = lastToken + 1 /\ UNCHANGED <<session, pc, seen>>
  BY DEF Refresh, login
<1>3. lastToken \in Nat /\ \A q \in Procs : session[q] # NoSession => session[q].token \in Nat
  BY DEF LInv, TypeOK, Session
<1> QED
  BY <1>1, <1>2, <1>3 DEF Sessions

(* Only the session this login stored is labelled.                          *)
LEMMA SessionsRecordIdentity ==
  ASSUME LInv, Sessions, NEW p \in Procs, RecordIdentity(p) PROVE Sessions'
<1>1. CASE profile' = profile
  BY <1>1, SessionsMove DEF RecordIdentity, End, server, LInv, TypeOK
<1>2. CASE /\ profile.oauth # NoSession /\ profile.oauth.token = session[p].token
           /\ profile' = [profile EXCEPT !.oauth.account = seen[p]]
  <2>1. /\ profile'.oauth.token = profile.oauth.token
        /\ profile'.oauth.owner = profile.oauth.owner
        /\ profile'.oauth.account = seen[p]
    BY <1>2 DEF LInv, TypeOK, Profile, Session
  <2>2. seen[p] = p /\ profile.oauth.owner = p
    BY <1>2 DEF Sessions, RecordIdentity
  <2>3. /\ lastToken' = lastToken /\ pc'[p] = "off" /\ session'[p] = NoSession
        /\ \A q \in Procs \ {p} :
             session'[q] = session[q] /\ pc'[q] = pc[q] /\ seen'[q] = seen[q]
    BY DEF RecordIdentity, End, server, LInv, TypeOK
  <2> QED
    BY <1>2, <2>1, <2>2, <2>3 DEF Sessions
<1> QED
  BY <1>1, <1>2 DEF RecordIdentity

-----------------------------------------------------------------------------
(* What a logout was told.                                                  *)

(* What another process has been told stays so, since no token is issued    *)
(* twice: it is about the process that moves.                               *)
LEMMA ToldMove ==
  ASSUME LInv, Told, NEW p \in Procs, lastToken' \in Nat, lastToken <= lastToken',
         \A t \in live' : t \in live \/ t > lastToken,
         \A q \in Procs \ {p} :
           snap'[q] = snap[q] /\ pc'[q] = pc[q] /\ report'[q] = report[q],
         snap'[p].oauth # NoSession => snap'[p].oauth.token <= lastToken',
         report'[p].revoked =>
           /\ pc'[p] \in {"purge", "remove"}
           /\ snap'[p].oauth # NoSession /\ snap'[p].oauth.token \notin live',
         pc'[p] \in {"purge", "remove"} /\ snap'[p].oauth # NoSession =>
           report'[p].revoked \/ report'[p].final \/ report'[p].retry,
         pc'[p] = "revoke" => snap'[p].oauth # NoSession
  PROVE  Told'
<1>1. lastToken \in Nat
  BY DEF LInv, TypeOK
<1>2. \A q \in Procs : snap[q].oauth # NoSession => snap[q].oauth.token \in Nat
  BY DEF LInv, TypeOK, Profile, Session
<1> QED
  BY <1>1, <1>2 DEF Told

(* The token of a new sign-in is later than every one remembered.           *)
LEMMA ToldAuthorize == ASSUME LInv, Told, NEW p \in Procs, Authorize(p) PROVE Told'
<1>1. lastToken' = lastToken + 1 /\ lastToken \in Nat /\ live' = live \cup {lastToken + 1}
  BY DEF Authorize, LInv, TypeOK
<1>2. pc' = [pc EXCEPT ![p] = "persist"] /\ snap' = snap /\ report' = report
  BY DEF Authorize, Goto
<1>3. pc[p] = "browser" /\ pc'[p] = "persist" /\ \A q \in Procs \ {p} : pc'[q] = pc[q]
  BY <1>2 DEF Authorize, LInv, TypeOK
<1>4. snap[p].oauth # NoSession => snap[p].oauth.token <= lastToken /\ snap[p].oauth.token \in Nat
  BY DEF Told, LInv, TypeOK, Profile, Session
<1> QED
  BY <1>1, <1>2, <1>3, <1>4, ToldMove DEF Told

(* So is the token of a refresh.                                            *)
LEMMA ToldRefresh == ASSUME LInv, Told, Refresh PROVE Told'
<1>1. /\ lastToken' = lastToken + 1 /\ lastToken \in Nat
      /\ live' \subseteq live \cup {lastToken + 1}
      /\ UNCHANGED <<pc, snap, report>>
  BY DEF Refresh, LInv, TypeOK
<1>2. \A q \in Procs : snap[q].oauth # NoSession => snap[q].oauth.token \in Nat
  BY DEF LInv, TypeOK, Profile, Session
<1> QED
  BY <1>1, <1>2 DEF Told

(* A command begins with what it read, and nothing reported.                *)
LEMMA ToldBegin ==
  ASSUME LInv, Told, NEW p \in Procs, NEW command, NEW opts, NEW read, NEW where,
         Begin(p, command, opts, read, where),
         read.oauth # NoSession => read.oauth.token <= lastToken,
         where = "revoke" => read.oauth # NoSession,
         where = "purge" => read.oauth = NoSession,
         where # "remove"
  PROVE  Told'
<1>1. /\ pc[p] = "off" /\ pc'[p] = where /\ snap'[p] = read /\ report' = report
      /\ \A q \in Procs \ {p} : pc'[q] = pc[q] /\ snap'[q] = snap[q]
      /\ live' = live /\ lastToken' = lastToken /\ lastToken \in Nat
  BY DEF Begin, Goto, server, LInv, TypeOK
<1>2. ~ report[p].revoked
  BY <1>1 DEF Told
<1> QED
  BY <1>1, <1>2, ToldMove

(* So a login does.                                                         *)
LEMMA ToldLoginStart == ASSUME LInv, Sessions, Told, NEW p \in Procs, LoginStart(p) PROVE Told'
  BY ToldBegin DEF LoginStart, Sessions

(* A logout remembers the session it will revoke.                           *)
LEMMA ToldLogoutStart == ASSUME LInv, Sessions, Told, NEW p \in Procs, LogoutStart(p) PROVE Told'
  BY ToldBegin DEF LogoutStart, Sessions

(* What the server answers to the revocation is what is remembered of it.   *)
LEMMA ToldRevoke == ASSUME LInv, Told, NEW p \in Procs, Revoke(p) PROVE Told'
<1>1. /\ pc[p] = "revoke" /\ pc'[p] = "purge" /\ snap' = snap
      /\ \A q \in Procs \ {p} : pc'[q] = pc[q] /\ report'[q] = report[q]
      /\ live' \subseteq live /\ lastToken' = lastToken /\ lastToken \in Nat
  BY DEF Revoke, Goto, Reported, LInv, TypeOK
<1>2. /\ \/ report'[p].revoked /\ snap[p].oauth.token \notin live'
         \/ ~ report'[p].revoked
      /\ report'[p].revoked \/ report'[p].final \/ report'[p].retry
  <2>1. report[p] \in Reports
    BY DEF LInv, TypeOK
  <2>2. ~ report[p].revoked
    BY <1>1 DEF Told
  <2> QED
    BY <1>1, <2>1, <2>2 DEF Revoke, Reported, Reports, LInv, TypeOK
<1>3. snap[p].oauth # NoSession /\ snap[p].oauth.token <= lastToken
  BY <1>1 DEF Told
<1> QED
  BY <1>1, <1>2, <1>3, ToldMove

(* The file is emptied of the session the report is about.                  *)
LEMMA ToldPurge == ASSUME LInv, Told, NEW p \in Procs, Purge(p) PROVE Told'
<1>1. /\ pc[p] = "purge" /\ pc'[p] = "remove" /\ snap' = snap
      /\ \A q \in Procs \ {p} : pc'[q] = pc[q] /\ report'[q] = report[q]
      /\ live' = live /\ lastToken' = lastToken /\ lastToken \in Nat
  BY DEF Purge, Goto, Reported, LInv, TypeOK
<1>2. /\ report'[p].revoked = report[p].revoked
      /\ report'[p].final = report[p].final
      /\ report[p].retry => report'[p].retry
  BY DEF Purge, Reported, LInv, TypeOK, Reports
<1> QED
  BY <1>1, <1>2, ToldMove DEF Told

-----------------------------------------------------------------------------
(* The numbers of applications.                                             *)

(* A process that takes a client over, or is over.                          *)
LEMMA NumberingMove ==
  ASSUME LInv, Numbering, NEW p \in Procs,
         lastApp' \in Nat, lastApp <= lastApp',
         \A a \in apps' : a \in apps \/ (a > lastApp /\ a <= lastApp'),
         \/ profile'.client \in {profile.client, NoClient}
         \/ profile'.client = mine[p] /\ pc[p] # "browser",
         \A q \in Procs \ {p} :
           snap'[q] = snap[q] /\ mine'[q] = mine[q] /\ pc'[q] = pc[q] /\ report'[q] = report[q],
         snap'[p].client = NoClient,
         HasNumber(p)',
         ~ report'[p].deleted
  PROVE  Numbering'
<1>1. lastApp \in Nat /\ apps \subseteq Apps
  BY DEF LInv, TypeOK
<1>2. \A c \in Registration \cup {NoClient} : Numbered(c, lastApp) => Numbered(c, lastApp')
  BY <1>1 DEF Numbered, Registration
<1>3. /\ profile.client \in Registration \cup {NoClient}
      /\ \A q \in Procs : /\ snap[q].client \in Registration \cup {NoClient}
                          /\ mine[q] \in Registration \cup {NoClient}
  BY DEF LInv, TypeOK, Profile
<1>4. Numbered(NoClient, lastApp')
  BY DEF Numbered
<1>5. Numbered(profile'.client, lastApp')
  <2>1. CASE profile'.client \in {profile.client, NoClient}
    BY <1>2, <1>3, <1>4, <2>1 DEF Numbering
  <2>2. CASE profile'.client = mine[p] /\ pc[p] # "browser"
    <3>1. Numbered(mine[p], lastApp)
      BY <2>2 DEF Numbering, HasNumber, Numbered
    <3> QED
      BY <1>2, <1>3, <2>2, <3>1
  <2> QED
    BY <2>1, <2>2
<1>6. \A q \in Procs : Numbered(snap'[q].client, lastApp') /\ HasNumber(q)'
  <2>1. ASSUME NEW q \in Procs \ {p} PROVE HasNumber(q)'
    <3>1. mine'[q] = mine[q] /\ pc'[q] = pc[q] /\ HasNumber(q)
      BY DEF Numbering
    <3>2. mine[q] # NoClient /\ mine[q].dynamic => mine[q].id \in Nat
      BY <1>3 DEF Registration
    <3> QED
      BY <1>1, <3>1, <3>2 DEF HasNumber
  <2>2. \A q \in Procs : Numbered(snap'[q].client, lastApp')
    BY <1>2, <1>3, <1>4 DEF Numbering
  <2> QED
    BY <2>1, <2>2
<1>7. ASSUME NEW a \in apps' PROVE a <= lastApp'
  <2>1. CASE a \in apps
    <3>1. a <= lastApp /\ a \in Nat
      BY <1>1, <2>1 DEF Numbering
    <3> QED
      BY <1>1, <3>1
  <2> QED
    BY <2>1
<1>8. ASSUME NEW q \in Procs, report'[q].deleted
      PROVE  /\ pc'[q] = "remove"
             /\ snap'[q].client # NoClient /\ snap'[q].client.dynamic
             /\ snap'[q].client.id \notin apps'
  <2>1. q # p /\ report[q].deleted
    BY <1>8
  <2>2. /\ snap[q].client # NoClient /\ snap[q].client.dynamic
        /\ snap[q].client.id \notin apps /\ pc[q] = "remove"
    BY <2>1 DEF Numbering
  <2>3. snap[q].client.id <= lastApp /\ snap[q].client.id \in Nat
    BY <2>2, <1>3 DEF Numbering, Numbered, Registration
  <2> QED
    BY <1>1, <2>1, <2>2, <2>3
<1> QED
  BY <1>5, <1>6, <1>7, <1>8 DEF Numbering

(* A client that was given on the command line has any number, until the    *)
(* server has seen it.                                                      *)
LEMMA NumberingUseProvided ==
  ASSUME LInv, Numbering, NEW p \in Procs, UseProvided(p)
  PROVE  Numbering'
<1>1. /\ UNCHANGED <<profile, apps, lastApp, report>> /\ snap'[p].client = NoClient
      /\ mine'[p] = Administered(options[p].clientId, options[p].origin)
      /\ pc[p] = "client" /\ pc'[p] = "browser"
      /\ \A q \in Procs \ {p} : snap'[q] = snap[q] /\ mine'[q] = mine[q] /\ pc'[q] = pc[q]
  BY DEF UseProvided, Acquired, Goto, server, EmptyProfile, LInv, TypeOK
<1>2. ~ mine'[p].dynamic
  BY <1>1 DEF Administered
<1>3. HasNumber(p)'
  BY <1>1, <1>2 DEF HasNumber
<1>4. ~ report'[p].deleted /\ lastApp \in Nat
  BY <1>1 DEF Numbering, LInv, TypeOK
<1> QED
  BY <1>1, <1>3, <1>4, NumberingMove

(* The server takes one of its own registrations, or a client that has no   *)
(* number.                                                                  *)
LEMMA NumberingAuthorize ==
  ASSUME LInv, Numbering, NEW p \in Procs, Authorize(p)
  PROVE  Numbering'
<1>1. /\ UNCHANGED <<profile, apps, lastApp, snap, mine, report>>
      /\ pc[p] = "browser" /\ pc'[p] = "persist"
      /\ \A q \in Procs \ {p} : pc'[q] = pc[q]
  BY DEF Authorize, Goto, LInv, TypeOK
<1>2. mine[p] # NoClient => mine[p].dynamic \/ mine[p].id = AdminClient
  BY DEF Authorize, Accepts, LInv, TypeOK, Registration
<1>3. HasNumber(p)'
  BY <1>1, <1>2 DEF HasNumber, Numbering
<1>4. \A q \in Procs \ {p} : HasNumber(q)'
  BY <1>1 DEF HasNumber, Numbering
<1>5. ~ report[p].deleted
  BY <1>1 DEF Numbering
<1> QED
  BY <1>1, <1>3, <1>4, <1>5 DEF Numbering

(* A registration has a number of its own.                                  *)
LEMMA NumberingRegister ==
  ASSUME LInv, Numbering, NEW p \in Procs, Register(p) PROVE Numbering'
<1>1. /\ UNCHANGED profile /\ snap'[p].client = NoClient
      /\ lastApp \in Nat /\ lastApp' = lastApp + 1 /\ apps' = apps \cup {lastApp + 1}
      /\ pc[p] \in {"client", "register"}
      /\ \A q \in Procs \ {p} :
           snap'[q] = snap[q] /\ mine'[q] = mine[q] /\ pc'[q] = pc[q] /\ report'[q] = report[q]
  BY DEF Register, Acquires, Acquired, End, Goto, EmptyProfile, LInv, TypeOK
<1>2. mine'[p] = NoClient \/ (mine'[p].dynamic /\ mine'[p].id = lastApp')
  BY DEF Register, Acquires, Acquired, End, LInv, TypeOK
<1>3. HasNumber(p)'
  BY <1>1, <1>2 DEF HasNumber
<1>4. ~ report'[p].deleted
  BY <1>1 DEF Register, End, NoReport, Numbering, LInv, TypeOK
<1> QED
  BY <1>1, <1>3, <1>4, NumberingMove

(* A transaction of a login records the client it signs in with.            *)
LEMMA NumberingStore ==
  ASSUME LInv, Numbering, NEW p \in Procs, NEW f, NEW next \in {"browser", "identity"},
         pc[p] \in {"record", "persist"}, LoginStores(p, f, next), f.client = mine[p]
  PROVE  Numbering'
<1>1. /\ UNCHANGED <<apps, lastApp>> /\ lastApp \in Nat
      /\ profile' \in {profile, f}
  BY DEF LoginStores, Stored, StoreFailed, server, LInv, TypeOK
<1>2. (Goto(p, next) \/ Goto(p, "abandon")) /\ UNCHANGED <<snap, mine, report>> => Numbering'
  <2> SUFFICES ASSUME Goto(p, next) \/ Goto(p, "abandon"), UNCHANGED <<snap, mine, report>>
               PROVE  Numbering'
    OBVIOUS
  <2>1. /\ pc'[p] \in {"browser", "identity", "abandon"}
        /\ \A q \in Procs \ {p} : pc'[q] = pc[q]
    BY DEF Goto, LInv, TypeOK
  <2>2. Numbered(mine[p], lastApp) /\ ~ report[p].deleted
    BY DEF Numbering, HasNumber, Numbered
  <2>3. Numbered(profile'.client, lastApp')
    BY <1>1, <2>2 DEF Numbering
  <2>4. \A q \in Procs : HasNumber(q)'
    BY <1>1, <2>1, <2>2 DEF Numbering, HasNumber, Numbered
  <2> QED
    BY <1>1, <2>1, <2>2, <2>3, <2>4 DEF Numbering
<1>3. ASSUME NEW why, End(p, why) PROVE Numbering'
  <2>1. /\ snap'[p].client = NoClient /\ mine'[p] = NoClient /\ ~ report'[p].deleted
        /\ \A q \in Procs \ {p} :
           snap'[q] = snap[q] /\ mine'[q] = mine[q] /\ pc'[q] = pc[q] /\ report'[q] = report[q]
    BY <1>3 DEF End, NoReport, EmptyProfile, LInv, TypeOK
  <2>2. HasNumber(p)'
    BY <2>1 DEF HasNumber
  <2> QED
    BY <1>1, <2>1, <2>2, NumberingMove
<1> QED
  BY <1>2, <1>3 DEF LoginStores, Abandoned, login

(* Recording a client keeps its number below the last one.                  *)
LEMMA NumberingRecord ==
  ASSUME LInv, Numbering, NEW p \in Procs, Record(p) PROVE Numbering'
<1> DEFINE f == [profile EXCEPT !.origin = options[p].origin, !.client = mine[p]]
<1>1. f.client = mine[p]
  BY Written
<1>2. LoginStores(p, f, "browser") /\ pc[p] = "record"
  BY DEF Record
<1> QED
  BY <1>1, <1>2, NumberingStore

(* So does storing the session obtained with it.                            *)
LEMMA NumberingPersist ==
  ASSUME LInv, Numbering, NEW p \in Procs, Persist(p) PROVE Numbering'
<1> DEFINE f == [profile EXCEPT !.origin = options[p].origin, !.client = mine[p],
                                !.oauth = session[p]]
<1>1. f.client = mine[p]
  BY Written
<1>2. LoginStores(p, f, "identity") /\ pc[p] = "persist"
  BY DEF Persist
<1> QED
  BY <1>1, <1>2, NumberingStore

(* A command that ends, and leaves the client in the file as it is.         *)
LEMMA NumberingEnd ==
  ASSUME LInv, Numbering, NEW p \in Procs, NEW why, End(p, why),
         lastApp' = lastApp, apps' \subseteq apps, profile'.client = profile.client
  PROVE  Numbering'
<1>1. /\ snap'[p].client = NoClient /\ mine'[p] = NoClient /\ ~ report'[p].deleted
      /\ \A q \in Procs \ {p} :
           snap'[q] = snap[q] /\ mine'[q] = mine[q] /\ pc'[q] = pc[q] /\ report'[q] = report[q]
  BY DEF End, NoReport, EmptyProfile, LInv, TypeOK
<1>2. HasNumber(p)' /\ lastApp \in Nat
  BY <1>1 DEF HasNumber, LInv, TypeOK
<1> QED
  BY <1>1, <1>2, NumberingMove

(* A command that goes on with what it has.                                 *)
LEMMA NumberingStay ==
  ASSUME LInv, Numbering, NEW p \in Procs, UNCHANGED <<profile, lastApp, snap, mine>>,
         apps' \subseteq apps, pc[p] # "browser",
         \A q \in Procs \ {p} : pc'[q] = pc[q] /\ report'[q] = report[q],
         report'[p].deleted =>
           /\ pc'[p] = "remove"
           /\ snap[p].client # NoClient /\ snap[p].client.dynamic
           /\ snap[p].client.id \notin apps'
  PROVE  Numbering'
<1>1. \A q \in Procs : HasNumber(q)'
  BY DEF Numbering, HasNumber
<1> QED
  BY <1>1 DEF Numbering

(* Retiring a registration at most takes it off the server.                 *)
LEMMA NumberingRetire ==
  ASSUME LInv, Numbering, NEW p \in Procs, Retire(p) PROVE Numbering'
<1>1. UNCHANGED <<profile, lastApp>> /\ apps' \subseteq apps /\ pc[p] = "retire"
  BY DEF Retire, Deleted, NotDeleted
<1>2. CASE Goto(p, "register") /\ UNCHANGED <<options, snap, login, report>>
  <2>1. /\ UNCHANGED <<snap, mine, report>> /\ ~ report[p].deleted
        /\ \A q \in Procs \ {p} : pc'[q] = pc[q]
    BY <1>1, <1>2 DEF Goto, login, Numbering, LInv, TypeOK
  <2> QED
    BY <1>1, <2>1, NumberingStay
<1>3. CASE End(p, "failed")
  BY <1>1, <1>3, NumberingEnd
<1> QED
  BY <1>2, <1>3 DEF Retire

(* So does giving up a registration.                                        *)
LEMMA NumberingAbandon ==
  ASSUME LInv, Numbering, NEW p \in Procs, Abandon(p) PROVE Numbering'
<1>1. /\ UNCHANGED <<profile, lastApp>> /\ apps' \subseteq apps
      /\ \E why : End(p, why)
  BY DEF Abandon, Deleted, NotDeleted
<1> QED
  BY <1>1, NumberingEnd

(* Labelling the session changes no client.                                 *)
LEMMA NumberingRecordIdentity ==
  ASSUME LInv, Numbering, NEW p \in Procs, RecordIdentity(p) PROVE Numbering'
<1>1. profile'.client = profile.client
  BY DEF RecordIdentity, LInv, TypeOK, Profile
<1> QED
  BY <1>1, NumberingEnd DEF RecordIdentity, server

(* Nor does storing a key.                                                  *)
LEMMA NumberingStoreKey ==
  ASSUME LInv, Numbering, NEW p \in Procs, StoreKey(p) PROVE Numbering'
<1> DEFINE f == [profile EXCEPT !.origin = options[p].origin,
                                !.key = [origin |-> options[p].origin, owner |-> p]]
<1>1. f.client = profile.client
  BY Written
<1>2. profile' \in {profile, f}
  BY DEF StoreKey, Stored, StoreFailed
<1>3. profile'.client = profile.client
  BY <1>1, <1>2
<1> QED
  BY <1>3, NumberingEnd DEF StoreKey, server

(* Nor does a revocation.                                                   *)
LEMMA NumberingRevoke ==
  ASSUME LInv, Numbering, NEW p \in Procs, Revoke(p) PROVE Numbering'
<1>1. /\ UNCHANGED <<profile, lastApp, apps, snap, mine>> /\ pc[p] = "revoke"
      /\ \A q \in Procs \ {p} : pc'[q] = pc[q] /\ report'[q] = report[q]
  BY DEF Revoke, Reported, Goto, login, LInv, TypeOK
<1>2. report'[p].deleted = report[p].deleted
  BY DEF Revoke, Reported, LInv, TypeOK, Reports
<1>3. ~ report[p].deleted
  BY <1>1 DEF Numbering
<1> QED
  BY <1>1, <1>2, <1>3, NumberingStay

(* A purge reports a deletion only when the server has forgotten the client.*)
LEMMA NumberingPurge ==
  ASSUME LInv, Numbering, NEW p \in Procs, Purge(p) PROVE Numbering'
<1>1. /\ UNCHANGED <<profile, lastApp, snap, mine>> /\ pc[p] = "purge" /\ pc'[p] = "remove"
      /\ apps' \subseteq apps
      /\ \A q \in Procs \ {p} : pc'[q] = pc[q] /\ report'[q] = report[q]
  BY DEF Purge, Deleted, NotDeleted, Reported, Goto, login, LInv, TypeOK
<1>2. ~ report[p].deleted
  BY <1>1 DEF Numbering
<1>3. \/ report'[p].deleted = report[p].deleted
      \/ Purges(p) /\ Deleted(snap[p].client)
  BY DEF Purge, Reported, LInv, TypeOK, Reports
<1> QED
  BY <1>1, <1>2, <1>3, NumberingStay DEF Purges, Deleted

-----------------------------------------------------------------------------
(* No orphan.                                                               *)

\* Application a is still in somebody's hands, or its loss is one of those
\* the property names.
Accounted(a) ==
  Kept(a)' \/ Named(a) \/ \E p \in Procs : pc'[p] = "off" /\ Silent(p, a)

Safe == \A a \in apps' : (Kept(a) \/ a \notin apps) => Accounted(a)

(* What has to be seen to when p moves: an application it registers, the    *)
(* one it was about to record or to delete, and the one the file loses.     *)
LEMMA OrphanMove ==
  ASSUME NEW p \in Procs,
         \A q \in Procs \ {p} : pc'[q] = pc[q] /\ mine'[q] = mine[q],
         \A a \in apps' \ apps : Accounted(a),
         \A a \in apps' : pc[p] \in {"record", "abandon"} /\ mine[p].id = a => Accounted(a),
         \A a \in apps' : OnFile(a) => OnFile(a)' \/ Accounted(a)
  PROVE  Safe
<1>1. ASSUME NEW a \in apps', Kept(a) PROVE Accounted(a)
  <2>1. CASE OnFile(a)
    BY <2>1 DEF Accounted, Kept
  <2>2. ASSUME NEW q \in Procs, pc[q] \in {"record", "abandon"}, mine[q].id = a
        PROVE  Accounted(a)
    <3>1. CASE q = p
      BY <2>2, <3>1
    <3>2. CASE q # p
      BY <2>2, <3>2 DEF Accounted, Kept
    <3> QED
      BY <3>1, <3>2
  <2> QED
    BY <1>1, <2>1, <2>2 DEF Kept
<1> QED
  BY <1>1 DEF Safe

(* A step that leaves the client in the file alone, and takes nothing that  *)
(* is to be recorded or deleted from any process.                           *)
LEMMA OrphanQuiet ==
  ASSUME apps' \subseteq apps, profile'.client = profile.client,
         \A q \in Procs : pc[q] \in {"record", "abandon"} => pc'[q] = pc[q] /\ mine'[q] = mine[q]
  PROVE  Safe
<1>1. ASSUME NEW a \in apps', Kept(a) PROVE Kept(a)'
  BY <1>1 DEF Kept, OnFile
<1> QED
  BY <1>1 DEF Safe, Accounted

(* A process that was neither to record nor to delete anything moves.       *)
LEMMA OrphanOther ==
  ASSUME NEW p \in Procs, apps' \subseteq apps, profile'.client = profile.client,
         pc[p] \notin {"record", "abandon"},
         \A q \in Procs \ {p} : pc'[q] = pc[q] /\ mine'[q] = mine[q]
  PROVE  Safe
  BY OrphanQuiet

(* A new registration is known to the login that made it, or the answer     *)
(* cannot be used and the command ends.                                     *)
LEMMA NoOrphanRegister == ASSUME LInv, NEW p \in Procs, Register(p) PROVE Safe
<1>1. /\ pc[p] \in {"client", "register"} /\ UNCHANGED profile
      /\ apps' = apps \cup {lastApp'}
  BY DEF Register, Acquires
<1>2. \A q \in Procs \ {p} : pc'[q] = pc[q] /\ mine'[q] = mine[q]
  BY DEF Register, Acquired, Goto, End, LInv, TypeOK
<1>3. pc'[p] = "off" \/ (pc'[p] = "record" /\ mine'[p].id = lastApp')
  BY DEF Register, Acquired, Goto, End, LInv, TypeOK
<1>4. ASSUME NEW a \in apps' \ apps PROVE Accounted(a)
  <2>1. CASE pc'[p] = "off"
    BY <1>1, <1>4, <2>1 DEF Accounted, Silent
  <2>2. CASE pc'[p] = "record" /\ mine'[p].id = lastApp'
    BY <1>1, <1>4, <2>2 DEF Accounted, Kept
  <2> QED
    BY <1>3, <2>1, <2>2
<1> QED
  BY <1>1, <1>2, <1>4, OrphanMove DEF OnFile

(* A transaction of a login writes its client over none, or over its own.   *)
LEMMA NoOrphanStore ==
  ASSUME LInv, Numbering, NEW p \in Procs, NEW f, NEW next \in {"browser", "identity"},
         pc[p] \in {"record", "persist"}, LoginStores(p, f, next), f.client = mine[p]
  PROVE  Safe
<1>1. /\ UNCHANGED apps
      /\ \A q \in Procs \ {p} : pc'[q] = pc[q] /\ mine'[q] = mine[q]
  BY DEF LoginStores, Abandoned, Goto, End, server, login, LInv, TypeOK
<1>2. profile' = profile \/ (profile' = f /\ Claim(profile, mine[p]))
  BY DEF LoginStores, Stored, StoreFailed, Refusal
<1>3. mine[p] \in Registration /\ profile.client \in Registration \cup {NoClient}
  BY DEF LInv, OwnInstance, TypeOK, Profile
<1>4. ASSUME NEW a \in apps, OnFile(a) PROVE OnFile(a)'
  <2>1. profile.client.dynamic /\ profile.client.id = a /\ profile.client # NoClient
    BY <1>4 DEF OnFile
  <2>2. CASE profile' = f /\ mine[p].id = a
    <3>1. a # AdminClient
      BY DEF LInv, TypeOK
    <3>2. mine[p].dynamic
      BY <1>3, <2>2, <3>1 DEF Numbering, HasNumber
    <3> QED
      BY <1>3, <2>2, <3>2 DEF OnFile
  <2> QED
    BY <1>2, <1>3, <2>1, <2>2 DEF Claim, OnFile
<1>5. pc[p] = "record" =>
        \/ pc'[p] = "abandon" /\ mine'[p] = mine[p]
        \/ profile' = f
  BY DEF LoginStores, Stored, Abandoned, Goto, login, LInv, OwnInstance, TypeOK
<1>6. pc[p] = "record" => mine[p].dynamic
  BY DEF LInv, OwnInstance
<1>7. ASSUME NEW a \in apps, pc[p] = "record", mine[p].id = a
      PROVE  Accounted(a)
  BY <1>3, <1>5, <1>6, <1>7 DEF OnFile, Accounted, Kept
<1> QED
  BY <1>1, <1>4, <1>7, OrphanMove

(* A recorded registration is known to the file.                            *)
LEMMA NoOrphanRecord == ASSUME LInv, Numbering, NEW p \in Procs, Record(p) PROVE Safe
<1> DEFINE f == [profile EXCEPT !.origin = options[p].origin, !.client = mine[p]]
<1>1. f.client = mine[p]
  BY Written
<1>2. LoginStores(p, f, "browser") /\ pc[p] = "record"
  BY DEF Record
<1> QED
  BY <1>1, <1>2, NoOrphanStore

(* The session that is stored names the client it was obtained with.        *)
LEMMA NoOrphanPersist == ASSUME LInv, Numbering, NEW p \in Procs, Persist(p) PROVE Safe
<1> DEFINE f == [profile EXCEPT !.origin = options[p].origin, !.client = mine[p],
                                !.oauth = session[p]]
<1>1. f.client = mine[p]
  BY Written
<1>2. LoginStores(p, f, "identity") /\ pc[p] = "persist"
  BY DEF Persist
<1> QED
  BY <1>1, <1>2, NoOrphanStore

(* A login that gives up withdraws what it registered, or names it.         *)
LEMMA NoOrphanAbandon == ASSUME LInv, NEW p \in Procs, Abandon(p) PROVE Safe
<1>1. UNCHANGED profile /\ apps' \subseteq apps /\ pc[p] = "abandon" /\ pc'[p] = "off"
  BY DEF Abandon, Deleted, NotDeleted, End, LInv, TypeOK
<1>2. \A q \in Procs \ {p} : pc'[q] = pc[q] /\ mine'[q] = mine[q]
  BY DEF Abandon, End, LInv, TypeOK
<1>3. \A a : mine[p].id = a => Accounted(a)
  BY <1>1 DEF Accounted, Named, Silent
<1> QED
  BY <1>1, <1>2, <1>3, OrphanMove DEF OnFile

(* A process that dies with an application in its hands says nothing.       *)
LEMMA NoOrphanCrash == ASSUME LInv, NEW p \in Procs, Crash(p) PROVE Safe
<1>1. UNCHANGED <<profile, apps>> /\ pc'[p] = "off" /\ outcome' = "none"
  BY DEF Crash, End, server, LInv, TypeOK
<1>2. \A q \in Procs \ {p} : pc'[q] = pc[q] /\ mine'[q] = mine[q]
  BY DEF Crash, End, LInv, TypeOK
<1>3. ASSUME NEW a \in apps', pc[p] \in {"record", "abandon"}, mine[p].id = a
      PROVE  Accounted(a)
  BY <1>1, <1>3 DEF Accounted, Silent
<1> QED
  BY <1>1, <1>2, <1>3, OrphanMove DEF OnFile

(* Labelling the session keeps its client.                                  *)
LEMMA NoOrphanRecordIdentity ==
  ASSUME LInv, NEW p \in Procs, RecordIdentity(p) PROVE Safe
<1>1. profile'.client = profile.client
  BY DEF RecordIdentity, LInv, TypeOK, Profile
<1> QED
  BY <1>1, OrphanOther DEF RecordIdentity, End, server, LInv, TypeOK

(* Storing a key keeps the client.                                          *)
LEMMA NoOrphanStoreKey ==
  ASSUME LInv, NEW p \in Procs, StoreKey(p) PROVE Safe
<1> DEFINE f == [profile EXCEPT !.origin = options[p].origin,
                                !.key = [origin |-> options[p].origin, owner |-> p]]
<1>1. f.client = profile.client
  BY Written
<1>2. profile' \in {profile, f}
  BY DEF StoreKey, Stored, StoreFailed
<1>3. profile'.client = profile.client
  BY <1>1, <1>2
<1> QED
  BY <1>3, OrphanOther DEF StoreKey, End, server, LInv, TypeOK

(* A logout drops a record when the application is gone, was never ours, or *)
(* is given up: then the warnings name it, unless there are none.           *)
LEMMA NoOrphanRemove ==
  ASSUME LInv, Numbering, NEW p \in Procs, Remove(p) PROVE Safe
<1>1. /\ pc[p] = "remove" /\ pc'[p] = "off" /\ UNCHANGED apps
      /\ profile' \in {profile, Pruned(Remaining(p))}
  BY DEF Remove, Stored, StoreFailed, End, server, LInv, TypeOK
<1>2. \A q \in Procs \ {p} : pc'[q] = pc[q] /\ mine'[q] = mine[q]
  BY DEF Remove, End, LInv, TypeOK
<1>3. ASSUME NEW a \in apps, OnFile(a), ~ OnFile(a)' PROVE Accounted(a)
  <2>1. profile.client # NoClient /\ profile.client.id = a
    BY <1>3 DEF OnFile
  <2>2. /\ DropRegistration(p) /\ snap[p].client # NoClient
        /\ SameRegistration(profile.client, snap[p].client)
    <3>1. Remaining(p).client # profile.client
      BY <1>1, <1>3 DEF OnFile, Pruned, Empty
    <3> QED
      BY <3>1 DEF Remaining
  <2>3. snap[p].client.id = a /\ a # AdminClient
    BY <2>1, <2>2 DEF SameRegistration, LInv, TypeOK
  <2>4. snap[p].client.dynamic
    BY <2>2, <2>3 DEF Numbering, Numbered
  <2>5. ~ report[p].deleted
    BY <2>3 DEF Numbering
  <2>6. GivesUp(p)
    BY <2>2, <2>4, <2>5 DEF DropRegistration, Purges, GivesUp
  <2> QED
    BY <1>1, <2>3, <2>6 DEF Accounted, Named, Silent
<1> QED
  BY <1>1, <1>2, <1>3, OrphanMove

-----------------------------------------------------------------------------
(* Every step preserves each part.                                          *)

(* No step gives a session a token that another has.                        *)
LEMMA SessionsNext ==
  ASSUME LInv, Sessions, [Next]_vars
  PROVE  Sessions'
<1>1. ASSUME NEW p \in Procs, Login(p) PROVE Sessions'
  <2>1. CASE LoginStart(p)
    BY <2>1 DEF LoginStart, Begin, login, Goto, server, Sessions, LInv, TypeOK
  <2>2. CASE UseProvided(p)
    BY <2>2 DEF UseProvided, Acquired, server, EmptyProfile, Goto, Sessions,
         LInv, TypeOK
  <2>3. CASE UseCached(p)
    BY <2>3 DEF UseCached, Acquires, Cached, Acquired, server, EmptyProfile,
         Goto, Sessions, LInv, TypeOK
  <2>4. CASE PortUnavailable(p)
    BY <2>4 DEF PortUnavailable, Acquires, Cached, Goto, server, login,
         Sessions, LInv, TypeOK
  <2>5. CASE Retire(p)
    BY <2>5 DEF Retire, Deleted, NotDeleted, Goto, login, End, EmptyProfile,
         NoReport, Sessions, LInv, TypeOK
  <2>6. CASE Register(p)
    BY <2>6 DEF Register, Acquires, Cached, Acquired, End, EmptyProfile, Goto,
         NoReport, Sessions, LInv, TypeOK
  <2>7. CASE Record(p)
    BY <2>7, SessionsRecord
  <2>8. CASE Authorize(p)
    BY <2>8, SessionsAuthorize
  <2>9. CASE LoginFails(p)
    BY <2>9 DEF LoginFails, End, server, EmptyProfile, NoReport, Sessions,
         LInv, TypeOK
  <2>10. CASE Persist(p)
    BY <2>10, SessionsPersist
  <2>11. CASE Abandon(p)
    BY <2>11 DEF Abandon, Deleted, End, NotDeleted, EmptyProfile, NoReport,
         Sessions, LInv, TypeOK
  <2>12. CASE QueryIdentity(p)
    BY <2>12 DEF QueryIdentity, Goto, End, server, EmptyProfile, NoReport,
         Profile, OwnInstance, LoginPCs, Sessions, LInv, TypeOK
  <2>13. CASE RecordIdentity(p)
    BY <2>13, SessionsRecordIdentity
  <2> QED
    BY <1>1, <2>1, <2>2, <2>3, <2>4, <2>5, <2>6, <2>7, <2>8, <2>9, <2>10,
         <2>11, <2>12, <2>13 DEF Login
<1>2. ASSUME NEW p \in Procs, Logout(p) PROVE Sessions'
  <2>1. CASE LogoutStart(p)
    BY <2>1 DEF LogoutStart, Begin, Goto, server, login, Sessions, LInv,
         TypeOK
  <2>2. CASE Revoke(p)
    BY <2>2 DEF Revoke, Reported, Goto, login, Sessions, LInv, TypeOK
  <2>3. CASE Purge(p)
    BY <2>3 DEF Purge, Purges, Deleted, Reported, NotDeleted, Goto, login,
         Sessions, LInv, TypeOK
  <2>4. CASE Keep(p)
    BY <2>4 DEF Keep, KeepForRetry, End, server, EmptyProfile, NoReport,
         Sessions, LInv, TypeOK
  <2>5. CASE Remove(p)
    BY <2>5 DEF Remove, KeepForRetry, Pruned, Remaining, Stored, End,
         StoreFailed, Purges, server, EmptyProfile, NoReport, Sessions, LInv,
         TypeOK
  <2> QED
    BY <1>2, <2>1, <2>2, <2>3, <2>4, <2>5 DEF Logout
<1>3. ASSUME NEW p \in Procs, SetKey(p) PROVE Sessions'
  <2>1. CASE SetKeyStart(p)
    BY <2>1 DEF SetKeyStart, Begin, EmptyProfile, Goto, server, login,
         Sessions, LInv, TypeOK
  <2>2. CASE StoreKey(p)
    BY <2>2, SessionsStoreKey
  <2> QED
    BY <1>3, <2>1, <2>2 DEF SetKey
<1>4. ASSUME NEW p \in Procs, Crash(p) PROVE Sessions'
  BY <1>4 DEF Crash, End, server, EmptyProfile, NoReport, Sessions, LInv,
       TypeOK
<1>5. CASE Refresh
  BY <1>5, SessionsRefresh
<1>6. CASE UNCHANGED vars
  BY <1>6 DEF vars, server, login, Sessions
<1> QED
  BY <1>1, <1>2, <1>3, <1>4, <1>5, <1>6 DEF Next

(* No step makes what a logout was told untrue.                             *)
LEMMA ToldNext ==
  ASSUME LInv, Sessions, Told, [Next]_vars
  PROVE  Told'
<1>1. ASSUME NEW p \in Procs, Login(p) PROVE Told'
  <2>1. CASE LoginStart(p)
    BY <2>1, ToldLoginStart
  <2>2. CASE UseProvided(p)
    BY <2>2 DEF UseProvided, Acquired, server, EmptyProfile, Goto, Told, LInv,
         TypeOK
  <2>3. CASE UseCached(p)
    BY <2>3 DEF UseCached, Acquires, Cached, Acquired, server, EmptyProfile,
         Goto, Told, LInv, TypeOK
  <2>4. CASE PortUnavailable(p)
    BY <2>4 DEF PortUnavailable, Acquires, Cached, Goto, server, login, Told,
         LInv, TypeOK
  <2>5. CASE Retire(p)
    BY <2>5 DEF Retire, Deleted, NotDeleted, Goto, login, End, EmptyProfile,
         NoReport, Told, LInv, TypeOK
  <2>6. CASE Register(p)
    BY <2>6 DEF Register, Acquires, Cached, Acquired, End, EmptyProfile, Goto,
         NoReport, Told, LInv, TypeOK
  <2>7. CASE Record(p)
    BY <2>7 DEF Record, LoginStores, Refusal, Stored, Goto, login,
         StoreFailed, Abandoned, server, End, EmptyProfile, NoReport, Told,
         LInv, TypeOK
  <2>8. CASE Authorize(p)
    BY <2>8, ToldAuthorize
  <2>9. CASE LoginFails(p)
    BY <2>9 DEF LoginFails, End, server, EmptyProfile, NoReport, Told, LInv,
         TypeOK
  <2>10. CASE Persist(p)
    BY <2>10 DEF Persist, LoginStores, Refusal, Stored, Goto, login,
         StoreFailed, Abandoned, server, End, EmptyProfile, NoReport, Told,
         LInv, TypeOK
  <2>11. CASE Abandon(p)
    BY <2>11 DEF Abandon, Deleted, End, NotDeleted, EmptyProfile, NoReport,
         Told, LInv, TypeOK
  <2>12. CASE QueryIdentity(p)
    BY <2>12 DEF QueryIdentity, Goto, End, server, EmptyProfile, NoReport,
         Told, LInv, TypeOK
  <2>13. CASE RecordIdentity(p)
    BY <2>13 DEF RecordIdentity, End, server, EmptyProfile, NoReport, Told,
         LInv, TypeOK
  <2> QED
    BY <1>1, <2>1, <2>2, <2>3, <2>4, <2>5, <2>6, <2>7, <2>8, <2>9, <2>10,
         <2>11, <2>12, <2>13 DEF Login
<1>2. ASSUME NEW p \in Procs, Logout(p) PROVE Told'
  <2>1. CASE LogoutStart(p)
    BY <2>1, ToldLogoutStart
  <2>2. CASE Revoke(p)
    BY <2>2, ToldRevoke
  <2>3. CASE Purge(p)
    BY <2>3, ToldPurge
  <2>4. CASE Keep(p)
    BY <2>4 DEF Keep, KeepForRetry, End, server, EmptyProfile, NoReport, Told,
         LInv, TypeOK
  <2>5. CASE Remove(p)
    BY <2>5 DEF Remove, KeepForRetry, Pruned, Remaining, Stored, End,
         StoreFailed, Purges, server, EmptyProfile, NoReport, Told, LInv,
         TypeOK
  <2> QED
    BY <1>2, <2>1, <2>2, <2>3, <2>4, <2>5 DEF Logout
<1>3. ASSUME NEW p \in Procs, SetKey(p) PROVE Told'
  <2>1. CASE SetKeyStart(p)
    BY <2>1 DEF SetKeyStart, Begin, EmptyProfile, Goto, server, login, Told,
         LInv, TypeOK
  <2>2. CASE StoreKey(p)
    BY <2>2 DEF StoreKey, Stored, End, StoreFailed, server, EmptyProfile,
         NoReport, Told, LInv, TypeOK
  <2> QED
    BY <1>3, <2>1, <2>2 DEF SetKey
<1>4. ASSUME NEW p \in Procs, Crash(p) PROVE Told'
  BY <1>4 DEF Crash, End, server, EmptyProfile, NoReport, Told, LInv, TypeOK
<1>5. CASE Refresh
  BY <1>5, ToldRefresh
<1>6. CASE UNCHANGED vars
  BY <1>6 DEF vars, server, login, Told
<1> QED
  BY <1>1, <1>2, <1>3, <1>4, <1>5, <1>6 DEF Next

(* No step gives a number twice.                                            *)
LEMMA NumberingNext ==
  ASSUME LInv, Numbering, [Next]_vars
  PROVE  Numbering'
<1>1. ASSUME NEW p \in Procs, Login(p) PROVE Numbering'
  <2>1. CASE LoginStart(p)
    BY <2>1 DEF LoginStart, Begin, login, Goto, server, Numbering, Numbered, HasNumber,
         LInv, TypeOK
  <2>2. CASE UseProvided(p)
    BY <2>2, NumberingUseProvided
  <2>3. CASE UseCached(p)
    BY <2>3 DEF UseCached, Acquires, Cached, Acquired, server, EmptyProfile,
         Goto, Numbering, Numbered, HasNumber, LInv, TypeOK
  <2>4. CASE PortUnavailable(p)
    BY <2>4 DEF PortUnavailable, Acquires, Cached, Goto, server, login,
         Numbering, Numbered, HasNumber, LInv, TypeOK
  <2>5. CASE Retire(p)
    BY <2>5, NumberingRetire
  <2>6. CASE Register(p)
    BY <2>6, NumberingRegister
  <2>7. CASE Record(p)
    BY <2>7, NumberingRecord
  <2>8. CASE Authorize(p)
    BY <2>8, NumberingAuthorize
  <2>9. CASE LoginFails(p)
    BY <2>9 DEF LoginFails, End, server, EmptyProfile, NoReport, Numbering,
         Numbered, HasNumber, LInv, TypeOK
  <2>10. CASE Persist(p)
    BY <2>10, NumberingPersist
  <2>11. CASE Abandon(p)
    BY <2>11, NumberingAbandon
  <2>12. CASE QueryIdentity(p)
    BY <2>12 DEF QueryIdentity, Goto, End, server, EmptyProfile, NoReport,
         Numbering, Numbered, HasNumber, LInv, TypeOK
  <2>13. CASE RecordIdentity(p)
    BY <2>13, NumberingRecordIdentity
  <2> QED
    BY <1>1, <2>1, <2>2, <2>3, <2>4, <2>5, <2>6, <2>7, <2>8, <2>9, <2>10,
         <2>11, <2>12, <2>13 DEF Login
<1>2. ASSUME NEW p \in Procs, Logout(p) PROVE Numbering'
  <2>1. CASE LogoutStart(p)
    BY <2>1 DEF LogoutStart, Begin, Goto, server, login, Numbering, Numbered, HasNumber,
         LInv, TypeOK
  <2>2. CASE Revoke(p)
    BY <2>2, NumberingRevoke
  <2>3. CASE Purge(p)
    BY <2>3, NumberingPurge
  <2>4. CASE Keep(p)
    BY <2>4 DEF Keep, KeepForRetry, End, server, EmptyProfile, NoReport,
         Numbering, Numbered, HasNumber, LInv, TypeOK
  <2>5. CASE Remove(p)
    BY <2>5 DEF Remove, KeepForRetry, Pruned, Remaining, Stored, End,
         StoreFailed, Purges, server, EmptyProfile, NoReport, Numbering,
         Numbered, HasNumber, LInv, TypeOK
  <2> QED
    BY <1>2, <2>1, <2>2, <2>3, <2>4, <2>5 DEF Logout
<1>3. ASSUME NEW p \in Procs, SetKey(p) PROVE Numbering'
  <2>1. CASE SetKeyStart(p)
    BY <2>1 DEF SetKeyStart, Begin, EmptyProfile, Goto, server, login,
         Numbering, Numbered, HasNumber, LInv, TypeOK
  <2>2. CASE StoreKey(p)
    BY <2>2, NumberingStoreKey
  <2> QED
    BY <1>3, <2>1, <2>2 DEF SetKey
<1>4. ASSUME NEW p \in Procs, Crash(p) PROVE Numbering'
  BY <1>4 DEF Crash, End, server, EmptyProfile, NoReport, Numbering, Numbered, HasNumber,
       LInv, TypeOK
<1>5. CASE Refresh
  BY <1>5 DEF Refresh, login, Numbering, Numbered, HasNumber, LInv, TypeOK, Profile
<1>6. CASE UNCHANGED vars
  BY <1>6 DEF vars, server, login, Numbering, Numbered, HasNumber
<1> QED
  BY <1>1, <1>2, <1>3, <1>4, <1>5, <1>6 DEF Next

(* No step leaves an application behind.                                    *)
LEMMA NoOrphanNext ==
  ASSUME LInv, Numbering, [Next]_vars
  PROVE  Safe
<1>1. ASSUME NEW p \in Procs, Login(p) PROVE Safe
  <2>1. CASE LoginStart(p)
    BY <2>1, OrphanOther DEF LoginStart, Begin, login, Goto, server, LInv, TypeOK
  <2>2. CASE UseProvided(p)
    BY <2>2, OrphanOther DEF UseProvided, Acquired, server, Goto, LInv, TypeOK
  <2>3. CASE UseCached(p)
    BY <2>3, OrphanOther DEF UseCached, Acquires, Acquired, server, Goto, LInv, TypeOK
  <2>4. CASE PortUnavailable(p)
    BY <2>4, OrphanOther DEF PortUnavailable, Acquires, Goto, server, login, LInv, TypeOK
  <2>5. CASE Retire(p)
    BY <2>5, OrphanOther DEF Retire, Deleted, NotDeleted, Goto, End, login, LInv, TypeOK
  <2>6. CASE Register(p)
    BY <2>6, NoOrphanRegister
  <2>7. CASE Record(p)
    BY <2>7, NoOrphanRecord
  <2>8. CASE Authorize(p)
    BY <2>8, OrphanOther DEF Authorize, Goto, LInv, TypeOK
  <2>9. CASE LoginFails(p)
    BY <2>9, OrphanOther DEF LoginFails, End, server, LInv, TypeOK
  <2>10. CASE Persist(p)
    BY <2>10, NoOrphanPersist
  <2>11. CASE Abandon(p)
    BY <2>11, NoOrphanAbandon
  <2>12. CASE QueryIdentity(p)
    BY <2>12, OrphanOther DEF QueryIdentity, Goto, End, server, LInv, TypeOK
  <2>13. CASE RecordIdentity(p)
    BY <2>13, NoOrphanRecordIdentity
  <2> QED
    BY <1>1, <2>1, <2>2, <2>3, <2>4, <2>5, <2>6, <2>7, <2>8, <2>9, <2>10,
         <2>11, <2>12, <2>13 DEF Login
<1>2. ASSUME NEW p \in Procs, Logout(p) PROVE Safe
  <2>1. CASE LogoutStart(p)
    BY <2>1, OrphanOther DEF LogoutStart, Begin, Goto, server, login, LInv, TypeOK
  <2>2. CASE Revoke(p)
    BY <2>2, OrphanOther DEF Revoke, Reported, Goto, login, LInv, TypeOK
  <2>3. CASE Purge(p)
    BY <2>3, OrphanOther DEF Purge, Deleted, Reported, NotDeleted, Goto, login, LInv, TypeOK
  <2>4. CASE Keep(p)
    BY <2>4, OrphanOther DEF Keep, End, server, LInv, TypeOK
  <2>5. CASE Remove(p)
    BY <2>5, NoOrphanRemove
  <2> QED
    BY <1>2, <2>1, <2>2, <2>3, <2>4, <2>5 DEF Logout
<1>3. ASSUME NEW p \in Procs, SetKey(p) PROVE Safe
  <2>1. CASE SetKeyStart(p)
    BY <2>1, OrphanOther DEF SetKeyStart, Begin, Goto, server, login, LInv, TypeOK
  <2>2. CASE StoreKey(p)
    BY <2>2, NoOrphanStoreKey
  <2> QED
    BY <1>3, <2>1, <2>2 DEF SetKey
<1>4. CASE Refresh
  BY <1>4, OrphanQuiet DEF Refresh, login, LInv, TypeOK, Profile
<1>5. CASE UNCHANGED vars
  BY <1>5, OrphanQuiet DEF vars, server, login
<1> QED
  BY <1>1, <1>2, <1>3, <1>4, <1>5, NoOrphanCrash DEF Next

-----------------------------------------------------------------------------
(* The theorems.                                                            *)

(* The first two parts hold in every reachable state.                       *)
LEMMA SessionsAlways == Spec => [](Sessions /\ Told)
<1>1. Init => Sessions /\ Told
  BY DEF Init, Sessions, Told, EmptyProfile, NoReport
<1>2. LInv /\ Sessions /\ Told /\ [Next]_vars => Sessions' /\ Told'
  BY SessionsNext, ToldNext
<1> QED
  BY <1>1, <1>2, Invariance, PTL DEF Spec

(* The account a profile shows for its session is the one that signed in to *)
(* it, whatever logins complete, fail or refresh while the server is being  *)
(* asked (capture_identity, record_identity).                               *)
THEOREM LabelsTheOwner == Spec => []LabelIsOwners
<1>1. LInv /\ Sessions => LabelIsOwners
  BY DEF LabelIsOwners, Sessions
<1> QED
  BY <1>1, SessionsAlways, Invariance, PTL

(* A session the server still honours leaves the file only in a logout that *)
(* had that session and was told it can never be revoked, or was forced     *)
(* (logout.rs, rule 3; clear_if_unchanged).                                 *)
THEOREM IrreversibleOnRequest == Spec => NothingIrreversible
<1> DEFINE Loses == /\ profile.oauth # NoSession /\ profile'.oauth = NoSession
                    /\ profile.oauth.token \in live'
           Allowed == \E p \in Procs :
                        /\ pc[p] = "remove"
                        /\ snap[p].oauth # NoSession /\ snap[p].oauth.token = profile.oauth.token
                        /\ options[p].force \/ report[p].final
<1>1. ASSUME LInv, Told, [Next]_vars, Loses PROVE Allowed
  <2>1. PICK p \in Procs : Remove(p)
    <3>1. CASE UNCHANGED vars
      BY <1>1, <3>1 DEF vars
    <3>2. CASE Refresh
      BY <1>1, <3>2 DEF Refresh, LInv, TypeOK, Profile, Session
    <3>3. ASSUME NEW p \in Procs, Record(p) \/ Persist(p) PROVE FALSE
      <4> DEFINE f == [profile EXCEPT !.origin = options[p].origin, !.client = mine[p]]
                 g == [profile EXCEPT !.origin = options[p].origin, !.client = mine[p],
                                      !.oauth = session[p]]
      <4>1. f.oauth = profile.oauth /\ g.oauth = session[p]
        BY <1>1, Written
      <4>2. profile' \in {profile, f} \/ (pc[p] = "persist" /\ profile' = g)
        BY <3>3 DEF Record, Persist, LoginStores, Stored, StoreFailed
      <4>3. pc[p] = "persist" => session[p] # NoSession
        BY <1>1 DEF LInv, OwnInstance
      <4> QED
        BY <1>1, <4>1, <4>2, <4>3
    <3>4. ASSUME NEW p \in Procs, RecordIdentity(p) PROVE FALSE
      <4>1. \/ profile' = profile
            \/ profile' = [profile EXCEPT !.oauth = [profile.oauth EXCEPT !.account = seen[p]]]
        BY <3>4 DEF RecordIdentity
      <4> QED
        BY <1>1, <4>1 DEF LInv, TypeOK, Profile, Session
    <3>5. ASSUME NEW p \in Procs, StoreKey(p) PROVE FALSE
      <4> DEFINE f == [profile EXCEPT !.origin = options[p].origin,
                                      !.key = [origin |-> options[p].origin, owner |-> p]]
      <4>1. f.oauth = profile.oauth
        BY <1>1, Written
      <4>2. profile' \in {profile, f}
        BY <3>5 DEF StoreKey, Stored, StoreFailed
      <4> QED
        BY <1>1, <4>1, <4>2
    <3>6. ASSUME NEW p \in Procs, Login(p) \/ Logout(p) \/ SetKey(p) \/ Crash(p)
          PROVE  \/ UNCHANGED profile \/ Record(p) \/ Persist(p) \/ RecordIdentity(p)
                 \/ StoreKey(p) \/ Remove(p)
      BY <3>6 DEF Login, LoginStart, UseProvided, UseCached, PortUnavailable, Retire, Register,
         Authorize, LoginFails, Abandon, QueryIdentity, Logout, LogoutStart, Revoke, Purge,
         Keep, SetKey, SetKeyStart, Crash, Begin
    <3> QED
      BY <1>1, <3>1, <3>2, <3>3, <3>4, <3>5, <3>6 DEF Next
  <2>2. /\ pc[p] = "remove" /\ ~ KeepForRetry(p)
        /\ profile' \in {profile, Pruned(Remaining(p))}
    BY <2>1 DEF Remove, Stored, StoreFailed
  <2>3. Remaining(p).oauth = NoSession
    BY <1>1, <2>2 DEF Pruned, Empty
  <2>4. snap[p].oauth # NoSession /\ snap[p].oauth.token = profile.oauth.token
    BY <1>1, <2>3 DEF Remaining, SameSession
  <2>5. live' = live
    BY <2>1 DEF Remove, server
  <2>6. ~ report[p].revoked /\ (report[p].final \/ report[p].retry)
    BY <1>1, <2>2, <2>4, <2>5 DEF Told
  <2> QED
    BY <2>2, <2>4, <2>6 DEF KeepForRetry
<1> QED
  BY <1>1, SessionsAlways, Invariance, PTL DEF Spec, NothingIrreversible

(* A logout reports a session signed out only when the server no longer     *)
(* accepts its token, and it leaves the profile without a session and       *)
(* without a key, or keeps it as it is for a retry (Report::signed_out,     *)
(* keep_for_retry).                                                         *)
THEOREM SignedOutIsTrue == Spec => SignedOutIsSound
<1> DEFINE Sound ==
      \A p \in Procs : pc[p] = "remove" /\ pc'[p] = "off" /\ outcome' = "signed_out" =>
        /\ snap[p].oauth # NoSession /\ snap[p].oauth.token \notin live'
        /\ \/ profile'.oauth = NoSession /\ profile'.key = NoKey
           \/ KeepForRetry(p) /\ profile' = profile
<1>1. ASSUME LInv, Told, [Next]_vars, NEW p \in Procs,
             pc[p] = "remove", pc'[p] = "off", outcome' = "signed_out"
      PROVE  /\ snap[p].oauth # NoSession /\ snap[p].oauth.token \notin live'
             /\ \/ profile'.oauth = NoSession /\ profile'.key = NoKey
                \/ KeepForRetry(p) /\ profile' = profile
  <2>1. Remove(p) \/ Keep(p)
    <3>1. \A q \in Procs : Login(q) => pc'[p] = "remove" \/ outcome' # "signed_out"
      BY <1>1 DEF Login, LoginStart, UseProvided, UseCached, PortUnavailable, Retire, Register,
         Authorize, LoginFails, Abandon, QueryIdentity, RecordIdentity, Record, Persist,
         LoginStores, Abandoned, Refusal, Acquired, Begin, Goto, End, LInv, TypeOK, Causes
    <3>2. \A q \in Procs \ {p} : Logout(q) => pc'[p] = "remove"
      BY <1>1 DEF Logout, LogoutStart, Revoke, Purge, Keep, Remove, Begin, Goto, End, LInv, TypeOK
    <3>3. \A q \in Procs : SetKey(q) \/ Crash(q) => outcome' # "signed_out"
      BY DEF SetKey, SetKeyStart, StoreKey, Crash, Begin, Goto, End
    <3>4. LogoutStart(p) \/ Revoke(p) \/ Purge(p) => outcome' # "signed_out"
      BY DEF LogoutStart, Revoke, Purge, Begin, Goto, End
    <3> QED
      BY <1>1, <3>1, <3>2, <3>3, <3>4 DEF Next, Refresh, vars, Logout
  <2>2. CASE Keep(p)
    <3>1. live' = live /\ profile' = profile /\ KeepForRetry(p) /\ report[p].revoked
      BY <1>1, <2>2 DEF Keep, Says, SignedOut, End, server
    <3> QED
      BY <1>1, <3>1 DEF Told
  <2>3. CASE Remove(p)
    <3>1. live' = live /\ report[p].revoked /\ ~ Survives(profile')
      BY <1>1, <2>3 DEF Remove, Stored, Says, SignedOut, End, server
    <3> QED
      BY <1>1, <3>1 DEF Told, Survives
  <2> QED
    BY <2>1, <2>2, <2>3
<1>2. LInv /\ Told /\ [Next]_vars => Sound
  BY <1>1
<1> QED
  BY <1>2, SessionsAlways, Invariance, PTL DEF Spec, SignedOutIsSound

(* No application loses the last thing that can delete it without its name  *)
(* in a message, but in the three cases Silent names: for every set of      *)
(* processes and whatever --client-id names (persist_registration, abandon, *)
(* drop_registration).                                                      *)
THEOREM NobodyIsOrphaned == Spec => NoOrphan
<1>1. Init => Numbering
  BY DEF Init, Numbering, Numbered, HasNumber, EmptyProfile, NoReport
<1>2. LInv /\ Numbering /\ [Next]_vars => Numbering'
  BY NumberingNext
<1>3. Spec => []Numbering
  BY <1>1, <1>2, Invariance, PTL DEF Spec
<1>4. LInv /\ Numbering /\ [Next]_vars => [Safe]_vars
  BY NoOrphanNext
<1>5. [Safe]_vars =>
        [\A a \in apps' : (Kept(a) \/ a \notin apps) =>
           \/ Kept(a)'
           \/ Named(a)
           \/ \E p \in Procs : pc'[p] = "off" /\ Silent(p, a)]_vars
  BY DEF Safe, Accounted
<1> QED
  BY <1>3, <1>4, <1>5, Invariance, PTL DEF Spec, NoOrphan
=============================================================================

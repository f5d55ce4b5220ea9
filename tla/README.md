# Specification of otl

otl is a command line client for Outline. What is hard in it lies in four places:
a credential file that several `otl` processes read, refresh and rewrite at once,
against a server that hands out single-use tokens; files and documents that others
change while a command works on them; texts and descriptions that somebody else
wrote and that the program must not trust; and the answers to a script, which
have to say what happened. This directory models those parts in TLA+, checks
them with TLC on small instances, and proves with TLAPS what matters most of each:
the file and its tokens, login and logout, the lists and writes of the request
channel, the rate limit, the callback server, the cache, and the skill install.

Paths below are relative to `src/crates/otl/src` unless they say otherwise;
`engine/` is `src/crates/engine/src` and `speccompile/` is
`src/crates/speccompile/src`.

## The system

| Component | State it keeps | Operations | Hard because |
|---|---|---|---|
| Token refresh (`auth/source.rs`, `oauth.rs`, `selection.rs`) | the session in memory, with the secret of the client it was opened with | `bearer`, `renew`, `refresh_locked` | refresh tokens are single-use; processes race for them; the answer can be lost |
| Login (`auth/login.rs`, `client_acquisition.rs`, `dcr.rs`) | the client it uses, until it is recorded | acquire, register, record, authorize, persist, abandon, label | the management token is the only way to delete the application |
| Logout (`auth/logout.rs`, `logout_remote.rs`) | a snapshot, a report | revoke, purge, keep or remove | the file changes while the server is being asked |
| `set-key` (`commands/auth/mod.rs`) | the key from the prompt | check, prompt, check again, store | the prompt stays open for as long as the user likes |
| Credential file (`auth/credentials.rs`, `lock.rs`, `secret_file.rs`) | the file, the lock file | `load`, `update`, `save`, `acquire_within` | crash, failed directory sync, re-created lock file |
| Settings, binding, selection (`config/`, `auth/mod.rs`, `selection.rs`) | none | `resolve_credential`, release of a key | four layers, each with its own precedence |
| Discovery (`auth/metadata.rs`, `endpoint.rs`, `transport.rs`) | none | fetch, check, use | the document is the server's |
| Callback server (`auth/loopback.rs`, `callback_request.rs`) | the connections, the deadline | accept, serve, collect | anybody may connect; threads report in any order |
| Request channel (`engine/client.rs`, `retry.rs`, `throttle.rs`) | the retry budget, the token bucket | send, renew once, wait and retry, pace | several retry rules on one request |
| Document channel (`engine/fetch.rs`) | the retries made | one GET, redirects, limits | the host that answers is not the one asked |
| Pagination (`engine/paginate.rs`) | offset, items so far | next page | the collection changes between pages |
| Export (`commands/docs/export.rs`, `outdir.rs`, `dir.rs`, `tree.rs`) | the output directory | list, name, write, publish, flush, report | kills, faults, other writers, second runs |
| Update (`commands/docs/update.rs`, `section/`, `anchor.rs`) | what it read of the document | read, pin, check, write | others edit the document |
| Spec cache (`spec/cache.rs`, `openfile.rs`, `bounded.rs`, `commands/spec.rs`) | the cache file | sync, reset, load, fall back | two builds, power loss, damage |
| Compiler (`speccompile/`) | none | parse, parameters, response fields, checks | recursive, deep or combined models |
| `otl api` (`commands/api/`, `engine/body.rs`, `scalar.rs`) | none | read the line, build the body | what is typed must arrive |
| Lists, comments, collections (`commands/collections.rs`, `comments.rs`) | none | filter, count, two requests of one update | a cut list; the second request fails |
| Text safety (`engine/sanitize.rs`, `render.rs`) | none | redact, scrub, lay out | a secret cut in half |
| Pager (`pager.rs`, `stdio.rs`) | the pipe | start, feed, wait, fall back | the pager is another process |
| Skill (`commands/skill/`) | the skills directories | inspect, check, publish, verdict | the user rearranges them |
| Doctor, exit codes (`commands/doctor/`, `errors.rs`, `exit.rs`) | none | eight checks, one code | it predicts what other code does |

How they interact: every command opens the credential file without the lock and
builds a credential provider; the request channel asks the provider for a bearer,
and once more after a 401. The provider, login, logout and `set-key` all change
the file through the advisory lock; only the provider keeps the lock while it
talks to the server. A command that needs the table of operations loads the spec
cache once, or falls back to the table of the binary. Apart from the credential
file and the cache no two commands share state on the machine; export, update and
skill install share theirs with whoever else writes there.

What makes the parts correct:

- refresh: the stored refresh token is one the server still honours, no process
  overwrites what another stored, nobody is sent to sign in again for being
  late, and every request ends;
- login: no application is left on the server that nothing can delete and nobody
  was told of; no session is labelled with another login's account;
- logout: it removes what it acted on and nothing else, discards nothing that a
  retry could still revoke, and says "signed out" only when that is so;
- all of them: a profile never mixes two instances;
- the credential file: an update is atomic, for processes, crashes and power
  losses alike;
- the request channel: a write is performed at most once, a list that is called
  complete hides nothing, and every command ends;
- export: what is reported as exported is there, whole and durable, and nothing
  of others is replaced unasked;
- update: nothing that the caller has not seen is overwritten;
- the cache: a command uses a whole table of its own build or none;
- credentials: none is sent to an instance it was not given for, none is shown;
- everything else: an answer, a report and an exit code say what happened.

`PROJECT.json` lists every component, the hazards with the line where each
bites, and the source lines of every definition.

## Modules

| Module | Models |
|---|---|
| `CredentialData` | sessions, token responses, `fresh_enough`, `superseded_by`, `merge` |
| `TokenRefresh` | the provider in several processes, the lock, the file, the authorization server |
| `MCTokenRefresh`, `TokenRefreshProofs` | its instances for TLC; all its safety properties, proved |
| `LoginLogout` | login, logout and set-key in several processes, registrations and sessions on the server |
| `MCLoginLogout` | its instances for TLC |
| `LoginLogoutProofs` | the types and the binding of a profile; then what logins and logouts leave behind, proved |
| `RequestChannel`, `MCRequestChannel`, `RequestChannelProofs` | one command: sending, renewal, rate limit, pagination; all its safety properties, proved |
| `ProfileStore` | the abstract promise of the credential file: updates in one step |
| `CredentialFile`, `MCCredentialFile` | the file, the lock and the directory, one system call a step; implements `ProfileStore` |
| `CredentialFileProofs` | mutual exclusion, wholeness and the refinement, proved |
| `ExportTree`, `DocsExport` | a listing as a forest, names; the export into a file system |
| `DocumentProofs` | what an export leaves on the disk and what it must not touch, and when an update may overwrite, proved |
| `Markdown`, `DocsUpdate`, `DocsView` | sections, addresses and anchors; the update against other editors; the outline |
| `SpecTable`, `SpecCache` | the framing and limits of the cache; the cache of several processes |
| `SchemaCompile` | the compiler: budget, parameters, the walk of a response, what is checked again |
| `Loopback` | the callback server, its threads and its deadline |
| `DocumentFetch`, `Throttle` | the document channel; the token bucket |
| `ChannelProofs` | what these three keep to, and that redaction leaves no fragment of a secret and a table shows what its rows carry, proved |
| `Display` | the pager and the pipe, columns and cells of a table |
| `SkillInstall` | several installers on several targets |
| `CommandProofs` | the soundness of `SpecCache` and of `SkillInstall`, proved |
| `Settings`, `Discovery`, `Redaction`, `ApiCall`, `Curated` | pure operators: credentials, endpoints, secrets in texts, command lines, lists |
| `Filters` | what a filter lets through, in its order, as the lists, texts and outlines use it |
| `Failures`, `Doctor` | exit codes; the report of doctor and the command it predicts |
| `Commands` | all of the machines from `DocsExport` down and the readers, one command at a time |
| `QuestionProofs` | what the readers answer, for every legible question; and the program that runs all of it, proved |
| `CommandTables`, `MCCommands` | `Commands` with the tables of operations it is answered from; the instance |

### TokenRefresh

`oauth` is the session in the credential file and `lock` the holder of the
advisory lock. A token is the number of the response that issued it, so "later"
is `>`. The server is what answers: `retired` tokens were rotated, `revoked` ones
withdrawn, `late` ones are in requests that nobody waits for any more.
Each process has its `pc`, the session in memory (`state`), and, under the lock,
what it read (`held`) and what the server answered (`answer`).

One request runs through `UseBearer` or `RenewBearer`, `Send`, and after a first
401 `Renew`. `Acquire` takes the lock and reads the file. Then exactly one of
`StoreError`, `SessionGone`, `Adopt`, `ForeignEndpoint`, `NotRenewable` or
`Post` follows, in the order of the code. A posted refresh is answered (`Grant`,
`Reject`, `Busy`), times out (`PostTimeout`, after which the server may still
serve it: `GrantLate`) or its answer is lost (`AnswerLost`). `Save` and
`SaveFailed` end it: a save can fail before or after the rename. `Crash` is
possible anywhere. `doubtful` is history: the refresh tokens whose exchange a
process lost track of, which no program could know about.

What is assumed of the server: it answers a refresh with 4xx only for a token it
does not honour or a client that does not authenticate, and a response after the
rotation that does not arrive, or is an error of a proxy, counts as lost. What is
assumed of the program: one process makes one request at a time, as every
command does.

### LoginLogout

`profile` is the whole profile (origin, key, session, client) in the file. A
transaction (`CredentialStore::update`) is one step here, because `TokenRefresh`
already models the lock and `CredentialFile` shows that it is one; it may fail
without effect, or after the file was replaced. Everything between two transactions is interleaved: the snapshot a
command starts from (`snap`), discovery, registration, the browser, revocation,
deletion. `apps` are the applications that exist on the server and `live` the
tokens it accepts. A refresh by a running command is one step (`Refresh`).

`outcome` is how the command that ended in this step ended, in the words of the
code: whatever `Report::signed_out` is true of is `signed_out`. `NoOrphan` is about
every application: what can delete it is in the file or in the hands of a login, or
the step that ends this leaves a message that names the application (`Named`), or is
one of the three cases in which the program says nothing (`Silent`, see below). A
purge that was forced, or cannot be retried, removes a record it could not use and
names it (`GivesUp`). Which cases end with a message is read off the code; that no
fourth interleaving loses an application is what the property says.

A login needs the callback port of its client, so `PortTaken` keeps two logins
with one dynamic client apart: only logins that share an administrator's client
are granted two sessions at once. `login_sessions` therefore offers one. There, API
keys are used with dynamic clients only, and until a second token is issued
(`KeysOrAdministrators`, a state constraint): a key has no account and no token, and
`OneInstance` is about each part of the profile against its origin.

`--client-id` may name the client that the file records as a dynamic registration
(`Offered` has one in `login_registrations`). `claim_client` compares ids only and
would replace that record by one without the management token; but such a login
listens on one of the documented ports, which is not the port that the server
registered for the client, and the server refuses the redirect URI. That the server
does so is an assumption about it (`Accepts`), and so is that an administrator
registers the documented ports.

### RequestChannel

`rows` is the collection on the server, numbered in the order of the list; it is
what others insert into and delete from at any time (`Insert`, `Delete`). A
`command` is a write, one page of a size the user chose, or a whole list with or
without a cap. `pc` is where it stands: `bearer` asks the credential source
(`Bearer`), `request` is on the wire, `refused` was answered with HTTP 401
(`Renew`). A request is answered (`Page`, `Written`), rate-limited
(`RateLimited`, with the budget of `RetryPolicy`), refused, or anything else
(`NoAnswer`: another status, a transport failure, a timeout, a body that does not
decode), which ends the command, because the server may have performed the write.
What the server does and what the client makes of the answer are one step, as
nothing of the client's happens in between.

The number of rows in front of a row is its `Rank`; a page that starts at an
offset (`From`) is the rows of that rank and behind, so no order of the numbers
needs to be computed. In `Page` the server takes the offset into account or not, clamps the page to
`ServerMax`, and reports the offset and the page size it applied, or not. Then
`ManualPage` or `NextPage` follows the order of the code: the cap, the end of the
list, the end of the offsets, the page cap, the next page. `stable`, `shifted` and
`pushed` are history: the rows that were there all along, and whether a row was
deleted or inserted in front of the offset. A list whose pages came without an
offset report is flagged `unconfirmed`, and the properties say nothing of it: the
command tells the user. Offset paging cannot be exact while rows move in front of
the offset, so `NothingIsHidden` and `NoRowTwice` name that exception and no
other; `CutIsProven` needs none.

The credential source is what `TokenRefresh` models; here it may have a
credential or not, and renew it or not. The token bucket (`Throttle`) only delays
a request.

### ProfileStore and CredentialFile

`ProfileStore` is what `TokenRefresh` and `LoginLogout` assume of the file: an
update is applied in one step to the value it finds (`Apply`), or not at all; an
update reported as done outlives a power failure, one reported as not flushed may
be undone by it. `CredentialFile` is the code below that: names and inodes, the
descriptor a process holds, `flock` on an inode, the check after locking that the
name still leads to it, the load, the temporary sibling, write, flush, rename,
flush of the directory, the removal of an empty file. A process dies at any step,
the machine loses power (`durable` is what the directory may hold after that), and
the lock file may be removed by hand while nobody has the lock.
`ImplementsStore` is `ProfileStore!StoreSpec` under the refinement mapping at the
end of the module: the value of the store is what the file on the path holds, what
a power loss may bring back is `Unsure`, the stage of a process is its `Phase`, and
`Apply` is the rename or the removal.

The constants are assumed to be what they stand for: `Nothing` is neither an inode
nor a process, and no temporary name is `credentials` or `lock`, since
`create_temp` makes `.<stem>.tmp.<pid>.<nonce>` of the file's own name
(`auth/secret_file.rs:284`).

### The machines of Commands

`Commands` runs one command from start to end: `RunMachine` chooses the machine,
and its steps are those of `DocsExport`, `DocsUpdate`, `SpecCache`, `Loopback`,
`SkillInstall`, `DocumentFetch`, `Display` or `Throttle`; the others keep still. The
composition shares constants, runs and mutants; the machines share no state
in the program either, and a command that has ended does nothing more.

- `DocsExport`: the file system is a set of entries whose names fold as the file
  system folds them, which may be coarser than the key the command compares names
  by. The stack of directories being written follows `export.rs`; each document is
  fetched, written to a temporary sibling, flushed and published by a link, or a
  rename with `--overwrite`. Every step may fail, the run may be killed, somebody
  may save a file between the check and the publication, and a second run follows.
  `ExportIsDurable` says that what was reported as written is there, that no file is
  there in part, also after a kill, and that a clean exit means that the names on the
  way to each document are on disk; `ExportIsComplete` that every listed document is
  reported once, and that a clean exit without `--limit` left none out.
  `NothingClobbered` is about others' files.
- `DocsUpdate`: a caller with a copy, a server with or without revisions, edits by
  others between the copy, the read and the write. `UpdateIsSafe` says that no line
  is overwritten that the caller's copy did not hold, that no document receives
  another's text and none becomes blank; `OnlyTheSection` that a section edit
  leaves the rest as it is when the write lands.
- `SpecCache`: inodes, the path and what it may be after a power loss; processes of
  two builds sync, reset and load. `SpecCacheIsSound` says that a table in use is
  whole and of the reader's own build; `SyncTakesEffect` that a sync that reports
  success is what a command of its build loads. The output that follows a sync is not
  modelled.
- `Loopback`: connections that send a redirect, a stray request or nothing, served
  on a thread or in the waiting loop when there are too many; handlers answer
  first and report later. `LoopbackIsSound` says that only our redirect ends the wait
  with a code, that what was reported before the deadline counts, that no
  connection is dropped unread, and that the count of threads is right. An error of
  `accept` itself, after which the loop sleeps and goes on, is left out.
- `SkillInstall`: links, missing directories, foreign and edited documents, other
  installers. `InstallIsHonest` says that each exit code was earned, except
  that a report which cannot be written ends with 1 whatever was installed; that
  nothing is written through a link seen; that a foreign document that was there when
  the target was looked at is not replaced without `--force`; and that what doctor
  prescribes works.
- `DocumentFetch`: redirects, `Retry-After` in every form, limits on size.
  `Throttle`: the bucket in shares of a request, one of which comes back each tick;
  the clock is read under the lock, as in `acquire_delay`. `FetchHonest` says
  that an error names the origin that answered, that a body is whole and within its
  limit, and that the retries and waits keep their bounds; `RateIsKept` that no
  stretch of time has more requests than the burst and the rate allow.
- `Display`: the pager runs beside the command, with a pipe between, and may fail
  to start, be quit, or fail. That a command waits for a pager that nobody quits is
  what it is for, and no liveness is stated of it.

### The readers of Commands

A command that only computes is a question (`Ask`): an input out of a set
`Questions`, put to the operators, and the properties compare the answer with a
definition of what it ought to be. `QuestionsAssumption` says that a question is
`Legible`: files and answers are of the types they are parsed into, and nothing more
is said of them. In `MCCommands` the questions are bounded sets; the proofs are about
any.

- `CredentialsStayHome`: the settings select no credential of another instance, a
  login asks for one only where the instance says that it is itself, and no fragment
  of a secret is shown of what a server sends back.
- `ReportAgrees`: doctor predicts what a command meets, on every machine it can read:
  without premises, and with one sentence of its report excepted (below). Each end of
  `comments update`, also when its output fails, is the one that its two requests
  earned, but for one case that its help has wrong. Lists, counts and outlines are what
  was read: a collection that a row of the list does not identify is not looked up,
  and a path that the outline prints leads to its heading exactly where the addressing
  allows it. A table shows what there is and nothing that a terminal obeys; and a
  document is shown or the command fails. That the rows of a list of collections have
  distinct ids is assumed of the server.
- `OutputIsHonest`: a secret is not shown whole, however short, honest text stays as
  it is, and where a read was cut does not show.
- `TablesAreSound` (in `CommandTables`): the compiler, the body of the cache and the
  command line of `otl api`.

They are written against the meaning, not the algorithm: `FragmentsStayHidden`, for
instance, says that no fragment of a secret of the least length can be read in what
is shown, in either case and through hidden characters, and knows nothing of the
order of the passes.

## Runs

| Run | Bounds | Shows |
|---|---|---|
| `refresh_race` | 2 processes, 1 instance, 3 token responses of 2 shapes | the file keeps a live token through races, crashes, timeouts and failed saves; `IInv`, the invariant of the proof and with it the types, holds |
| `refresh_peers` | 1 process against logins and logouts, 2 instances, 2 clients, 3 responses | no lost update, memory only advances |
| `refresh_live` | 2 processes, 2 responses, fairness of the processes' own steps | every request ends |
| `login_registrations` | 2 processes, 1 instance, 2 applications, 1 token, any `--client-id`, forced and unforced | no application is lost unnamed, but in the three named cases |
| `login_sessions` | 2 processes, 2 instances, an administrator's client or a dynamic one, 1 application, 2 tokens, unforced, all commands, keys with dynamic clients and one token | a profile never mixes instances; logout against refreshes, logins and logouts; account labels; what may be given up |
| `request_channel` | 1 command, 4 rows, pages of 3 clamped to 2, 3 pages, 1 retry, offsets up to 3, caps of 1 and 3 | nothing hidden, nothing twice, cuts are cuts, one write, every command ends |
| `credential_file` | 2 processes, 2 profiles, 1 session each, 4 inodes, 1 temporary name | the lock is exclusive, the file never torn, and the whole implements `ProfileStore` |
| `commands` | export: 4 listings of up to 4 rows, 2 runs, 1 fault; update: 2 documents of 7 lines, 1 edit by others; cache: 2 builds, 3 documents, 2 faults; callback: 2 connections, 1 thread; skill: 2 targets, 2 installers, 1 change; fetch: 3 bytes, 2 retries, 1 redirect; throttle: 2 threads, burst 2, 6 requests in 8 ticks; questions: every combination of the sets in `MCCommands` | sixteen properties, one or two for each machine and one for each family of readers |
| `refresh_other_instance`, `login_alone`, `login_survivor`, `schema_walk` | 1 process, 1 or 2 instances; 2 processes, 1 application, 2 tokens; the schemas of `MCCommands` | a disagreement between code and documentation each, see below |

Why the bounds are enough to mean something: a race for a refresh needs two
processes and a third party that came in between, which is three responses; a
lost registration needs two applications, one in the file and one to be
recorded; a wrong label or a stale removal needs a second token; a mixed profile
needs a second instance. Four rows are two full clamped pages, so a list ends
within a page, at its end, at the page cap and at the last offset, and each cap
falls before, at and behind the end of the collection. Four inodes let a lock file,
a credential file, its temporary sibling and a descriptor on a file without a name
exist at once, and an inode be given out again. The listings of the export have
equal titles, titles the file system folds, a nesting beyond `MAX_DEPTH`, a cycle
and rows without an id. One thread and two connections put the redirect over the
limit of handlers; two burst requests and six draws exhaust the bucket, let it
refill and exhaust it again. The limits of the pure operators (`MaxBody`,
`MaxSchemaDepth`, `MinFragment`, `MaxInt`, `Exact`, `MaxCellWidth`, ...) are small
numbers with inputs below, at and above each. Processes and instances are
interchangeable in every run that checks only safety, so their symmetry is used.
`MaxGen`, `MaxApps`, `MaxTokens` are guards on the server's side only: a server
that gives no more answers still lets every process time out. `MaxFaults`,
`MaxRuns`, `MaxEdits`, `MaxUpdates`, `MaxMeddling` and `MaxSpecFaults` bound what
others do. Deadlock is not checked where the users may simply stop, a command has
ended or a bound is reached.

Every property has a mutant: the definition named in `PROJECT.json` replaced by
an `X_...` operator of the same module, which makes a plausible mistake, and the
run then finds the property violated.

### Fairness

`TokenRefresh` assumes weak fairness of `Step(p)` only, that is of what a process
does by itself. The code justifies it: every wait has a deadline (`LOCK_TIMEOUT`
for the lock, `OAUTH_TIMEOUT` for a request, the client's own timeout for the
request itself), and a request renews at most once. Nothing is assumed of the
server, the users, or of who gets the lock. `RequestChannel` assumes weak fairness
of `Client`, what the command does: a request has a timeout and a wait after a 429
at most `max_wait`. `LoginLogout` and `Commands` state no liveness: a login and a
pager wait for a person, and the other commands are finite sequences of steps that
wait for nobody.

## Where the code and its documentation differ

Each of these is a run TLC refutes; `PROJECT.json` has the quotations.

- `ConcurrentLoginIsReal`: a login whose callback port is taken deletes the
  recorded client, registers another one, and is then refused by `claim_client`
  because the file still names the first; it deletes the second as well and
  reports a concurrent login that never was. The next login does the same.
  `--force-new-client` ends the same way. The existing tests cover a deletion
  that fails, not one that succeeds.
- `CredentialStaysWithItsInstance`: the session adopted under the lock is not
  checked against the instance the command talks to.
- `RevokedIsGone`: a logout reads the file, a running command refreshes the session,
  the revocation of the old token succeeds, and the deletion of the application fails
  in a way that can be retried. The credentials are then kept, and nobody looks at
  what the file holds by now (`auth/logout.rs:131`): the output says that the tokens
  are revoked, over a session that the server still accepts. `signed_out` is documented
  as "revoked AND gone" (`auth/logout.rs:258-262`, `docs/exit-codes.md:108`).
- `WalkPassesItsCheck`: for `allOf: [{oneOf: ...}, {properties: ...}]` the walk of a
  response names the field a union and lists its children, and the check of that
  list then refuses the whole description, so one such schema takes down
  `otl spec sync` for every operation (`speccompile/schema/response.rs:408`,
  `rules.rs:86`).

The first and the last two are bugs. In the second the code may be right to accept
the case, and the text says more than it does.

Sentences of the sources that the program does not keep, which a property excepts by
name, so that it says exactly how much of the sentence holds:

- `ReauthIsJustified`: `RotationLost` tells the user that "the stored one is already
  dead and the only way forward is a new login" (`auth/error.rs:571-577`,
  `docs/exit-codes.md:102`). The file holds a good grant when the save failed after the
  rename, or the response kept the refresh token (`KeptAfterFailedSave`). Nor need a
  rejected grant be dead when another client stored the session (`SecretMismatch`: the
  secret is that of the start, the client id is read under the lock,
  `auth/source.rs:230`).
- `NoOrphan`: "Whatever could not be done is always reported" (`auth/logout.rs:36`, and
  `auth/login.rs:221-228`). Nothing is said of the application when the answer to its
  registration cannot be used (`auth/dcr.rs:79`), when the process dies before it is
  recorded, or when the transaction of a forced purge fails after the file was
  replaced, since the warnings are not printed then (`auth/logout.rs:108`).
- `SignedOutIsSound` names the case of `RevokedIsGone`.
- `InstallIsHonest`: a report that cannot be written ends the install with 1 after
  documents were written (`commands/skill/mod.rs:170`, against `:160-172`), and a
  foreign document that appears between inspection and publication is replaced without
  `--force` (`commands/skill/mod.rs:20-24`).
- `ReportAgrees`, doctor: after a 401 whose renewal fails it says that the instance was
  not reached, or that the run failed "before any request to the instance"
  (`commands/doctor/checks.rs`, `outcome_summary`), although it answered. Comments: when
  the first request was answered, the second failed and then the output fails, the code
  is 1 where the help promises 9 (`commands/comments.rs:162-165`). Outlines: a printed
  path "resolves to exactly" its heading (`commands/docs/section/parse.rs:46`,
  `commands/docs/view.rs:88`) only if
  no title on it is empty, holds `>` or begins with `#`, which the tests know
  (`section/address.rs:241-248`). Collections: a row without an id is not counted in the
  warning about what could not be looked up (`commands/collections.rs:353-356`).

Seen while modelling, without a run:

- login and refresh: a response without `expires_in` stores no expiry
  (`auth/oauth.rs:207`), where the comment above promises an assumed lifetime. A second
  login can find the port of the recorded client taken by the first, which is not
  concurrency of the same profile (`auth/client_acquisition.rs:60`).
- discovery: the check that an endpoint is secure is implied by the same-origin
  check. `endpoint.rs` folds its limits over the secrets, so a call without secrets
  (`auth/metadata.rs:85`, `auth/dcr.rs:52`) caps and cleans nothing.
- callback: when the deadline passes between the answer to the browser and the
  report, the browser says "Signed in" and the command times out.
- doctor: a synced table without `auth.info` is reported as a
  connectivity problem although other commands work.
- export: a directory made by a killed run is not flushed at its parent by the next
  one.
- update: `--delete-section` can leave a single blank line.
- cache: a reader whose cache is replaced between `stat` and `open` discards it as
  damaged; a killed sync leaves its temporary file.
- skill: an older binary "upgrades" over a newer copy.
- compiler: `L = {type: array, items: $ref L}` is flagged as having omitted children
  though it declares none; an envelope inside `allOf` yields no fields.
- `otl api`: bounds are compared as `f64`, so an integer beyond 2^53 may pass one;
  extreme exponents overflow the arithmetic of `decimal_parts`.
- comments: a lost answer to the first request is reported as a failure of a request
  that may have been committed.
- display: a cell of a control and a joiner counts as content and renders blank; a
  wide character at the last column is under-counted by `wrapped_rows`; a cell that is
  cut "to fit every cell limit" (`render.rs:497`) may have one character more than
  `MAX_CELL_CHARS`, because the ellipsis is not counted (`render.rs:524`).

## Proofs

Every theorem holds for any number of processes, threads, connections, targets,
instances, tokens and rows and for every limit, from the assumptions named in the
modules. Each safety theorem rests on an inductive invariant that TLC checked
first; what follows says what it adds to the property and why that is needed.

`TokenRefreshProofs`: none of the interesting invariants is inductive on its own.
`StoredTokenIsCurrent` says that a retired token may be in the file only while
the process that spent it is about to save its successor. To preserve it one has
to know that this process still has the lock (`LockIsHeld`), that what it read is
what the file holds (`ReadIsStillStored`), that its answer is newer than
everything (`IssuedOnly`) and not itself retired (`ExchangeInv`). `IInv` is their
conjunction, with the types. The proof has one lemma per action; three frame
lemmas carry most of them: a step outside the lock changes nothing shared, a step
within it changes only how far the exchange has come, a step out of it must
remember an answer it drops. From `Invariance` follow the types, the stored
token, the absence of lost updates, and two action properties (`NoResurrection`,
`ReauthIsJustified`). The two about the memory of a process (`MemoryOnlyAdvances`,
`ReplayUsesAnotherToken`) need `MemoryInv` beside it: no memory is ahead of the
file or of the answer about to be saved, and the token that was refused is the one
in memory.

`LoginLogoutProofs`: `OneInstance` relates the parts of a profile. It is
inductive once it is known that what a process is about to write belongs to the
instance it was started for: the client it signs in with and the session it was
granted, and that a login has the options of a login (`OwnInstance`). `LInv` is the conjunction of the types, `OwnInstance` and
`OneInstance`. The types are proved in three parts, for the file, the server and
the processes, since a step disturbs one or two of them; `EndLocal`, `GotoLocal`
and `AcquiredLocal` are about the ways a process moves on, and `LoginStoresInv`
about a transaction, which finds the profile empty or bound to the instance of
the command. From `Invariance` follow the types and the binding.

To it come three parts. `Sessions`: no token is issued
twice, so a session with the token of a login is that login's, and a login that
asked the server about another one finds another one still. `Told`: what a logout
was told of its token stays true while it waits. `Numbering`: an application has one
number for good, so that a record with its number is its record, and one that was
deleted does not come back. Labels, irreversible removals and "signed out" follow
from the first two. `NobodyIsOrphaned` has no hypothesis about
`--client-id`: a client that the server takes to the consent screen is one that otl
registered at its own port, or no registration of otl's at all (`Accepts`).

`RequestChannelProofs`: the rows are ordered by number, and a page is defined by
ranks; the lemmas about ranks (`RankUnique`, `RowAtRank`, `RankInsert`, `RankDelete`)
are the ground. `Underway` says what holds of a command that has not ended: it has
performed nothing, its offset is the start and what it has listed, its list is
within the cap. `InStep` says that the list has exactly the rows of the ranks up to
the offset, and that a row that was there throughout is one of them or still to
come, while nothing moved in front of the offset. From `IInv` follow the types and
all four properties of what is reported.

`CredentialFileProofs`: `LockIsTheirs` says that a process past the check has the
lock of the inode that the name `lock` leads to, so there is one at most. `Separate`
says that no inode has two names and that what a power loss may bring back has none
but its own; so writing a temporary file changes neither the credential file nor
what may come back, which are whole and on disk (`Durable`). `Working` is what a
process has in hand at each stage: what the holder loaded is what is stored until it
renames or removes. The refinement has one step per action: it is a step of
`ProfileStore` under the mapping, or leaves the mapped variables alone.

`ChannelProofs`, the callback server: a connection waits in the backlog once (`Queued`) and is answered
with its verdict before anything is reported of it (`Answered`); the loop that serves
one itself serves no other (`InlineOne`); a reported code came with our redirect, and
a result is there only when the wait has ended (`Results`); the count of threads is
the number of connections a thread has (`Counted`).

The bucket: what is in it, carried on to the time of a grant, is at
most the burst less the requests granted since (`Paid`), and since the cap last took
something it is exactly that (`Tight`). The first bounds the requests in a stretch of
time, the second how long one waits. The document channel: a document is asked for at
the address that was checked, whatever the redirects did meanwhile, and once more
than was waited for (`Asking`, `Waited`).

What comes back over a channel: what is shown of a server's text is a part of the
text that was searched for fragments of the secrets (`TrimIs`, `BeginningIs`), and the
letters of a part of a text stand together among those of the text (`LettersOfPart`);
so a fragment that could be read in what is shown would have been found before
(`FragmentIn`). No pass over the text brings back a character that renders as nothing
(`NormalizeType`, `RedactAllType`).

A table: `EachOnce` is a sequence of all the elements of a set, each of them once.
The order of a schema is five such sequences, one after the other (`OnceJoined`,
`RankedOnce`), that of the keys without a schema four (`DataOnce`), and a filter and a
limit keep them so (`OncePicked`, `LeadingColumns`, `ColumnsChosen`). `KeptOfCell`
says that a cell always keeps a part that leaves room for the ellipsis, so
`CellsAreSafe`; and a text in which something can be seen is a cell in which something
can be seen, whole (`CleanedSame`) or cut (`CellShowsContent`). So `TablesTellForAll`.

`CommandProofs`, the cache: `Mine` says that the temporary file of a process is
known to that process only, and on disk before it is renamed; `Named` that whatever
the path names, or may name after a power loss, is a whole file of a document that
compiled; `Used` that a table in use came from such a file. `SyncTakesEffect` is an
action property from the same invariant. The skill: `Progress` is what an installer
knows of a target at each stage, `Earned` what the verdict says of it.

`DocumentProofs`: the file system is a set of entries, and most of the proof is about
their paths. `Good` names are those a document may get: `ClaimIsGood` shows that
`Claim` finds one that no name in use collides with, `PlacesDiffer` that siblings
have distinct places, so that the list of a node's children is well defined. `TreeStep` says once what any step may add to the
tree or take from it; every other part uses only that. `Labelled`: one entry at a
path, and a temporary file carries the run and document of its name. `Stacked`: the
directories being written exist, each in the one before. `InHand`: where the copies
of the current document are at each stage, and that its name is not one this run has
taken. `Landed`: a reported document is whole in its file, which is this run's own,
and each name on the way is on disk, or in a directory that is still to be flushed,
or the run knows that a flush failed; `Rooted` says the same of the directories made
for the output directory. `Tidy`: a temporary file of this run is the one in hand, or
reported. `ExportIsComplete` needs more than the tree: which documents the walk
reaches. `Plan` turns a listing into parents by following each row up and cutting the
way where it comes back (`LoopCut`), so the ways up end (`Grounded`), and every node
is under a root; a set of nodes that is closed downwards and worked off from its roots
is a `Forest`, and one step of the walk takes a node from it and puts its children in
(`TakesOne`). `CountInv` says with this that what was written, what failed and what
is in hand are one document each (`Tally`), and that what is still open waits on the
stack or is below what waits; when nothing waits, nothing is open. The induction is
over the steps of the machine, and over the rows of a listing by a least
counterexample. The assumptions: a listing is a sequence of rows of numbers, a stem is a
letter and what follows it, and no stem folds to the prefix of temporary names.

The same module has the proof for `docs update`. `CopyIsTrue` says that a copy with a
revision is the body the document had then, and that it is the body it has while the
revision is the same. `Asserted`: a revision is asserted of the document it was
exported from, and it is what the write is sent with; that rests on `FileSplits`,
that the block of an exported file, split off again, says what was exported and
leaves the caller's text. `PlanIsFresh`: a change to a section that is sent with the
document's revision is the one that its body asks for. So a server that looks at the
revision refuses the write, or the copy and the plan are of the body that is there.
`EditReplaces` is the lemma about anchors: one that stands in one place, sent back
with what it holds around the section, replaces the section and nothing else,
however far it was widened; without such an anchor the whole body is sent.
`TextIsKept` says that what is sent has no line but those of the document and of the
text, and is not blank. `UpdateAssumption` says that a text has no line that reads as
the fence of a block: such a line would be the caller's own, and `BodyIsText` is about
blocks that the program itself wrote.

`QuestionProofs` is about the readers, for every legible question. There is a lemma
for each stage of the code, and the theorem composes them.

- Settings: a credential comes from one layer and is paired with the address of
  another: `OneOwner` says whose the key of a variable is, `GatedOrigin` what the gate
  lets through, `ResolvedBelongs` that it holds for every source of a key
  (`KeysStayHomeForAll`). Discovery: an endpoint is taken only at
  the origin of an issuer that is the base itself (`DiscoveryStaysHomeForAll`).
- Doctor: `DoctorAgreesForAll` compares two pieces of code that share little. Each
  failure of opening a client is found again, with its exit code, in the check that
  doctor ends with (`FailedClient`); with a client that opened, the code is that of the
  request (`OpenedClient`); and what is said of connectivity is about the last request
  (`ReachableWhenAnswered`).
- Lists and counts: `Ascending` is defined without recursion, by how many places are
  lower, and `AscendingOf` (in `ChannelProofs`) shows that it lists each once and in order. `CountIsTrue`
  follows the walk of `count_nodes` round by round: what it has seen and what is on
  its stack are all of the structure that is not yet below the stack.
- Outlines: `ChainOf` and `AddressNames` say that the path of a heading leads back to
  it, `SectionsNest` that sections overlap only by nesting, and `GivenBackIsSame`, from
  `EditReplaces`, that a section that is given back as it was printed changes nothing.
- Display: the pager beside the command, an invariant of the machine, with what was
  fed into the pipe (`ShowFed`) for its types.

At the end is the program. A step of `Commands` is a step of one machine or a stutter
of it (`ProgramRuns`), so `Commands!Spec` implies the specification of each, and
`ProgramKeepsItsWord` says that all that was proved of the machines holds of it. What
was asked is legible (`AskedIsLegible`), which is all the theorems about the readers
assume. So `CredentialsAtHome`, `ReportsAgree` and `CommandsTypes` are theorems of the
program, as the run `commands` checks them.

Only model-checked, and why:

- `EveryRequestEnds`, `EveryCommandEnds`: liveness is out of the prover's reach;
- `TablesAreSound`: a schema is walked by RECURSIVE operators, which the prover does
  not take;
- `OutputIsHonest`: that a secret is not shown whole, or that honest text stays as it
  is, holds of the secrets there are (of which none holds a star or is a part of the
  mark that replaces it), not of every sequence.


## Not modelled, and the plan

Not modelled: PKCE (random bytes and one hash), the browser (starts one program),
completions, packaging and release scripts, the wording and layout of help,
`describe`, errors and JSON output, the TOML and JSON parsers, paths and platform
variants of the file operations (Windows, permission bits beyond "private"),
attachment redirects and `absolute_url` (one comparison each), `create`, `move`,
`delete` and the other commands that make one request and print.

Simplified: the tree of a cyclic listing depends on the order of the listing, and
the output directory is not swapped by others during an export; the first exact
redaction, before normalisation, makes no difference for secrets without whitespace
or hidden characters; one process makes one request at a time, except for
`Throttle`.

What would come next: the walk of a schema as a recursive function, so that it can be
proved about; and `otl api` beyond one request.

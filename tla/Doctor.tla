--------------------------------- MODULE Doctor ---------------------------------
(***************************************************************************)
(* otl doctor (commands/doctor/): eight checks in a row, the first problem of*)
(* which decides the exit code; and the command that it predicts.  A world w *)
(* is that of Settings, with what the network and the rest of the machine    *)
(* would answer:                                                            *)
(*   w.private       the directory of the credential file is the user's own  *)
(*   w.fresh         the stored session has not expired                     *)
(*   w.answers       what the instance answers, request by request           *)
(*   w.renewal       what the token endpoint makes of a refresh              *)
(*   w.cache         the spec cache: none, good or damaged                  *)
(*   w.local         the operations of the table in effect                  *)
(*   w.host          what the document host answers                         *)
(*   w.skills        the copies of the agent skill                          *)
(*   w.offline       --offline                                              *)
(***************************************************************************)
EXTENDS Settings, Failures

(* A failure of the settings, as the auth layer wraps it.                     *)
ConfigErrors ==
  {"ConfigFileUnreadable", "MalformedConfigFile", "CredentialInConfigFile", "UnknownProfile",
   "AmbiguousProfileApiKeyVar", "MissingUrl", "UnboundProfileCredential", "InvalidProfileUrl",
   "ConflictingUrl", "UnsupportedAuthMethod", "MissingApiKey", "ProfileApiKeyVarUnnameable",
   "MissingProfileApiKey", "MissingStoredCredential"}

Wrapped(error) ==
  IF error = "InvalidBaseUrl" THEN FailureOf("engine", error, 0)
  ELSE IF error \in {"InsecureTransport", "InstanceMismatch"} THEN FailureOf("oauth", error, 0)
  ELSE IF error \in ConfigErrors THEN FailureOf("config", error, 0)
  ELSE FailureOf("store", error, 0)

Answered(result) == [ok |-> TRUE, error |-> result]
Errored(e) == [ok |-> FALSE, error |-> e]

(* What the request channel makes of one answer that is not a 401: the       *)
(* answers are the results of the instance, or the kind of an error.         *)
Decoded(answer) ==
  IF answer.kind = "ok" THEN Answered(answer)
  ELSE Errored(FailureOf("engine", answer.kind, answer.status))

Renewal(w) ==
  IF w.renewal = "rejected" THEN Errored(FailureOf("engine", "ReauthRequired", 0))
  ELSE IF w.renewal = "unavailable" THEN Errored(FailureOf("engine", "CredentialUnavailable", 0))
  ELSE Answered("renewed")

(* One request: renew a session that has expired, send, and renew once after *)
(* a 401; a key is never renewed.                                           *)
SendResponse(w, from) ==
  LET session == from = "session"
      early   == session /\ ~w.fresh
      late    == session /\ w.answers[1].status = 401
      refused == Errored(FailureOf("engine", "Api", 401))
  IN  IF early /\ ~Renewal(w).ok THEN Renewal(w)
      ELSE IF w.answers[1].status # 401 THEN Decoded(w.answers[1])
      ELSE IF ~late THEN refused
      ELSE IF ~Renewal(w).ok THEN Renewal(w)
      ELSE IF w.answers[2].status = 401 THEN refused
      ELSE Decoded(w.answers[2])

(* The identity of the credential's owner.  The operation has to be in the    *)
(* table in effect.                                                         *)
NoOperation == FailureOf("oauth", "Malformed", 0)
FetchIdentity(w, from) ==
  IF "auth.info" \notin w.local THEN Errored(NoOperation)
  ELSE SendResponse(w, from)

-----------------------------------------------------------------------------
(* A check: its key, its status, the exit code of a problem.                 *)
Check(key, status) == [key |-> key, status |-> status, code |-> Success]
Problem(key, code) == [key |-> key, status |-> "problem", code |-> code]
ProblemOf(key, error) == Problem(key, ExitCodeOf(Wrapped(error)))

Configuration(w) ==
  IF Failed(LoadFile(w)) THEN Problem("configuration", Usage) ELSE Check("configuration", "ok")

CheckOf(key, result) ==
  IF Failed(result) THEN ProblemOf(key, result.error) ELSE Check(key, "ok")
InstanceCheck(w) == CheckOf("instance", ResolveInstance(w))

(* The file as lstat sees it, whatever reading it would say.                 *)
Permissions(w) ==
  IF w.store.at = "nothing" THEN "missing"
  ELSE IF w.store.at = "exposed" THEN "exposed"
  ELSE IF w.store.at = "link" THEN "unknown"
  ELSE "private"

CredentialHealth(w) ==
  [exists      |-> Permissions(w) # "missing",
   permissions |-> Permissions(w),
   readable    |-> Permissions(w) = "missing" \/ ~Failed(LoadStore(w)),
   directory   |-> w.private]

FileIsUsable(health) == health.permissions # "exposed" /\ health.readable

Grade_Directory(health) ==
  IF ~FileIsUsable(health) \/ ~health.directory THEN Problem("credentials", Usage)
  ELSE Check("credentials", "ok")

Grade(health) ==
  IF ~FileIsUsable(health) THEN Problem("credentials", Usage)
  ELSE IF ~health.directory THEN Check("credentials", "warn")
  ELSE Check("credentials", "ok")

Credentials(w) ==
  IF w.store.at = "nowhere" THEN Problem("credentials", Usage) ELSE Grade(CredentialHealth(w))

(* The credential the commands would use, approved by the same gate.         *)
RefusedBy(result) == [is |-> "refused", error |-> result.error]
Approval(credential) ==
  IF ~Failed(credential) THEN [is |-> "approved", from |-> credential.from]
  ELSE IF credential.error = "MissingApiKey" THEN [is |-> "absent"]
  ELSE RefusedBy(credential)
Choice(w, instance) ==
  IF Failed(instance) \/ w.store.at = "nowhere" THEN [is |-> "unchecked"]
  ELSE IF Failed(LoadStore(w)) THEN RefusedBy(LoadStore(w))
  ELSE Approval(ResolveCredential(w, instance))
Choose(w) == Choice(w, ResolveInstance(w))

CredentialCheck(chosen) ==
  IF chosen.is = "approved" THEN Check("credential", "ok")
  ELSE IF chosen.is = "absent" THEN Problem("credential", Usage)
  ELSE IF chosen.is = "refused" THEN ProblemOf("credential", chosen.error)
  ELSE Check("credential", "skipped")

Probe(outcome) ==
  IF outcome.ok THEN Check("connectivity", "ok")
  ELSE Problem("connectivity", ExitCodeOf(outcome.error))

Connectivity(w, chosen) ==
  IF w.offline \/ Failed(ResolveInstance(w)) \/ chosen.is # "approved"
  THEN Check("connectivity", "skipped")
  ELSE Probe(FetchIdentity(w, chosen.from))

(* Whether the report says that the instance answered.                       *)
Reachable(outcome) == outcome.ok \/ InstanceAnswered(outcome.error)

LocalSpec(w) == Check("local-spec", IF w.cache = "damaged" THEN "warn" ELSE "ok")

Diff(w) ==
  [missing    |-> w.host.names \ w.local,
   withdrawn  |-> w.local \ w.host.names,
   deprecated |-> w.host.deprecated \cap w.local]

CompareSpecs(w) ==
  Check("online-spec", IF \A part \in {"missing", "withdrawn", "deprecated"} : Diff(w)[part] = {}
                       THEN "ok" ELSE "warn")

(* A host that does not serve the document is a warning; an address that     *)
(* nothing would be fetched from is the user's own.                         *)
DocumentUnread(e) ==
  IF FetchExitCode(e) = Usage THEN Problem("online-spec", Usage) ELSE Check("online-spec", "warn")

OnlineSpec(w) ==
  IF w.offline THEN Check("online-spec", "skipped")
  ELSE IF w.host.answer = "document" THEN CompareSpecs(w)
  ELSE DocumentUnread(FailureOf("fetch", w.host.answer, w.host.status))

(* A copy of the skill: whose it is, its version against this binary's, and   *)
(* whether its text is this binary's.                                       *)
SkillState(copy) ==
  IF copy.is # "ours" THEN copy.is
  ELSE IF copy.current THEN "current"
  ELSE IF copy.version = "none" THEN "undeclared"
  ELSE IF copy.version = "this" THEN "edited"
  ELSE "behind"

SkillNeedsAttention(state) == state \notin {"current", "absent"}

SkillCheck(w) ==
  Check("skill", IF w.skills = {} THEN "skipped"
                 ELSE IF \E copy \in w.skills : SkillNeedsAttention(SkillState(copy)) THEN "warn"
                 ELSE "ok")

Examination(w, chosen) ==
  <<Configuration(w), InstanceCheck(w), Credentials(w), CredentialCheck(chosen),
    Connectivity(w, chosen), LocalSpec(w), OnlineSpec(w), SkillCheck(w)>>
ExamineAll(w) == Examination(w, Choose(w))

Problems(report) == {k \in DOMAIN report : report[k].status = "problem"}

(* The first problem decides.                                                *)
ReportExitCode(report) ==
  IF Problems(report) = {} THEN Success
  ELSE report[CHOOSE k \in Problems(report) : \A other \in Problems(report) : k <= other].code

(* The object of --json.                                                     *)
ReportValue(report) ==
  [healthy   |-> Problems(report) = {},
   problems  |-> Cardinality(Problems(report)),
   warnings  |-> Cardinality({k \in DOMAIN report : report[k].status = "warn"}),
   exit_code |-> ReportExitCode(report)]

-----------------------------------------------------------------------------
(* What the machine and the instance may be like.                           *)
Heard ==
  {r \in [kind : UselessAnswers \cup {"ok", "Transport", "InvalidRequest", "Api", "RateLimited"}, status : Nat] :
     r.status = 401 => r.kind = "Api"}
IsMachine(w) ==
  /\ IsWorld(w)
  /\ {w.private, w.fresh, w.offline} \subseteq BOOLEAN
  /\ {w.answers[1], w.answers[2]} \subseteq Heard

(* A command that makes one request: it stops at its own first failure.      *)
ExitCodeWith(w, client) ==
  LET outcome == SendResponse(w, client.credential.from)
  IN  IF Failed(client) THEN MapAuthError(Wrapped(client.error)).code
      ELSE IF ~outcome.ok THEN MapAuthError(outcome.error).code
      ELSE Success
CommandExitCode(w) == ExitCodeWith(w, OpenClient(w))

(* What happened on the wire: whether the probe got an answer of the        *)
(* instance, be it to its first request only.                               *)
Unanswered == {"Transport", "InvalidRequest"}
SomeAnswer(w, from) ==
  /\ "auth.info" \in w.local
  /\ from # "session" \/ w.fresh \/ Renewal(w).ok
  /\ w.answers[1].kind \notin Unanswered

(* A session was turned away with 401, and its renewal failed, or the request*)
(* that followed got no answer.                                             *)
RefusedThenLost(w, from) ==
  /\ SomeAnswer(w, from) /\ from = "session" /\ w.answers[1].status = 401
  /\ ~Renewal(w).ok \/ w.answers[2].kind \in Unanswered

(* The code that a report should have: that of the command, whatever the spec*)
(* cache and the skill are like, with two exceptions of the program.  Offline*)
(* nothing is asked.  And doctor has a request of its own, auth.info, and a *)
(* document of its own to fetch: a table without the one (ops.rs, find) and *)
(* an address nothing is fetched from are problems to it and to no other    *)
(* command.                                                                 *)
Expected(w, commandCode) ==
  IF Failed(OpenClient(w)) THEN commandCode
  ELSE IF w.offline THEN Success
  ELSE IF "auth.info" \notin w.local THEN ExitCodeOf(NoOperation)
  ELSE IF commandCode # Success THEN commandCode
  ELSE IF w.host.answer = "InvalidUrl" THEN Usage ELSE Success

(* doctor predicts the commands: whatever is wrong with the settings, the    *)
(* stores, the session and the instance, its exit code is the one to expect *)
(* (report.rs, blocking; doctor/mod.rs, rules 2 and 3; checks.rs, problem).  *)
(* It says that the instance answered exactly when an answer was heard, but *)
(* for one case: after a 401 the last failure alone speaks, so that of an   *)
(* instance that answered it is said that it did not, or that nothing was   *)
(* sent (checks.rs, outcome_summary: "fails at the token endpoint, before   *)
(* any request to the instance", which a renewal after a 401 does not).     *)
ReportPredicts(w, report, chosen, commandCode) ==
  LET healthy == ReportValue(report).healthy
      code == ReportExitCode(report)
  IN  /\ healthy <=> code = Success
      /\ code = Expected(w, commandCode)
      /\ chosen.is = "approved" =>
           (Reachable(FetchIdentity(w, chosen.from)) <=>
              SomeAnswer(w, chosen.from) /\ ~RefusedThenLost(w, chosen.from))
DoctorAgrees(w) == ReportPredicts(w, ExamineAll(w), Choose(w), CommandExitCode(w))
=============================================================================

-------------------------------- MODULE Failures --------------------------------
(***************************************************************************)
(* What a failure means to a script: the exit code of each error (errors.rs,*)
(* auth/mod.rs, exit.rs), and whether the instance had answered.  An error   *)
(* is the layer it comes from, its kind and the HTTP status it carries, 0    *)
(* when it carries none.                                                    *)
(***************************************************************************)
EXTENDS Naturals

Success == 0
Failure == 1
Usage == 2
ApiRequest == 3
Auth == 4
NotFound == 5
Server == 6
Network == 7
RateLimited == 8
Partial == 9
ExitCodes == Success..Partial

FailureOf(layer, kind, status) == [layer |-> layer, kind |-> kind, status |-> status]

(* Refused before anything was sent: the credential, the address, the        *)
(* arguments and the body of a call.                                        *)
LocalRefusals ==
  {"InvalidBaseUrl", "InvalidRequest", "UnknownParam", "MissingParam", "ComplexParam",
   "InvalidParamValue", "InexactNumber", "UnionBody", "UnsupportedBodyType", "InvalidRequestBody"}
(* The server answered, and its answer is of no use.                         *)
UselessAnswers ==
  {"InvalidResponse", "UnexpectedResponse", "Pagination", "InvalidPaginationSpec"}

StatusExitCode(status) ==
  IF status \in {401, 403} THEN Auth
  ELSE IF status = 404 THEN NotFound
  ELSE IF status \in 400..499 THEN ApiRequest
  ELSE IF status \in 500..599 THEN Server
  ELSE Failure

EngineExitCode(e) ==
  IF e.kind \in LocalRefusals \cup {"CredentialUnavailable"} THEN Usage
  ELSE IF e.kind = "ReauthRequired" THEN Auth
  ELSE IF e.kind = "Transport" THEN Network
  ELSE IF e.kind = "Api" THEN StatusExitCode(e.status)
  ELSE IF e.kind = "RateLimited" THEN RateLimited
  ELSE Failure

ServerAnswered(e) == e.kind \in UselessAnswers \cup {"Api", "RateLimited"}

(* The document host: never the instance.                                    *)
FetchExitCode(e) ==
  IF e.kind = "InvalidUrl" THEN Usage
  ELSE IF e.kind = "Transport" THEN Network
  ELSE IF e.kind = "Status" THEN StatusExitCode(e.status)
  ELSE IF e.kind = "RateLimited" THEN RateLimited
  ELSE Failure

(* Signing in again is what helps; or something on this machine.             *)
SignInAgain ==
  {"SessionExpired", "RotationLost", "AuthorizationDenied", "StateMismatch", "CallbackTimeout",
   "ForeignEndpoint", "IssuerMismatch"}
FixLocally ==
  {"RegistrationUnavailable", "NoCallbackPort", "InstanceMismatch", "ProfileBoundElsewhere",
   "InsecureTransport", "InsecureStoredEndpoint", "RetireFailed", "ConcurrentLogin"}

EndpointExitCode(status) ==
  IF status \in {401, 403} THEN Auth
  ELSE IF status = 429 THEN RateLimited
  ELSE IF status \in 500..599 THEN Server
  ELSE ApiRequest

OAuthExitCode(e) ==
  IF e.kind \in SignInAgain THEN Auth
  ELSE IF e.kind \in FixLocally THEN Usage
  ELSE IF e.kind = "Transport" THEN Network
  ELSE IF e.kind = "Endpoint" THEN EndpointExitCode(e.status)
  ELSE Failure

(* The code without the error, for doctor; and the error of a command.       *)
ExitCodeOf(e) ==
  IF e.layer = "engine" THEN EngineExitCode(e)
  ELSE IF e.layer = "oauth" THEN OAuthExitCode(e)
  ELSE Usage

MapAuthError(e) ==
  IF e.layer = "engine" THEN [code |-> EngineExitCode(e), cause |-> e]
  ELSE [code |-> ExitCodeOf(e), cause |-> e]

InstanceAnswered(e) == e.layer = "engine" /\ ServerAnswered(e)

(* What reaches the user: one object for a script, with the code of the      *)
(* process in it.                                                           *)
Rendered(failure) == [exit_code |-> failure.code, message |-> failure.cause]
=============================================================================

---------------------------------- MODULE Commands ----------------------------------
(***************************************************************************)
(* One invocation of otl: it runs one command, and each command is the     *)
(* machine of its own module.  A command that reads what somebody else has *)
(* written, a table of operations, the settings, a description or a list of*)
(* rows, is a question: the module's operator answers it in one step, and  *)
(* the property says what is right about the answer.                       *)
(*                                                                         *)
(* The commands share nothing but files modelled in their own modules, so  *)
(* their machines never interleave here.                                   *)
(***************************************************************************)
EXTENDS DocsExport, DocsUpdate, SpecCache, Loopback, SkillInstall, DocumentFetch,
        Display, Doctor, ApiCall, Discovery, Curated, DocsView, Redaction, Throttle

CONSTANTS
  Readable,     \* the kinds of things that are read
  Questions(_)  \* what a command may have to read, for each kind

(* What somebody else wrote is nothing that a reader would have refused to   *)
(* take in: files and answers are of the types that they are parsed into.    *)
Legible(kind, is) ==
  /\ kind = "settings" => IsWorld(is)
  /\ kind = "doctor" => IsMachine(is)
  /\ kind = "discovery" => /\ is.base \in Addresses_ /\ ValidAddress(is.base)
                          /\ IsAnswer(is.response)
  /\ kind = "comment update" => is.shows \in BOOLEAN
  /\ kind = "comments" => is.rows \in Seq(Range(is.rows)) /\ is.shows \in BOOLEAN
  /\ kind = "collections" => IsLookups(is.lookups)
  /\ kind = "view" => is \in Seq(BodyLines)
  /\ kind = "rows" => IsRows(is.rows) /\ IsRowSchema(is.schema)
  /\ kind = "server text" => is.raw \in Seq(Nat) /\ is.secrets \in Seq(Seq(Nat))
ASSUME QuestionsAssumption ==
  /\ "none" \notin Readable
  /\ \A kind \in Readable : \A is \in Questions(kind) : Legible(kind, is)

VARIABLES
  command,   \* the command that runs
  question   \* what it reads

commandVars == <<command, question, exportVars, updateVars, specVars, loopbackVars,
                 skillVars, fetchVars, showVars, throttleVars>>

Machines == {"docs export", "docs update", "spec sync", "auth login", "skill install",
             "fetch", "show", "requests"}
Unasked == [kind |-> "none", is |-> <<>>]

Init ==
  /\ command = "none" /\ question = Unasked
  /\ ExportInit /\ UpdateInit /\ SpecCacheInit /\ LoopbackInit /\ SkillInit /\ FetchInit /\ ShowInit /\ ThrottleInit

RunMachine(c) ==
  /\ command = "none"
  /\ command' = c
  /\ UNCHANGED <<question, exportVars, updateVars, specVars, loopbackVars, skillVars,
                 fetchVars, showVars, throttleVars>>

Ask ==
  /\ command = "none"
  /\ command' = "read"
  /\ \E kind \in Readable : \E is \in Questions(kind) : question' = [kind |-> kind, is |-> is]
  /\ UNCHANGED <<exportVars, updateVars, specVars, loopbackVars, skillVars, fetchVars, showVars, throttleVars>>

RunExport ==
  /\ command = "docs export" /\ ExportNext
  /\ UNCHANGED <<command, question, updateVars, specVars, loopbackVars, skillVars, fetchVars, showVars, throttleVars>>
RunUpdate ==
  /\ command = "docs update" /\ UpdateNext
  /\ UNCHANGED <<command, question, exportVars, specVars, loopbackVars, skillVars, fetchVars, showVars, throttleVars>>
RunSpecSync ==
  /\ command = "spec sync" /\ SpecCacheNext
  /\ UNCHANGED <<command, question, exportVars, updateVars, loopbackVars, skillVars, fetchVars, showVars, throttleVars>>
RunLogin ==
  /\ command = "auth login" /\ LoopbackNext
  /\ UNCHANGED <<command, question, exportVars, updateVars, specVars, skillVars, fetchVars, showVars, throttleVars>>
RunInstall ==
  /\ command = "skill install" /\ SkillNext
  /\ UNCHANGED <<command, question, exportVars, updateVars, specVars, loopbackVars, fetchVars, showVars, throttleVars>>
RunFetchDocument ==
  /\ command = "fetch" /\ FetchNext
  /\ UNCHANGED <<command, question, exportVars, updateVars, specVars, loopbackVars, skillVars, showVars, throttleVars>>
RunShowDocument ==
  /\ command = "show" /\ ShowNext
  /\ UNCHANGED <<command, question, exportVars, updateVars, specVars, loopbackVars, skillVars, fetchVars, throttleVars>>

RunRequests ==
  /\ command = "requests" /\ ThrottleNext
  /\ UNCHANGED <<command, question, exportVars, updateVars, specVars, loopbackVars, skillVars, fetchVars, showVars>>

Next ==
  \/ \E c \in Machines : RunMachine(c)
  \/ Ask \/ RunExport \/ RunUpdate \/ RunSpecSync \/ RunLogin \/ RunInstall
  \/ RunFetchDocument \/ RunShowDocument \/ RunRequests

Spec == Init /\ [][Next]_commandVars

-----------------------------------------------------------------------------
(* Each machine stays within its own types, and one command runs.           *)
CommandsTypeOK ==
  /\ command \in Machines \cup {"none", "read"}
  /\ question.kind \in Readable \cup {"none"}
  /\ ExportTypeOK /\ UpdateTypeOK /\ SpecTypeOK /\ LoopbackTypeOK /\ SkillTypeOK
  /\ FetchTypeOK /\ ShowTypeOK /\ ThrottleTypeOK

Asked(kind) == question.kind = kind

(* What a person is shown of what a server says (engine sanitize.rs): its    *)
(* text, without the secrets that it sends back.                            *)
OutputIsHonest ==
  Asked("server text") => TextIsSafe(question.is.raw, question.is.secrets)

(* Where credentials go (config/, auth/metadata.rs, engine sanitize.rs): none*)
(* is sent to an instance it was not given for, a login asks for one where  *)
(* the instance says that it is itself, and no part of one is shown when a  *)
(* server sends it back.                                                    *)
CredentialsStayHome ==
  /\ Asked("settings") => KeysStayHome(question.is)
  /\ Asked("discovery") => DiscoveryStaysHome(question.is.base, question.is.response)
  /\ Asked("server text") => FragmentsStayHidden(question.is.raw, question.is.secrets)

(* What a command says of what there is (doctor/mod.rs, comments.rs,         *)
(* collections.rs, docs/view.rs, render.rs, pager.rs): the report of doctor *)
(* and its code say what a command would meet, what is said to be done is   *)
(* done, a list is what was fetched, a count what there is, an address of an*)
(* outline names its section, a table shows what its rows carry, and a      *)
(* document is shown or the command fails.                                  *)
ReportAgrees ==
  /\ Asked("doctor") => DoctorAgrees(question.is)
  /\ Asked("comment update") => UpdateTells(question.is.args, question.is.answers, question.is.shows)
  /\ Asked("comments") => ListTells(question.is.rows, question.is.cut, question.is.args, question.is.shows)
  /\ Asked("collections") => CountsAreExact(question.is.lookups, question.is.cut)
  /\ Asked("view") => OutlineIsUsable(question.is)
  /\ Asked("rows") => TableTells(question.is.rows, question.is.schema, question.is.nested)
  /\ DocumentIsShown
=============================================================================

------------------------------- MODULE DocsUpdate -------------------------------
(***************************************************************************)
(* otl docs update (commands/docs/update.rs, anchor.rs, content.rs): a new *)
(* body, or a change to one section, is sent to a document that others edit*)
(* at the same time.  The caller works from a copy it exported earlier; the*)
(* command reads the document again when it needs an anchor or has been    *)
(* given a revision, and writes in a second request.                       *)
(***************************************************************************)
EXTENDS Markdown

CONSTANTS
  Documents,      \* ids, numbers
  FirstBodies,    \* the bodies they may start with
  NewTexts,       \* what a caller may write
  Addresses,      \* the sections a caller may name
  ForeignLines,   \* what somebody else may insert
  MaxEdits,       \* bound on edits by others
  MaxUpdates      \* bound on calls of the command

\* 0 stands for no document.  A text has no line that reads as a fence of a
\* block: what a file says about its document, its block says.
ASSUME UpdateAssumption ==
  /\ Documents \subseteq Nat \ {0}
  /\ FirstBodies \subseteq Seq(BodyLines) /\ ForeignLines \subseteq BodyLines
  /\ \A text \in NewTexts : text \in Seq(BodyLines) /\ Rule \notin ToSet(text)
  /\ MaxEdits \in Nat /\ MaxUpdates \in Nat

VARIABLES
  docs,           \* the documents: body and revision
  server,         \* whether it reports revisions, and honours lastRevision
  copy,           \* the caller's copy of one of them
  update,         \* the call that is running
  updateStage,
  plan,           \* the request it is about to send
  edits, updates

updateVars == <<docs, server, copy, update, updateStage, plan, edits, updates>>

NoCopy == [id |-> 0, revision |-> 0, body |-> <<>>]
NoPlan == [mode |-> "none", find |-> <<>>, text |-> <<>>, pinned |-> 0]
NoUpdate == [kind |-> "none", id |-> 0, text |-> <<>>, address |-> <<>>,
             pin |-> 0, fromCopy |-> 0]

Kinds == {"metadata", "replace", "append", "prepend", "patch", "section", "delete_section"}
NeedsBody(kind) == kind \notin {"metadata", "delete_section"}

\* The revision of a document as the server reports it; 0 for none.
Reported(id) == IF server.reports THEN docs[id].revision ELSE 0

UpdateTypeOK ==
  /\ \A d \in DOMAIN docs : docs[d].revision \in Nat \ {0}
  /\ copy.id \in Documents \cup {0}
  /\ update.kind \in Kinds \cup {"none"}
  /\ updateStage \in {"off", "idle", "read", "send"}
  /\ updateStage \in {"read", "send"} => update.id \in Documents
  /\ plan.mode \in Kinds \cup {"none"}
  /\ edits \in 0 .. MaxEdits /\ updates \in 0 .. MaxUpdates

UpdateInit ==
  /\ docs = <<>>
  /\ server = [reports |-> TRUE, honours |-> TRUE]
  /\ copy = NoCopy
  /\ update = NoUpdate /\ updateStage = "off" /\ plan = NoPlan
  /\ edits = 0 /\ updates = 0

\* The documents and the server there are.
Setup ==
  /\ updateStage = "off"
  /\ docs' \in [Documents -> {[body |-> b, revision |-> 1] : b \in FirstBodies}]
  /\ server' \in [reports : BOOLEAN, honours : BOOLEAN]
  /\ updateStage' = "idle"
  /\ UNCHANGED <<copy, update, plan, edits, updates>>

(* The caller exports a document: its block and its body are in a file.     *)
Export(id) ==
  /\ updateStage = "idle"
  /\ copy' = [id |-> id, revision |-> Reported(id), body |-> docs[id].body]
  /\ UNCHANGED <<docs, server, update, updateStage, plan, edits, updates>>

\* Somebody else inserts a line.
ForeignEdit(id, line, at) ==
  /\ updateStage # "off" /\ edits < MaxEdits
  /\ edits' = edits + 1
  /\ docs' = [docs EXCEPT ![id] =
                [body |-> InsertAt(@.body, at, line), revision |-> @.revision + 1]]
  /\ UNCHANGED <<server, copy, update, updateStage, plan, updates>>

-----------------------------------------------------------------------------
\* The file a caller writes a new text into: with the block of its copy.
File(text, withBlock) ==
  IF withBlock
  THEN Block([id |-> copy.id, urlId |-> 0, title |-> 1, revision |-> copy.revision])
         \o <<Blank>> \o text
  ELSE text

(* resolve_id: the argument, unless the file is about another document.     *)
ResolvedId(argument, front) ==
  IF argument = 0 THEN {front.id} \ {0}
  ELSE IF front.id \in {0, argument} THEN {argument} ELSE {}

(* content::supplied: a file that is blank once the block is off is no body,*)
(* and its block is forgotten with it.                                      *)
Supplied(file) ==
  LET split == Split(file)
  IN  IF IsBlank(split.body)
      THEN [front |-> NoFront, body |-> <<>>, given |-> FALSE]
      ELSE [front |-> split.front, body |-> split.body, given |-> TRUE]

\* pinned_revision
PinOf(ifRevision, front, force) ==
  IF ifRevision # 0 THEN ifRevision
  ELSE IF force THEN 0 ELSE front.revision

(* run, up to the first request: the options are refused, or the document   *)
(* and the revision asserted about it are known.                            *)
Call(kind, argument, file, address, ifRevision, force) ==
  /\ updateStage = "idle" /\ updates < MaxUpdates
  /\ updates' = updates + 1
  /\ LET body == Supplied(file)
         named == ResolvedId(argument, body.front)
         pin == PinOf(ifRevision, body.front, force)
     IN  IF named = {} \/ body.given # NeedsBody(kind)
         THEN UNCHANGED <<update, updateStage>>
         ELSE /\ update' = [kind |-> kind, id |-> CHOOSE id \in named : TRUE,
                            text |-> body.body, address |-> address, pin |-> pin,
                            fromCopy |-> IF body.given /\ Split(file).found THEN copy.id ELSE 0]
              /\ updateStage' = IF pin # 0 \/ kind \in {"patch", "section", "delete_section"}
                                THEN "read" ELSE "send"
  /\ plan' = [mode |-> kind, find |-> <<>>, text |-> Supplied(file).body, pinned |-> 0]
  /\ UNCHANGED <<docs, server, copy, edits>>

Refused ==
  /\ updateStage' = "idle" /\ update' = NoUpdate /\ plan' = NoPlan
  /\ UNCHANGED <<docs, server, copy, edits, updates>>

CheckRevision_Skipped == TRUE

\* check_revision: the revision asserted is the one the server reports.
CheckRevision == update.pin # 0 => Reported(update.id) = update.pin

\* The section the address names in the body just read, if it names one.
Named == Resolve(docs[update.id].body, update.address)

(* section_plan, and the refusal to empty a page that is one section.       *)
EmptiesThePage(edit) == edit.mode = "replace" /\ IsBlank(edit.text)
SectionEdit(body, section) ==
  EditOf(body, section,
         IF update.kind = "section" THEN NewSection(body, section, update.text) ELSE <<>>)
SectionPlan ==
  IF Cardinality(Named) # 1 THEN {}
  ELSE {edit \in {SectionEdit(docs[update.id].body, section) : section \in Named} :
          ~EmptiesThePage(edit)}

(* verify: the text to be found occurs once; here it is the first line of   *)
(* the caller's copy.                                                       *)
PatchPlan ==
  LET find == SubSeq(copy.body, 1, 1)
  IN  IF Cardinality(Occurrences(docs[update.id].body, find)) # 1 THEN {}
      ELSE {[mode |-> "patch", find |-> find, text |-> update.text]}

Plans ==
  CASE update.kind \in {"section", "delete_section"} -> SectionPlan
    [] update.kind = "patch" -> PatchPlan
    [] OTHER -> {[mode |-> update.kind, find |-> <<>>, text |-> update.text]}

Pin_AsAsserted == update.pin

\* What lastRevision will say: the revision read with the body, or asserted.
Pin ==
  IF update.kind \in {"section", "delete_section", "patch"}
  THEN Reported(update.id) ELSE update.pin

(* body_args: documents.info, the check, and the request.                   *)
Read ==
  /\ updateStage = "read"
  /\ IF ~CheckRevision \/ Plans = {}
     THEN Refused
     ELSE /\ \E p \in Plans : plan' = [mode |-> p.mode, find |-> p.find, text |-> p.text, pinned |-> Pin]
          /\ updateStage' = "send"
          /\ UNCHANGED <<docs, server, copy, update, edits, updates>>

Stale == server.honours /\ plan.pinned # 0 /\ plan.pinned # docs[update.id].revision

\* The bodies documents.update may leave; a patch that finds nothing fails.
Results(body) ==
  CASE plan.mode = "patch" ->
         {Applied(body, plan, at) : at \in Occurrences(body, plan.find)}
    [] plan.mode = "append" -> {body \o plan.text}
    [] plan.mode = "prepend" -> {plan.text \o body}
    [] plan.mode = "metadata" -> {body}
    [] OTHER -> {plan.text}

(* documents.update: 409 for a revision that has passed, on a server that   *)
(* looks at it.                                                             *)
Send ==
  /\ updateStage = "send"
  /\ IF Stale THEN UNCHANGED docs
     ELSE \/ \E body \in Results(docs[update.id].body) :
               docs' = [docs EXCEPT ![update.id] =
                          [body |-> body, revision |-> @.revision + 1]]
          \/ Results(docs[update.id].body) = {} /\ UNCHANGED docs
  /\ updateStage' = "idle" /\ update' = NoUpdate /\ plan' = NoPlan
  /\ UNCHANGED <<server, copy, edits, updates>>

\* The calls a caller makes: with the file of its copy, or a plain text.
Calls ==
  \E kind \in Kinds, argument \in Documents \cup {0}, address \in Addresses,
     text \in NewTexts \cup {<<>>}, withBlock \in BOOLEAN,
     ifRevision \in {0, copy.revision}, force \in BOOLEAN :
    /\ withBlock => copy # NoCopy
    /\ kind = "patch" => copy.body # <<>>
    /\ kind \notin {"section", "delete_section"} => address = CHOOSE a \in Addresses : TRUE
    /\ ifRevision # 0 => argument \in {0, copy.id}
    /\ Call(kind, argument, File(text, withBlock), address, ifRevision, force)

UpdateNext ==
  \/ Setup
  \/ \E id \in Documents : Export(id)
  \/ \E id \in Documents, line \in ForeignLines :
       \E at \in 1 .. (IF docs = <<>> THEN 0 ELSE Len(docs[id].body) + 1) :
         ForeignEdit(id, line, at)
  \/ Calls \/ Read \/ Send

UpdateSpec == UpdateInit /\ [][UpdateNext]_updateVars

-----------------------------------------------------------------------------
\* The write of the running update lands on a document.
Changed(id) ==
  /\ updateStage = "send" /\ updateStage' = "idle"
  /\ docs'[id].body # docs[id].body

(* A caller that asserts the revision of its copy, by --if-revision or by   *)
(* the block of the file, never overwrites a line somebody else wrote that  *)
(* its copy does not hold, where the server looks at lastRevision.          *)
NoUnseenLoss ==
  [][\A id \in DOMAIN docs :
       Changed(id) /\ update.pin # 0 /\ server.honours =>
         \A line \in ForeignLines :
           line \in ToSet(docs[id].body) =>
             line \in ToSet(docs'[id].body) \cup ToSet(copy.body)]_updateVars

(* A section edit leaves everything outside the one section its address     *)
(* names as it is when the write lands, not as it was when the body was     *)
(* read, where the server reports revisions and looks at them.              *)
OnlyTheSection ==
  [][\A id \in DOMAIN docs :
       /\ Changed(id)
       /\ update.kind \in {"section", "delete_section"}
       /\ server.reports /\ server.honours
       => LET old == docs[id].body  new == docs'[id].body
          IN  \E i \in Hits(old, update.address, TRUE) :
                /\ Cardinality(Resolve(old, update.address)) = 1
                /\ SubSeq(new, 1, i - 1) = SubSeq(old, 1, i - 1)
                /\ LET rest == Len(old) + 1 - End(old, i)
                   IN  /\ rest <= Len(new)
                       /\ SubSeq(new, Len(new) - rest + 1, Len(new))
                            = SubSeq(old, End(old, i), Len(old))]_updateVars

(* What was exported from one document is never written into another.       *)
RightDocument ==
  updateStage \in {"read", "send"} => update.fromCopy \in {0, update.id}

(* No update with a body leaves a document blank that was not, and none     *)
(* writes the metadata block of a file into it.                             *)
BodyIsText ==
  [][\A id \in DOMAIN docs :
       Changed(id) /\ NeedsBody(update.kind) =>
         /\ IsBlank(docs'[id].body) => IsBlank(docs[id].body)
         /\ Rule \in ToSet(docs'[id].body) => Rule \in ToSet(docs[id].body)]_updateVars

(* What holds of every update, whatever the server does with a revision.    *)
UpdateIsSafe == []RightDocument /\ NoUnseenLoss /\ BodyIsText
=============================================================================

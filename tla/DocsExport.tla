------------------------------ MODULE DocsExport ------------------------------
(***************************************************************************)
(* otl docs export (commands/docs/export.rs, outdir.rs, dir.rs, target.rs):*)
(* a collection is listed, every document is fetched, and each becomes one *)
(* file of a directory tree that mirrors the hierarchy.                    *)
(*                                                                         *)
(* The file system is a set of entries.  A path is a sequence of names,    *)
(* folded the way the file system folds them, which may be more than the   *)
(* command's own key does.  A file is published under its name by a link   *)
(* (or a rename, with --overwrite) from a temporary sibling.  Any step may *)
(* fail, the process may be killed, somebody else may save a file into the *)
(* tree meanwhile, and the export may be run again.                        *)
(***************************************************************************)
EXTENDS ExportTree

CONSTANTS
  Collections,  \* the listings a server may answer with
  MaxDepth,     \* tree::MAX_DEPTH
  MaxFaults,    \* bound on the steps that fail, and on files others save
  MaxRuns,      \* bound on how often the command is run
  Stem(_),      \* safe_stem: title -> name
  FsFold(_)     \* the letters the file system takes to be the same

ASSUME ExportBoundsAssumption ==
  MaxDepth \in Nat /\ MaxFaults \in Nat /\ MaxRuns \in Nat
ASSUME ListingsAssumption ==
  \A c \in Collections : c \in Seq([id : Nat, title : Nat, parent : Nat])
\* safe_stem is a letter and what follows; it never begins as TEMP_PREFIX does.
ASSUME StemsAssumption ==
  \A c \in Collections : \A i \in 1 .. Len(c) :
    LET stem == Stem(c[i].title)
    IN  /\ stem = <<Head(stem)>> \o Tail(stem) /\ Tail(stem) \in Seq(Nat)
        /\ Head(stem) \in STRING /\ Key(Head(stem)) \in STRING
        /\ FsFold(Head(stem)) \in STRING \ {"tmp"}

VARIABLES
  tree,         \* entries of the file system
  flushed,      \* paths whose entry is known to be on disk
  collection,   \* the documents of the collection
  listing,      \* the rows the enumeration returned
  overwrite,    \* --overwrite
  stage,        \* where the command stands
  stack,        \* directories being written, innermost last
  current,      \* the document being written
  fresh,        \* directories that gained an entry for the output directory
  exported,     \* what was written, in order
  failed,       \* what was not, in order
  ownFiles,     \* identities of the files this run wrote
  strays,       \* temporary files left after a publish, as reported
  cut,          \* how the enumeration ended: "no", "cap" or "limit"
  undurable,    \* a directory could not be flushed
  verdict,      \* how the command ended
  runs, faults

diskVars == <<tree, flushed>>
inputVars == <<collection, listing, overwrite, cut>>
walkVars == <<stack, current, fresh>>
reportVars == <<exported, failed, ownFiles, strays, undurable>>
budget == <<runs, faults>>
exportVars == <<diskVars, inputVars, stage, walkVars, reportVars, verdict, budget>>

Fold(name) == <<FsFold(name[1])>> \o Tail(name)

\* The output directory and the one above it; the working directory is <<>>.
Root == << <<"backup">>, <<"today">> >>
Md == 0
FileName(name) == Append(name, Md)
TempName(doc) == <<"tmp", runs, doc>>

(* An entry: a directory, or a file with the document it holds, the run     *)
(* that wrote it (its identity, with the document) and whether all of it is *)
(* there.  A file that somebody else saved holds document NoId.             *)
Dir(path) == [at |-> path, kind |-> "dir", doc |-> NoId, run |-> runs, whole |-> TRUE]
FileEntry(path, doc, run, whole) ==
  [at |-> path, kind |-> "file", doc |-> doc, run |-> run, whole |-> whole]

Exists(path) == \E e \in tree : e.at = path
At(path) == CHOOSE e \in tree : e.at = path
IsDir(path) == path = <<>> \/ (Exists(path) /\ At(path).kind = "dir")
EntriesOf(path) == {e \in tree : e.at # <<>> /\ Front(e.at) = path}
IsTemp(e) == Last(e.at)[1] = "tmp"

Top == Last(stack)
NoDocument == [doc |-> NoId, name |-> <<>>]
Target == Append(Top.dir, Fold(FileName(current.name)))
TempPath == Append(Top.dir, TempName(current.doc))

Stages == {"idle", "prepare", "list", "walk", "fetch", "create", "fill",
           "publish", "unlink", "record", "parents", "finish", "done"}

ExportTypeOK ==
  /\ \A e \in tree : e.kind \in {"dir", "file"} /\ e.whole \in BOOLEAN
  /\ \A e \in tree : Len(e.at) <= Len(Root) + MaxDepth + 1
  /\ \A e, f \in tree : e.at = f.at => e = f
  /\ overwrite \in BOOLEAN /\ undurable \in BOOLEAN
  /\ stage \in Stages
  /\ Len(stack) <= MaxDepth + 1
  /\ cut \in {"no", "cap", "limit"}
  /\ verdict \in {"none", "complete", "partial", "refused"}
  /\ runs \in 0 .. MaxRuns /\ faults \in 0 .. MaxFaults

ExportInit ==
  /\ tree = {} /\ flushed = {}
  /\ collection = <<>> /\ listing = <<>> /\ overwrite = FALSE /\ cut = "no"
  /\ stage = "idle" /\ stack = <<>> /\ current = NoDocument /\ fresh = <<>>
  /\ exported = <<>> /\ failed = <<>> /\ ownFiles = {} /\ strays = {}
  /\ undurable = FALSE /\ verdict = "none"
  /\ runs = 0 /\ faults = 0

\* One of the things that may fail does.
Fault == faults < MaxFaults /\ faults' = faults + 1

\* The command ends before it has written anything.
Refuse ==
  /\ stage' = "done"
  /\ verdict' = "refused"

-----------------------------------------------------------------------------
(* The command is called, on the same collection each time.                 *)
ExportStart ==
  /\ stage \in {"idle", "done"}
  /\ runs < MaxRuns
  /\ runs' = runs + 1
  /\ IF runs = 0 THEN collection' \in Collections ELSE UNCHANGED collection
  /\ overwrite' \in BOOLEAN
  /\ stage' = "prepare"
  /\ verdict' = "none"
  /\ listing' = <<>> /\ cut' = "no" /\ stack' = <<>> /\ current' = NoDocument
  /\ fresh' = <<>> /\ exported' = <<>> /\ failed' = <<>> /\ ownFiles' = {}
  /\ strays' = {} /\ undurable' = FALSE
  /\ UNCHANGED <<diskVars, faults>>

\* create_dir_recording: the first component that is not there.
NextMissing ==
  LET missing == {k \in 1 .. Len(Root) : ~Exists(SubSeq(Root, 1, k))}
  IN  {SubSeq(Root, 1, k) : k \in {j \in missing : \A i \in missing : j <= i}}

(* inspect_dir: whatever the directory holds, leftovers of a killed export  *)
(* included.                                                                *)
Contents == EntriesOf(Root)

(* prepare_out_dir, one component at a time: what is missing is created and *)
(* its parent remembered; a directory that holds anything is refused unless *)
(* --overwrite is given.                                                    *)
Prepare ==
  /\ stage = "prepare"
  /\ \/ \E path \in NextMissing :
          /\ tree' = tree \cup {Dir(path)}
          /\ fresh' = <<Front(path)>> \o fresh
          /\ UNCHANGED <<stage, verdict, faults>>
     \/ /\ NextMissing = {}
        /\ IF Contents # {} /\ ~overwrite /\ fresh = <<>>
           THEN Refuse ELSE stage' = "list" /\ UNCHANGED verdict
        /\ UNCHANGED <<tree, fresh, faults>>
     \/ Fault /\ Refuse /\ UNCHANGED <<tree, fresh>>
  /\ UNCHANGED <<flushed, inputVars, stack, current, reportVars, runs>>

(* The enumeration, which the page cap or --limit may cut short, and the    *)
(* plan.  A row without an id is a document that was never fetched.         *)
List ==
  /\ stage = "list"
  /\ \/ /\ \/ listing' = collection /\ cut' = "no"
           \/ /\ collection # <<>>
              /\ listing' = Front(collection)
              /\ cut' \in {"cap", "limit"}
        /\ LET plan == Plan(listing')
           IN  /\ stack' = <<[dir |-> Root, pending |-> Children(plan, NoId),
                              names |-> {}]>>
               /\ failed' = [k \in 1 .. Cardinality(plan.unusable) |-> NoId]
        /\ stage' = "walk"
        /\ UNCHANGED <<verdict, faults>>
     \/ Fault /\ Refuse /\ UNCHANGED <<listing, cut, stack, failed>>
  /\ UNCHANGED <<diskVars, collection, overwrite, current, fresh, exported, ownFiles, strays, undurable, runs>>

Fail_FirstOnly(docs) ==
  /\ failed' = Append(failed, docs[1])
  /\ current' = NoDocument

(* The document being written could not be: the next one is taken up.       *)
Fail(docs) ==
  /\ failed' = failed \o docs
  /\ current' = NoDocument

\* The plan of this run, and the name the next document claims.
Planned == Plan(listing)
Node == Head(Top.pending)
Name == Claim(Top.names, Stem(Title(Planned, Node)))
Deep == Len(stack) > MaxDepth

\* The top of the stack, with the name claimed and the document taken off.
Advanced(more) ==
  [Top EXCEPT !.pending = Tail(Top.pending) \o more,
              !.names = @ \cup {KeyOf(Name)}]

WithTop(frame) == Append(Front(stack), frame)

(* write_level on a document without children, or at the depth cap, where   *)
(* its children are written next to it.                                     *)
WriteHere ==
  /\ stage = "walk" /\ stack # <<>> /\ Top.pending # <<>>
  /\ Children(Planned, Node) = <<>> \/ Deep
  /\ stack' = WithTop(Advanced(Children(Planned, Node)))
  /\ current' = [doc |-> Node, name |-> Name]
  /\ stage' = "fetch"
  /\ UNCHANGED <<diskVars, inputVars, fresh, reportVars, verdict, budget>>

(* write_branch: the document's directory is created, or accepted when it is*)
(* one, and the document goes into it under its own name.  Without the      *)
(* directory nothing below it can be written either.                        *)
WriteBranch ==
  /\ stage = "walk" /\ stack # <<>> /\ Top.pending # <<>>
  /\ Children(Planned, Node) # <<>> /\ ~Deep
  /\ LET path == Append(Top.dir, Fold(Name))
         below == SetToSeq(Descendants(Planned, Node))
     IN  \/ /\ IsDir(path) \/ ~Exists(path)
            /\ tree' = IF IsDir(path) THEN tree ELSE tree \cup {Dir(path)}
            /\ stack' = Append(WithTop(Advanced(<<>>)),
                               [dir |-> path, pending |-> Children(Planned, Node),
                                names |-> {KeyOf(Name)}])
            /\ current' = [doc |-> Node, name |-> Name]
            /\ stage' = "fetch"
            /\ UNCHANGED <<failed, faults>>
         \/ /\ IF Exists(path) /\ ~IsDir(path) THEN UNCHANGED faults ELSE Fault
            /\ Fail(<<Node>> \o below)
            /\ stack' = WithTop(Advanced(<<>>))
            /\ UNCHANGED <<stage, tree>>
  /\ UNCHANGED <<flushed, inputVars, fresh, exported, ownFiles, strays, undurable, verdict, runs>>

-----------------------------------------------------------------------------
(* write_document: a step that fails sends the walk on, and the temporary   *)
(* file away, if that works.                                                *)
GiveUp ==
  /\ Fail(<<current.doc>>)
  /\ stage' = "walk"
  /\ tree' \in {tree} \cup {tree \ {e} : e \in {f \in tree : f.at = TempPath}}
  /\ UNCHANGED <<stack, exported, ownFiles, strays>>

StepOr(guard, step) ==
  /\ guard
  /\ \/ step /\ UNCHANGED <<current, failed, stack, faults>>
     \/ GiveUp /\ Fault /\ UNCHANGED flushed
  /\ UNCHANGED <<inputVars, fresh, undurable, verdict, runs>>

\* documents.info, whose answer has to carry a text.
Fetch ==
  StepOr(stage = "fetch", stage' = "create" /\ UNCHANGED <<tree, flushed, exported, ownFiles, strays>>)

Taken_Never == FALSE

\* check_not_already_taken: the destination is a file this run wrote.
Taken == Exists(Target) /\ At(Target).kind = "file"
         /\ [doc |-> At(Target).doc, run |-> At(Target).run] \in ownFiles

NameTaken ==
  /\ stage = "create" /\ Taken
  /\ GiveUp
  /\ UNCHANGED <<flushed, inputVars, fresh, undurable, verdict, budget>>

(* TempFile::create, in the directory as it was pinned: a new file or none. *)
CreateTemp ==
  StepOr(stage = "create" /\ ~Taken /\ ~Exists(TempPath),
         /\ tree' = tree \cup {FileEntry(TempPath, current.doc, runs, FALSE)}
         /\ stage' = "fill"
         /\ UNCHANGED <<flushed, exported, ownFiles, strays>>)

FillTemp ==
  StepOr(stage = "fill",
         /\ tree' = (tree \ {At(TempPath)}) \cup {FileEntry(TempPath, current.doc, runs, TRUE)}
         /\ stage' = "publish"
         /\ UNCHANGED <<flushed, exported, ownFiles, strays>>)

Published == [At(TempPath) EXCEPT !.at = Target]
AtTarget == {e \in tree : e.at = Target}

Replace_Always ==
  StepOr(stage = "publish" /\ ~IsDir(Target),
         /\ tree' = (tree \ ({At(TempPath)} \cup AtTarget)) \cup {Published}
         /\ flushed' = flushed \ {Target}
         /\ stage' = "record"
         /\ UNCHANGED <<exported, ownFiles, strays>>)

(* replace: the rename takes the place of whatever file is there, on disk   *)
(* once the directory is flushed again.                                     *)
Replace ==
  StepOr(stage = "publish" /\ overwrite /\ ~IsDir(Target),
         /\ tree' = (tree \ ({At(TempPath)} \cup AtTarget)) \cup {Published}
         /\ flushed' = flushed \ {Target}
         /\ stage' = "record"
         /\ UNCHANGED <<exported, ownFiles, strays>>)

(* link_exclusively: the link fails if the name is taken.                   *)
Link ==
  StepOr(stage = "publish" /\ ~overwrite /\ ~Exists(Target),
         /\ tree' = tree \cup {Published}
         /\ stage' = "unlink"
         /\ UNCHANGED <<flushed, exported, ownFiles, strays>>)

\* The name is taken, by a directory or, without --overwrite, by anything.
Occupied ==
  /\ stage = "publish"
  /\ IF overwrite THEN IsDir(Target) ELSE Exists(Target)
  /\ GiveUp
  /\ UNCHANGED <<flushed, inputVars, fresh, undurable, verdict, budget>>

(* The temporary name is removed; one that stays is reported.               *)
Unlink ==
  /\ stage = "unlink"
  /\ \/ tree' = tree \ {At(TempPath)} /\ UNCHANGED <<strays, faults>>
     \/ Fault /\ strays' = strays \cup {TempPath} /\ UNCHANGED tree
  /\ stage' = "record"
  /\ UNCHANGED <<flushed, inputVars, walkVars, exported, failed, ownFiles, undurable, verdict, runs>>

(* confirm_landing and the record of what was written.                      *)
Record ==
  StepOr(stage = "record",
         /\ exported' = Append(exported, [doc |-> current.doc, at |-> Target])
         /\ ownFiles' = ownFiles \cup {[doc |-> current.doc, run |-> runs]}
         /\ stage' = "walk"
         /\ UNCHANGED <<tree, flushed, strays>>)

-----------------------------------------------------------------------------
Flush(path) ==
  \/ /\ flushed' = flushed \cup {e.at : e \in EntriesOf(path)}
     /\ UNCHANGED <<undurable, faults>>
  \/ Fault /\ undurable' = TRUE /\ UNCHANGED flushed

(* A level is done: its directory is flushed.                               *)
FlushLevel ==
  /\ stage = "walk" /\ stack # <<>> /\ Top.pending = <<>>
  /\ Flush(Top.dir)
  /\ stack' = Front(stack)
  /\ stage' = IF Len(stack) = 1 THEN "parents" ELSE "walk"
  /\ UNCHANGED <<tree, inputVars, current, fresh, exported, failed, ownFiles, strays, verdict, runs>>

(* The directories above that were given an entry, deepest first.           *)
FlushParents ==
  /\ stage = "parents"
  /\ IF fresh = <<>>
     THEN stage' = "finish" /\ UNCHANGED <<flushed, fresh, undurable, faults>>
     ELSE Flush(Head(fresh)) /\ fresh' = Tail(fresh) /\ UNCHANGED stage
  /\ UNCHANGED <<tree, inputVars, stack, current, exported, failed, ownFiles, strays, verdict, runs>>

(* finish: exit 9 for a failure, for a listing the page cap cut, and for a  *)
(* directory that was not flushed.                                          *)
Finish ==
  /\ stage = "finish"
  /\ stage' = "done"
  /\ verdict' = IF failed = <<>> /\ ~undurable /\ cut # "cap" THEN "complete" ELSE "partial"
  /\ UNCHANGED <<diskVars, inputVars, walkVars, reportVars, budget>>

-----------------------------------------------------------------------------
(* The process is killed: what it wrote stays, and can be written over.     *)
Kill ==
  /\ stage \notin {"idle", "done"}
  /\ runs < MaxRuns
  /\ stage' = "done" /\ verdict' = "none"
  /\ exported' = <<>> /\ failed' = <<>> /\ ownFiles' = {} /\ strays' = {}
  /\ stack' = <<>> /\ current' = NoDocument /\ fresh' = <<>>
  /\ UNCHANGED <<diskVars, inputVars, undurable, budget>>

(* Somebody else saves a file under the name a document is about to get.    *)
SaveElsewhere ==
  /\ stage \in {"create", "fill", "publish"}
  /\ ~Exists(Target)
  /\ Fault
  /\ tree' = tree \cup {FileEntry(Target, NoId, 0, TRUE)}
  /\ UNCHANGED <<flushed, inputVars, stage, walkVars, reportVars, verdict, runs>>

Write ==
  \/ WriteHere \/ WriteBranch
  \/ Fetch \/ NameTaken \/ CreateTemp \/ FillTemp \/ Replace \/ Link \/ Occupied
  \/ Unlink \/ Record

ExportNext ==
  \/ ExportStart \/ Prepare \/ List
  \/ Write
  \/ FlushLevel \/ FlushParents \/ Finish
  \/ Kill \/ SaveElsewhere

ExportSpec == ExportInit /\ [][ExportNext]_exportVars

-----------------------------------------------------------------------------
Concluded == verdict \in {"complete", "partial"}
TimesReported(s, d) == Cardinality({i \in 1 .. Len(s) : s[i] = d})
Written == [i \in 1 .. Len(exported) |-> exported[i].doc]

(* At the end every document the listing named was reported once, as written*)
(* or as failed, and every row without an id as failed.                     *)
Accounted ==
  Concluded =>
    /\ \A d \in Nodes(listing) : TimesReported(Written \o failed, d) = 1
    /\ TimesReported(failed, NoId) = Cardinality(Unusable(listing))

(* A document reported as written is in its file, all of it, and no other   *)
(* document of the run took that file, whatever names the file system takes *)
(* to be one.                                                               *)
NoDocumentLost ==
  \A i \in 1 .. Len(exported) :
    \E e \in tree : /\ e.at = exported[i].at
                    /\ e.doc = exported[i].doc
                    /\ e.run = runs
                    /\ e.whole

(* A file under a document's name is never there in part, also when the     *)
(* export was killed or a step of it failed.                                *)
NeverPartial == \A e \in tree : IsTemp(e) \/ e.whole

(* Without --overwrite a file that somebody else put there is not replaced, *)
(* also when it appears while the document is being written.                *)
NothingClobbered ==
  [][~overwrite => \A e \in tree : e.run # runs \/ e.doc = NoId => e \in tree']_exportVars

(* A clean exit means that the documents survive a crash: every name on the *)
(* way to them is on disk, those in the output directory and those of the   *)
(* directories this run created to get there.                               *)
CleanIsDurable ==
  verdict = "complete" =>
    \A i \in 1 .. Len(exported) : \A k \in 1 .. Len(exported[i].at) :
      LET path == SubSeq(exported[i].at, 1, k)
      IN  k > Len(Root) \/ At(path).run = runs => path \in flushed

(* A clean exit without --limit means that no document of the collection is *)
(* missing from the tree.                                                   *)
CleanIsComplete ==
  (verdict = "complete" /\ cut # "limit") =>
    /\ \A k \in 1 .. Len(collection) : collection[k].id \in ToSet(Written)

(* A copy of a document under a temporary name is reported, unless a step   *)
(* of that document failed or the run was killed.                           *)
StraysReported ==
  Concluded => \A e \in tree :
    (IsTemp(e) /\ e.run = runs) => e.at \in strays \/ e.doc \in ToSet(failed)

(* What an export leaves on the disk, in every state of it.                 *)
ExportIsDurable == NoDocumentLost /\ NeverPartial /\ CleanIsDurable /\ StraysReported

(* What it says of the documents that were listed.                          *)
ExportIsComplete == Accounted /\ CleanIsComplete
=============================================================================

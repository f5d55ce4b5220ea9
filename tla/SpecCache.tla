-------------------------------- MODULE SpecCache --------------------------------
(***************************************************************************)
(* The cache of the compiled specification (spec/cache.rs, spec/openfile.rs*)
(* commands/spec.rs, ops.rs).  `otl spec sync` compiles a document and     *)
(* renames a new file over the cache, `otl spec reset` deletes it, and     *)
(* every command that needs the table of operations loads it once or falls *)
(* back to the table built into the binary.  Processes of two versions of  *)
(* the program do this at the same time; the machine may lose power, the   *)
(* path may become a pipe, and a file may be damaged.                      *)
(***************************************************************************)
EXTENDS Integers, FiniteSets, Sequences

CONSTANTS
  SpecProcs,      \* processes, each runs one command
  SpecVersion,    \* the version of the program each of them is
  SpecDocs,       \* the documents upstream may serve
  Usable(_),      \* whether a document compiles into a table that fits
  MaxSpecFaults   \* bound on power losses, pipes, damage and failed steps

ASSUME SpecCacheAssumption == MaxSpecFaults \in Nat

VARIABLES
  inodes,     \* the files there are: what they hold and whether it is on disk
  path,       \* what the cache path names: an inode, none, or a pipe
  durable,    \* the names it may have after a power loss
  sp,         \* the processes
  specFaults

specVars == <<inodes, path, durable, sp, specFaults>>

NoFile == 0
Pipe == -1
BuiltIn == 0      \* the table of the binary; a document is its table's number

\* A cache file: the document, the version of the program that compiled it, and
\* how much of it there is.
Cached(doc, version, state) == [doc |-> doc, version |-> version, state |-> state]

Idle == [stage |-> "idle", command |-> "none", doc |-> 0, seen |-> NoFile,
         temp |-> NoFile, table |-> BuiltIn, from |-> NoFile, result |-> "none"]

SpecTypeOK ==
  /\ \A i \in DOMAIN inodes :
       /\ inodes[i].doc \in SpecDocs
       /\ inodes[i].version \in {SpecVersion[q] : q \in SpecProcs}
       /\ inodes[i].state \in {"partial", "whole", "synced", "damaged", "gone"}
  /\ path \in DOMAIN inodes \cup {NoFile, Pipe}
  /\ durable \subseteq DOMAIN inodes \cup {NoFile, Pipe}
  /\ \A p \in SpecProcs :
       /\ sp[p].command \in {"none", "use", "sync", "reset"}
       /\ sp[p].temp \in DOMAIN inodes \cup {NoFile}
       /\ sp[p].table \in SpecDocs \cup {BuiltIn}
       /\ sp[p].result \in {"none", "done", "unchanged", "failed"}
       /\ sp[p].stage = "rename" => inodes[sp[p].temp].state # "gone"
  /\ specFaults \in 0 .. MaxSpecFaults

SpecCacheInit ==
  /\ inodes = <<>> /\ path = NoFile /\ durable = {NoFile}
  /\ sp = [p \in SpecProcs |-> Idle]
  /\ specFaults = 0

SpecFault == specFaults < MaxSpecFaults /\ specFaults' = specFaults + 1

Goes(p, process) == sp' = [sp EXCEPT ![p] = process]
EndSpec(p, result) == Goes(p, [sp[p] EXCEPT !.stage = "done", !.result = result])

-----------------------------------------------------------------------------
(* A command begins.                                                        *)
Begin(p, command) ==
  /\ sp[p].stage = "idle"
  /\ Goes(p, [sp[p] EXCEPT !.command = command,
                           !.stage = IF command = "reset" THEN "unlink" ELSE "stat"])
  /\ UNCHANGED <<inodes, path, durable, specFaults>>

\* Where a load that came to its end leaves the process.
AfterLoad(p) ==
  CASE sp[p].command = "use" -> "done"
    [] sp[p].doc # 0 -> "compare"
    [] OTHER -> "fetch"

(* resolve: the table this process works with, and the file it is from.  The*)
(* load that spec sync makes to compare the documents is a second one.      *)
Loaded(p, table, file) ==
  Goes(p, [sp[p] EXCEPT !.stage = AfterLoad(p), !.table = table, !.from = file])

(* stat_regular: no cache at all is the silent case; a pipe is refused      *)
(* before it is opened.                                                     *)
Stat(p) ==
  /\ sp[p].stage = "stat"
  /\ IF path \in {NoFile, Pipe} THEN Loaded(p, BuiltIn, NoFile)
     ELSE Goes(p, [sp[p] EXCEPT !.stage = "open", !.seen = path])
  /\ UNCHANGED <<inodes, path, durable, specFaults>>

\* is_same_file: what was opened is what was looked at.
OpensAt(p) == path = sp[p].seen

VersionsAgree_Any(p, file) == TRUE

\* check_versions
VersionsAgree(p, file) == file.version = SpecVersion[p]

(* read_capped and load_at: the open gives up on a pipe after a time; a file*)
(* that is another one, damaged or of another version is discarded.         *)
Open(p) ==
  /\ sp[p].stage = "open"
  /\ IF /\ OpensAt(p)
        /\ inodes[path].state \in {"whole", "synced"}
        /\ VersionsAgree(p, inodes[path])
     THEN Loaded(p, inodes[path].doc, path)
     ELSE Loaded(p, BuiltIn, NoFile)
  /\ UNCHANGED <<inodes, path, durable, specFaults>>

-----------------------------------------------------------------------------
\* compile: of a document this build can use.
Compile(p, doc) ==
  IF Usable(doc) THEN Goes(p, [sp[p] EXCEPT !.stage = "create", !.doc = doc])
  ELSE EndSpec(p, "failed")

(* load_document, which may fail.  With --force nothing is compared.        *)
FetchSpec(p, force) ==
  /\ sp[p].stage = "fetch"
  /\ \/ \E d \in SpecDocs :
          /\ IF force THEN Compile(p, d)
             ELSE Goes(p, [sp[p] EXCEPT !.stage = "stat", !.doc = d])
          /\ UNCHANGED specFaults
     \/ EndSpec(p, "failed") /\ SpecFault
  /\ UNCHANGED <<inodes, path, durable>>

(* unchanged_report: the cache holds the same document and is usable here.  *)
Compare(p) ==
  /\ sp[p].stage = "compare"
  /\ IF sp[p].table = sp[p].doc THEN EndSpec(p, "unchanged") ELSE Compile(p, sp[p].doc)
  /\ UNCHANGED <<inodes, path, durable, specFaults>>

(* store_at: a new file next to the cache.                                  *)
CreateFile(p) ==
  /\ sp[p].stage = "create"
  /\ inodes' = Append(inodes, Cached(sp[p].doc, SpecVersion[p], "partial"))
  /\ Goes(p, [sp[p] EXCEPT !.stage = "write", !.temp = Len(inodes) + 1])
  /\ UNCHANGED <<path, durable, specFaults>>

\* The temporary file is removed when its guard is dropped.
DropTemp(p) == inodes' = [inodes EXCEPT ![sp[p].temp].state = "gone"]

(* write_all: the content is on disk before the file gets its name.         *)
WriteFile(p) ==
  /\ sp[p].stage = "write"
  /\ \/ /\ inodes' = [inodes EXCEPT ![sp[p].temp].state = "synced"]
        /\ Goes(p, [sp[p] EXCEPT !.stage = "rename"])
        /\ UNCHANGED specFaults
     \/ DropTemp(p) /\ EndSpec(p, "failed") /\ SpecFault
  /\ UNCHANGED <<path, durable>>

RenameFile_Unchecked(p) ==
  /\ sp[p].stage = "rename"
  /\ \/ /\ path' = sp[p].temp
        /\ durable' = durable \cup {sp[p].temp}
        /\ EndSpec(p, "done")
        /\ UNCHANGED <<inodes, specFaults>>
     \/ DropTemp(p) /\ EndSpec(p, "done") /\ SpecFault /\ UNCHANGED <<path, durable>>

(* persist: the rename, which the directory may or may not keep.            *)
RenameFile(p) ==
  /\ sp[p].stage = "rename"
  /\ \/ /\ path' = sp[p].temp
        /\ durable' = durable \cup {sp[p].temp}
        /\ EndSpec(p, "done")
        /\ UNCHANGED <<inodes, specFaults>>
     \/ DropTemp(p) /\ EndSpec(p, "failed") /\ SpecFault /\ UNCHANGED <<path, durable>>

(* reset *)
UnlinkFile(p) ==
  /\ sp[p].stage = "unlink"
  /\ \/ /\ path' = NoFile
        /\ durable' = durable \cup {NoFile}
        /\ EndSpec(p, "done")
        /\ UNCHANGED specFaults
     \/ EndSpec(p, "failed") /\ SpecFault /\ UNCHANGED <<path, durable>>
  /\ UNCHANGED inodes

-----------------------------------------------------------------------------
(* The machine loses power: the path names one of the files it has named    *)
(* since its directory was last on disk, and what was not flushed is lost.  *)
PowerLoss ==
  /\ SpecFault
  /\ \E i \in durable : path' = i /\ durable' = {i}
  /\ inodes' = [i \in DOMAIN inodes |->
                  [inodes[i] EXCEPT !.state =
                     IF inodes[i].state = "whole" THEN "partial" ELSE inodes[i].state]]
  /\ sp' = [p \in SpecProcs |->
              IF sp[p].stage \in {"idle", "done"} THEN sp[p]
              ELSE [sp[p] EXCEPT !.stage = "done", !.result = "none"]]

\* The directory reaches the disk at some time.
FlushDirectory ==
  /\ durable # {path}
  /\ durable' = {path}
  /\ UNCHANGED <<inodes, path, sp, specFaults>>

(* Somebody puts a pipe where the cache is, or the file is damaged.         *)
Tamper ==
  /\ SpecFault
  /\ \/ path' = Pipe /\ durable' = durable \cup {Pipe} /\ UNCHANGED inodes
     \/ /\ path \in DOMAIN inodes
        /\ inodes' = [inodes EXCEPT ![path].state = "damaged"]
        /\ UNCHANGED <<path, durable>>
  /\ UNCHANGED sp

SpecCacheNext ==
  \/ \E p \in SpecProcs :
       \/ \E command \in {"use", "sync", "reset"} : Begin(p, command)
       \/ Stat(p) \/ Open(p) \/ Compare(p)
       \/ \E force \in BOOLEAN : FetchSpec(p, force)
       \/ CreateFile(p) \/ WriteFile(p) \/ RenameFile(p) \/ UnlinkFile(p)
  \/ PowerLoss \/ FlushDirectory \/ Tamper

SpecCacheSpec == SpecCacheInit /\ [][SpecCacheNext]_specVars

-----------------------------------------------------------------------------
(* The table a command works with is the built-in one, or one that the same *)
(* version of the program compiled and stored whole, whatever was done to   *)
(* the file while it was looked at, opened and read.                        *)
TableIsTrusted ==
  \A p \in SpecProcs :
    sp[p].table # BuiltIn =>
      /\ sp[p].from \in DOMAIN inodes
      /\ inodes[sp[p].from].doc = sp[p].table
      /\ inodes[sp[p].from].version = SpecVersion[p]
      /\ Usable(sp[p].table)

(* The cache path never names half a table: a power loss leaves an old file *)
(* or the new one, and each of them whole.                                  *)
NeverHalfACache ==
  path \in DOMAIN inodes => inodes[path].state \in {"whole", "synced", "damaged"}

(* A sync that failed leaves neither its temporary file nor a cache.        *)
FailureLeavesNothing ==
  \A p \in SpecProcs :
    sp[p].result = "failed" /\ sp[p].temp # NoFile =>
      inodes[sp[p].temp].state = "gone" /\ path # sp[p].temp

(* A sync reports success only when the cache is a file which a command of  *)
(* its own version loads, to the table of the document it fetched.          *)
SyncTakesEffect ==
  [][\A p \in SpecProcs :
       sp[p].command = "sync" /\ sp[p].result = "none" /\ sp'[p].result = "done" =>
         /\ path' \in DOMAIN inodes'
         /\ inodes'[path'].doc = sp[p].doc
         /\ inodes'[path'].version = SpecVersion[p]
         /\ inodes'[path'].state \in {"whole", "synced"}]_specVars

(* What a command may rely on in the cache, in every state of it.           *)
SpecCacheIsSound == TableIsTrusted /\ NeverHalfACache /\ FailureLeavesNothing
=============================================================================

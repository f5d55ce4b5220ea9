----------------------------- MODULE CommandProofs -----------------------------
(***************************************************************************)
(* Proofs about the commands, each a machine of its own: what a command may*)
(* rely on in the cache of the compiled specification, and what the exit   *)
(* code of a skill install says.                                           *)
(*                                                                         *)
(* The cache: a file is on disk before it has a name, and only the process *)
(* that made it knows it until then (Mine); so whatever the path names, or *)
(* may name after a power loss, is a whole file of a document that compiled*)
(* (TempNamed), and a load takes only one, of its own version (Used).      *)
(*                                                                         *)
(* The skill: how far an installer is says what it has found and done      *)
(* (Progress), and so what its verdict was earned by (Earned).             *)
(***************************************************************************)
EXTENDS SpecCache, SkillInstall, FiniteSetTheorems, SequenceTheorems, TLAPS

USE SpecCacheAssumption, SkillAssumption

-----------------------------------------------------------------------------
(* The cache: the invariant.                                                *)

FileStates == {"partial", "whole", "synced", "damaged", "gone"}
Versions == {SpecVersion[q] : q \in SpecProcs}
CacheFiles == [doc : SpecDocs, version : Versions, state : FileStates]
Files == 1 .. Len(inodes)

CacheStages == {"idle", "stat", "open", "compare", "fetch", "create", "write",
                "rename", "unlink", "done"}
SpecProcesses ==
  [stage : CacheStages, command : {"none", "use", "sync", "reset"},
   doc : SpecDocs \cup {0}, seen : Int, temp : Nat,
   table : SpecDocs \cup {BuiltIn}, from : Nat,
   result : {"none", "done", "unchanged", "failed"}]

(* What each variable holds, the shape of the records included.             *)
CacheTyped ==
  /\ inodes \in Seq(CacheFiles)
  /\ path \in Files \cup {NoFile, Pipe}
  /\ durable \subseteq Files \cup {NoFile, Pipe}
  /\ sp \in [SpecProcs -> SpecProcesses]
  /\ specFaults \in 0 .. MaxSpecFaults

(* Where a process stands: it opens a file it has looked at, compares and   *)
(* compiles a document it fetched, has a temporary file only once it made   *)
(* one and a result only at the end, and only a reset removes the cache.    *)
BeforeCreate == {"idle", "stat", "open", "compare", "fetch", "create", "unlink"}
Where ==
  \A p \in SpecProcs :
    /\ sp[p].temp \in Files \cup {NoFile}
    /\ sp[p].stage \in BeforeCreate => sp[p].temp = NoFile
    /\ sp[p].stage \in {"write", "rename"} => sp[p].temp # NoFile
    /\ sp[p].stage # "done" => sp[p].result = "none"
    /\ sp[p].stage = "open" => sp[p].seen \in Files
    /\ sp[p].stage = "compare" => sp[p].doc \in SpecDocs
    /\ sp[p].stage = "unlink" => sp[p].command = "reset"
    /\ sp[p].stage \in {"create", "write", "rename"} => Usable(sp[p].doc) /\ sp[p].doc \in SpecDocs

(* The temporary file of a process is its own, holds what it compiled and   *)
(* is on disk before the rename; the one of a sync that failed is gone.  No *)
(* name is or may become one of these.                                      *)
Unpublished(p) == sp[p].stage \in {"write", "rename"} \/ sp[p].result = "failed"
Mine ==
  \A p \in SpecProcs : sp[p].temp # NoFile =>
    /\ \A q \in SpecProcs : sp[q].temp = sp[p].temp => p = q
    /\ Unpublished(p) => path # sp[p].temp /\ sp[p].temp \notin durable
    /\ sp[p].stage \in {"write", "rename"} =>
         /\ inodes[sp[p].temp].doc = sp[p].doc
         /\ inodes[sp[p].temp].version = SpecVersion[p]
    /\ sp[p].stage = "rename" => inodes[sp[p].temp].state = "synced"
    /\ sp[p].result = "failed" => inodes[sp[p].temp].state = "gone"

(* What the path names, and what it may name after a power loss.            *)
TempNamed ==
  \A i \in Files : i = path \/ i \in durable =>
    /\ inodes[i].state \in {"synced", "damaged"}
    /\ Usable(inodes[i].doc)

(* What a command works with.                                               *)
Used ==
  \A p \in SpecProcs : sp[p].table # BuiltIn =>
    /\ sp[p].from \in Files
    /\ inodes[sp[p].from].doc = sp[p].table
    /\ inodes[sp[p].from].version = SpecVersion[p]
    /\ Usable(sp[p].table)

CacheInv == CacheTyped /\ Where /\ Mine /\ TempNamed /\ Used

-----------------------------------------------------------------------------
(* The cache: the steps.                                                    *)

(* A process moves, and the others do not.                                  *)
LEMMA ProcessMoves ==
  ASSUME CacheTyped, NEW p \in SpecProcs, NEW r \in SpecProcesses, Goes(p, r)
  PROVE  /\ sp' \in [SpecProcs -> SpecProcesses]
         /\ sp'[p] = r
         /\ \A q \in SpecProcs : q # p => sp'[q] = sp[q]
  BY DEF CacheTyped, Goes

(* A step of a process that has no file yet, and gets none.                 *)
LEMMA BeforeItsFile ==
  ASSUME CacheInv, NEW p \in SpecProcs, NEW r \in SpecProcesses, Goes(p, r),
         UNCHANGED <<inodes, path, durable>>, specFaults' \in 0 .. MaxSpecFaults,
         sp[p].stage \in BeforeCreate, r.temp = sp[p].temp,
         r.stage \in BeforeCreate \cup {"done"},
         r.stage # "done" => r.result = "none",
         r.stage = "open" => r.seen \in Files,
         r.stage = "compare" => r.doc \in SpecDocs,
         r.stage = "unlink" => r.command = "reset",
         r.stage = "create" => Usable(r.doc) /\ r.doc \in SpecDocs,
         r.table # BuiltIn =>
           /\ r.from \in Files /\ inodes[r.from].doc = r.table
           /\ inodes[r.from].version = SpecVersion[p] /\ Usable(r.table)
  PROVE  CacheInv'
<1>1. /\ sp' \in [SpecProcs -> SpecProcesses] /\ sp'[p] = r
      /\ \A q \in SpecProcs : q # p => sp'[q] = sp[q]
  BY ProcessMoves DEF CacheInv
<1>2. r.temp = NoFile
  BY DEF CacheInv, Where
<1>3. r.stage \notin {"write", "rename"}
  BY DEF BeforeCreate
<1>4. CacheTyped'
  BY <1>1 DEF CacheInv, CacheTyped, Files
<1>5. Where'
  BY <1>1, <1>2, <1>3 DEF CacheInv, Where, Files
<1>6. Mine'
  BY <1>1, <1>2 DEF CacheInv, Mine, Unpublished
<1>7. TempNamed'
  BY DEF CacheInv, TempNamed, Files
<1>8. Used'
  BY <1>1 DEF CacheInv, Used, Files
<1> QED
  BY <1>4, <1>5, <1>6, <1>7, <1>8 DEF CacheInv

(* A command begins, looks at the path, reads the file, fetches or compares.*)
LEMMA CommandBegins ==
  ASSUME CacheInv, NEW p \in SpecProcs, NEW command \in {"use", "sync", "reset"},
         Begin(p, command)
  PROVE  CacheInv'
<1> DEFINE r == [sp[p] EXCEPT !.command = command,
                              !.stage = IF command = "reset" THEN "unlink" ELSE "stat"]
<1>1. sp[p] \in SpecProcesses /\ sp[p].stage = "idle" /\ specFaults \in 0 .. MaxSpecFaults
  BY DEF CacheInv, CacheTyped, Begin
<1>2. r \in SpecProcesses
  BY <1>1 DEF SpecProcesses, CacheStages
<1>3. /\ r.temp = sp[p].temp /\ r.result = sp[p].result /\ r.command = command
      /\ r.table = sp[p].table /\ r.from = sp[p].from
      /\ r.stage = IF command = "reset" THEN "unlink" ELSE "stat"
  BY <1>1 DEF SpecProcesses
<1>4. sp[p].result = "none"
  BY <1>1 DEF CacheInv, Where
<1>5. Goes(p, r) /\ UNCHANGED <<inodes, path, durable, specFaults>>
  BY DEF Begin
<1>6. r.table # BuiltIn =>
           /\ r.from \in Files /\ inodes[r.from].doc = r.table
           /\ inodes[r.from].version = SpecVersion[p] /\ Usable(r.table)
  BY <1>3 DEF CacheInv, Used
<1> HIDE DEF r
<1> QED
  BY <1>1, <1>2, <1>3, <1>4, <1>5, <1>6, BeforeItsFile DEF BeforeCreate

(* A load ends, with a table that may be used.                              *)
LEMMA Loads ==
  ASSUME CacheInv, NEW p \in SpecProcs, sp[p].stage \in {"stat", "open"},
         NEW table \in SpecDocs \cup {BuiltIn}, NEW file \in Nat, Loaded(p, table, file),
         UNCHANGED <<inodes, path, durable, specFaults>>,
         table # BuiltIn =>
           /\ file \in Files /\ inodes[file].doc = table
           /\ inodes[file].version = SpecVersion[p] /\ Usable(table)
  PROVE  CacheInv'
<1> DEFINE r == [sp[p] EXCEPT !.stage = AfterLoad(p), !.table = table, !.from = file]
<1>1. sp[p] \in SpecProcesses /\ specFaults \in 0 .. MaxSpecFaults
  BY DEF CacheInv, CacheTyped
<1>2. /\ AfterLoad(p) \in {"done", "compare", "fetch"}
      /\ AfterLoad(p) = "compare" => sp[p].doc \in SpecDocs
  BY <1>1 DEF AfterLoad, SpecProcesses
<1>3. r \in SpecProcesses
  BY <1>1, <1>2 DEF SpecProcesses, CacheStages
<1>4. /\ r.temp = sp[p].temp /\ r.result = sp[p].result /\ r.stage = AfterLoad(p)
      /\ r.table = table /\ r.from = file /\ r.doc = sp[p].doc
  BY <1>1 DEF SpecProcesses
<1>5. sp[p].result = "none"
  BY DEF CacheInv, Where
<1>6. Goes(p, r)
  BY DEF Loaded
<1> HIDE DEF r
<1> QED
  BY <1>1, <1>2, <1>3, <1>4, <1>5, <1>6, BeforeItsFile DEF BeforeCreate

(* stat_regular                                                             *)
LEMMA Stats == ASSUME CacheInv, NEW p \in SpecProcs, Stat(p) PROVE CacheInv'
<1>1. sp[p] \in SpecProcesses /\ sp[p].stage = "stat" /\ specFaults \in 0 .. MaxSpecFaults
  BY DEF CacheInv, CacheTyped, Stat
<1>2. UNCHANGED <<inodes, path, durable, specFaults>>
  BY DEF Stat
<1>3. CASE Loaded(p, BuiltIn, NoFile)
  BY <1>1, <1>2, <1>3, Loads DEF BuiltIn, NoFile
<1>4. CASE /\ path \notin {NoFile, Pipe}
           /\ Goes(p, [sp[p] EXCEPT !.stage = "open", !.seen = path])
  <2> DEFINE r == [sp[p] EXCEPT !.stage = "open", !.seen = path]
  <2>1. path \in Files /\ path \in Int
    BY <1>4 DEF CacheInv, CacheTyped, Files
  <2>2. r \in SpecProcesses
    BY <1>1, <2>1 DEF SpecProcesses, CacheStages
  <2>3. /\ r.temp = sp[p].temp /\ r.result = sp[p].result /\ r.stage = "open"
        /\ r.table = sp[p].table /\ r.from = sp[p].from /\ r.seen = path
    BY <1>1 DEF SpecProcesses
  <2>4. sp[p].result = "none"
    BY <1>1 DEF CacheInv, Where
  <2>5. r.table # BuiltIn =>
           /\ r.from \in Files /\ inodes[r.from].doc = r.table
           /\ inodes[r.from].version = SpecVersion[p] /\ Usable(r.table)
    BY <2>3 DEF CacheInv, Used
  <2>6. Goes(p, r)
    BY <1>4
  <2> HIDE DEF r
  <2> QED
    BY <1>1, <1>2, <2>1, <2>2, <2>3, <2>4, <2>5, <2>6, BeforeItsFile DEF BeforeCreate
<1> QED
  BY <1>3, <1>4 DEF Stat

(* load_at                                                                  *)
LEMMA Opens == ASSUME CacheInv, NEW p \in SpecProcs, Open(p) PROVE CacheInv'
<1>1. sp[p].stage = "open" /\ UNCHANGED <<inodes, path, durable, specFaults>>
  BY DEF Open
<1>2. CASE Loaded(p, BuiltIn, NoFile)
  BY <1>1, <1>2, Loads DEF BuiltIn, NoFile
<1>3. CASE /\ OpensAt(p) /\ inodes[path].state \in {"whole", "synced"}
           /\ VersionsAgree(p, inodes[path]) /\ Loaded(p, inodes[path].doc, path)
  <2>1. path \in Files
    BY <1>1, <1>3 DEF CacheInv, Where, OpensAt
  <2>2. /\ inodes[path] \in CacheFiles /\ path \in Nat
    BY <2>1 DEF CacheInv, CacheTyped, Files
  <2>3. Usable(inodes[path].doc)
    BY <2>1 DEF CacheInv, TempNamed
  <2>4. inodes[path].doc \in SpecDocs /\ inodes[path].version = SpecVersion[p]
    BY <1>3, <2>2 DEF CacheFiles, VersionsAgree
  <2> QED
    BY <1>1, <1>3, <2>1, <2>2, <2>3, <2>4, Loads
<1> QED
  BY <1>2, <1>3 DEF Open

(* compile, of the document that was fetched or compared.                   *)
LEMMA Compiles ==
  ASSUME CacheInv, NEW p \in SpecProcs, sp[p].stage \in {"fetch", "compare"},
         NEW doc \in SpecDocs, Compile(p, doc),
         UNCHANGED <<inodes, path, durable, specFaults>>
  PROVE  CacheInv'
<1> DEFINE made == [sp[p] EXCEPT !.stage = "create", !.doc = doc]
           ended == [sp[p] EXCEPT !.stage = "done", !.result = "failed"]
<1>1. sp[p] \in SpecProcesses /\ specFaults \in 0 .. MaxSpecFaults
  BY DEF CacheInv, CacheTyped
<1>2. made \in SpecProcesses /\ ended \in SpecProcesses
  BY <1>1 DEF SpecProcesses, CacheStages
<1>3. /\ made.temp = sp[p].temp /\ made.result = sp[p].result /\ made.stage = "create"
      /\ made.table = sp[p].table /\ made.from = sp[p].from /\ made.doc = doc
  BY <1>1 DEF SpecProcesses
<1>4. /\ ended.temp = sp[p].temp /\ ended.stage = "done"
      /\ ended.table = sp[p].table /\ ended.from = sp[p].from
  BY <1>1 DEF SpecProcesses
<1>5. sp[p].result = "none"
  BY DEF CacheInv, Where
<1>6. sp[p].table # BuiltIn =>
        /\ sp[p].from \in Files /\ inodes[sp[p].from].doc = sp[p].table
        /\ inodes[sp[p].from].version = SpecVersion[p] /\ Usable(sp[p].table)
  BY DEF CacheInv, Used
<1>7. (Usable(doc) /\ Goes(p, made)) \/ Goes(p, ended)
  BY DEF Compile, EndSpec
<1> HIDE DEF made, ended
<1>8. CASE Usable(doc) /\ Goes(p, made)
  BY <1>1, <1>2, <1>3, <1>5, <1>6, <1>8, BeforeItsFile DEF BeforeCreate
<1>9. CASE Goes(p, ended)
  BY <1>1, <1>2, <1>4, <1>6, <1>9, BeforeItsFile DEF BeforeCreate
<1> QED
  BY <1>7, <1>8, <1>9

(* load_document                                                            *)
LEMMA Fetches ==
  ASSUME CacheInv, NEW p \in SpecProcs, NEW force \in BOOLEAN, FetchSpec(p, force)
  PROVE  CacheInv'
<1>1. sp[p] \in SpecProcesses /\ sp[p].stage = "fetch" /\ specFaults \in 0 .. MaxSpecFaults
  BY DEF CacheInv, CacheTyped, FetchSpec
<1>2. UNCHANGED <<inodes, path, durable>>
  BY DEF FetchSpec
<1>3. sp[p].result = "none"
  BY <1>1 DEF CacheInv, Where
<1>4. sp[p].table # BuiltIn =>
        /\ sp[p].from \in Files /\ inodes[sp[p].from].doc = sp[p].table
        /\ inodes[sp[p].from].version = SpecVersion[p] /\ Usable(sp[p].table)
  BY DEF CacheInv, Used
<1>5. ASSUME NEW d \in SpecDocs, Compile(p, d), UNCHANGED specFaults
      PROVE  CacheInv'
  BY <1>1, <1>2, <1>5, Compiles
<1>6. ASSUME NEW d \in SpecDocs, Goes(p, [sp[p] EXCEPT !.stage = "stat", !.doc = d]),
             UNCHANGED specFaults
      PROVE  CacheInv'
  <2> DEFINE r == [sp[p] EXCEPT !.stage = "stat", !.doc = d]
  <2>1. r \in SpecProcesses
    BY <1>1 DEF SpecProcesses, CacheStages
  <2>2. /\ r.temp = sp[p].temp /\ r.result = sp[p].result /\ r.stage = "stat"
        /\ r.table = sp[p].table /\ r.from = sp[p].from
    BY <1>1 DEF SpecProcesses
  <2>3. Goes(p, r) /\ specFaults' \in 0 .. MaxSpecFaults
    BY <1>1, <1>6
  <2> HIDE DEF r
  <2> QED
    BY <1>1, <1>2, <1>3, <1>4, <2>1, <2>2, <2>3, BeforeItsFile DEF BeforeCreate
<1>7. CASE EndSpec(p, "failed") /\ SpecFault
  <2> DEFINE r == [sp[p] EXCEPT !.stage = "done", !.result = "failed"]
  <2>1. r \in SpecProcesses
    BY <1>1 DEF SpecProcesses, CacheStages
  <2>2. /\ r.temp = sp[p].temp /\ r.stage = "done"
        /\ r.table = sp[p].table /\ r.from = sp[p].from
    BY <1>1 DEF SpecProcesses
  <2>3. Goes(p, r) /\ specFaults' \in 0 .. MaxSpecFaults
    BY <1>1, <1>7 DEF EndSpec, SpecFault
  <2> HIDE DEF r
  <2> QED
    BY <1>1, <1>2, <1>4, <2>1, <2>2, <2>3, BeforeItsFile DEF BeforeCreate
<1> QED
  BY <1>5, <1>6, <1>7 DEF FetchSpec

(* unchanged_report                                                         *)
LEMMA Compares == ASSUME CacheInv, NEW p \in SpecProcs, Compare(p) PROVE CacheInv'
<1>1. sp[p] \in SpecProcesses /\ sp[p].stage = "compare" /\ specFaults \in 0 .. MaxSpecFaults
  BY DEF CacheInv, CacheTyped, Compare
<1>2. UNCHANGED <<inodes, path, durable, specFaults>> /\ sp[p].doc \in SpecDocs
  BY <1>1 DEF Compare, CacheInv, Where
<1>3. CASE Compile(p, sp[p].doc)
  BY <1>1, <1>2, <1>3, Compiles
<1>4. CASE EndSpec(p, "unchanged")
  <2> DEFINE r == [sp[p] EXCEPT !.stage = "done", !.result = "unchanged"]
  <2>1. r \in SpecProcesses
    BY <1>1 DEF SpecProcesses, CacheStages
  <2>2. /\ r.temp = sp[p].temp /\ r.stage = "done"
        /\ r.table = sp[p].table /\ r.from = sp[p].from
    BY <1>1 DEF SpecProcesses
  <2>3. r.table # BuiltIn =>
           /\ r.from \in Files /\ inodes[r.from].doc = r.table
           /\ inodes[r.from].version = SpecVersion[p] /\ Usable(r.table)
    BY <2>2 DEF CacheInv, Used
  <2>4. Goes(p, r)
    BY <1>4 DEF EndSpec
  <2> HIDE DEF r
  <2> QED
    BY <1>1, <1>2, <2>1, <2>2, <2>3, <2>4, BeforeItsFile DEF BeforeCreate
<1> QED
  BY <1>3, <1>4 DEF Compare

(* store_at: a new file, which nobody else knows.                           *)
LEMMA Creates == ASSUME CacheInv, NEW p \in SpecProcs, CreateFile(p) PROVE CacheInv'
<1> DEFINE new == Len(inodes) + 1
           file == Cached(sp[p].doc, SpecVersion[p], "partial")
           r == [sp[p] EXCEPT !.stage = "write", !.temp = new]
<1>1. /\ sp[p] \in SpecProcesses /\ sp[p].stage = "create" /\ sp[p].result = "none"
      /\ sp[p].doc \in SpecDocs /\ Usable(sp[p].doc) /\ Len(inodes) \in Nat
      /\ inodes \in Seq(CacheFiles)
  BY DEF CacheInv, CacheTyped, CreateFile, Where
<1>2. UNCHANGED <<path, durable, specFaults>> /\ Goes(p, r) /\ inodes' = Append(inodes, file)
  BY DEF CreateFile
<1>3. file \in CacheFiles
  BY <1>1 DEF CacheFiles, Cached, Versions, FileStates
<1>4. r \in SpecProcesses
  <2>1. new \in Nat
    BY <1>1
  <2> HIDE DEF new
  <2> QED
    BY <1>1, <2>1 DEF SpecProcesses, CacheStages
<1>5. /\ r.temp = new /\ r.stage = "write" /\ r.doc = sp[p].doc /\ r.result = "none"
      /\ r.table = sp[p].table /\ r.from = sp[p].from
  BY <1>1 DEF SpecProcesses
<1>6. file.doc = sp[p].doc /\ file.version = SpecVersion[p]
  BY DEF Cached
<1> HIDE DEF r, file
<1>7. /\ inodes' \in Seq(CacheFiles) /\ Len(inodes') = new /\ inodes'[new] = file
      /\ \A i \in Files : inodes'[i] = inodes[i]
  BY <1>1, <1>2, <1>3 DEF Files
<1>8. /\ sp' \in [SpecProcs -> SpecProcesses] /\ sp'[p] = r
      /\ \A q \in SpecProcs : q # p => sp'[q] = sp[q]
  BY <1>2, <1>4, ProcessMoves DEF CacheInv
<1>9. Files \subseteq Files' /\ new \in Files' /\ new \notin Files /\ new # NoFile /\ new # Pipe
  BY <1>1, <1>7 DEF Files, NoFile, Pipe
<1>10. CacheTyped'
  BY <1>2, <1>7, <1>8, <1>9 DEF CacheInv, CacheTyped
<1>11. Where'
  <2>1. ASSUME NEW q \in SpecProcs, q # p
        PROVE  /\ sp'[q].temp \in Files' \cup {NoFile}
               /\ sp'[q].stage \in BeforeCreate => sp'[q].temp = NoFile
               /\ sp'[q].stage \in {"write", "rename"} => sp'[q].temp # NoFile
               /\ sp'[q].stage # "done" => sp'[q].result = "none"
               /\ sp'[q].stage = "open" => sp'[q].seen \in Files'
               /\ sp'[q].stage = "compare" => sp'[q].doc \in SpecDocs
               /\ sp'[q].stage = "unlink" => sp'[q].command = "reset"
               /\ sp'[q].stage \in {"create", "write", "rename"} =>
                    Usable(sp'[q].doc) /\ sp'[q].doc \in SpecDocs
    BY <1>8, <1>9, <2>1 DEF CacheInv, Where
  <2> QED
    BY <1>1, <1>5, <1>8, <1>9, <2>1 DEF Where, BeforeCreate
<1>12. \A q \in SpecProcs : q # p => sp[q].temp # new
  BY <1>9 DEF CacheInv, Where
<1>13. path # new /\ new \notin durable
  BY <1>9 DEF CacheInv, CacheTyped
<1>14. Mine'
  <2>1. ASSUME NEW q \in SpecProcs, q # p, sp'[q].temp # NoFile
        PROVE  /\ \A o \in SpecProcs : sp'[o].temp = sp'[q].temp => q = o
               /\ Unpublished(q)' => path' # sp'[q].temp /\ sp'[q].temp \notin durable'
               /\ sp'[q].stage \in {"write", "rename"} =>
                    /\ inodes'[sp'[q].temp].doc = sp'[q].doc
                    /\ inodes'[sp'[q].temp].version = SpecVersion[q]
               /\ sp'[q].stage = "rename" => inodes'[sp'[q].temp].state = "synced"
               /\ sp'[q].result = "failed" => inodes'[sp'[q].temp].state = "gone"
    <3>1. sp'[q] = sp[q] /\ sp[q].temp # NoFile /\ sp[q].temp \in Files
      BY <1>8, <2>1 DEF CacheInv, Where
    <3>2. inodes'[sp[q].temp] = inodes[sp[q].temp]
      BY <1>7, <3>1
    <3>3. \A o \in SpecProcs : sp'[o].temp = sp'[q].temp => q = o
      BY <1>5, <1>8, <1>12, <3>1, <2>1 DEF CacheInv, Mine
    <3> QED
      BY <1>2, <3>1, <3>2, <3>3 DEF CacheInv, Mine, Unpublished
  <2>2. /\ \A o \in SpecProcs : sp'[o].temp = sp'[p].temp => p = o
        /\ path' # sp'[p].temp /\ sp'[p].temp \notin durable'
        /\ inodes'[sp'[p].temp].doc = sp'[p].doc
        /\ inodes'[sp'[p].temp].version = SpecVersion[p]
        /\ sp'[p].stage = "write" /\ sp'[p].result = "none"
    <3>1. \A o \in SpecProcs : sp'[o].temp = sp'[p].temp => p = o
      BY <1>5, <1>8, <1>12
    <3>2. sp'[p] = r /\ sp'[p].temp = new /\ inodes'[new] = file
      BY <1>5, <1>7, <1>8
    <3> QED
      BY <1>2, <1>5, <1>6, <1>13, <3>1, <3>2
  <2> QED
    BY <2>1, <2>2 DEF Mine, Unpublished
<1>15. TempNamed'
  BY <1>2, <1>7, <1>9, <1>13 DEF CacheInv, TempNamed, Files
<1>16. Used'
  BY <1>1, <1>5, <1>7, <1>8, <1>9 DEF CacheInv, Used
<1> QED
  BY <1>10, <1>11, <1>14, <1>15, <1>16 DEF CacheInv

(* A process changes the file that is its own, or gives it up.              *)
LEMMA OwnFile ==
  ASSUME CacheInv, NEW p \in SpecProcs, sp[p].stage \in {"write", "rename"},
         NEW state \in {"synced", "gone"},
         inodes' = [inodes EXCEPT ![sp[p].temp].state = state],
         UNCHANGED <<path, durable>>, specFaults' \in 0 .. MaxSpecFaults,
         NEW r \in SpecProcesses, Goes(p, r),
         r.temp = sp[p].temp, r.doc = sp[p].doc, r.table = sp[p].table, r.from = sp[p].from,
         \/ r.stage = "rename" /\ r.result = "none" /\ state = "synced"
         \/ r.stage = "done" /\ r.result = "failed" /\ state = "gone"
  PROVE  CacheInv'
<1> DEFINE t == sp[p].temp
<1>1. /\ t \in Files /\ t # NoFile /\ Usable(sp[p].doc) /\ sp[p].doc \in SpecDocs
      /\ inodes \in Seq(CacheFiles) /\ Len(inodes) \in Nat
  BY DEF CacheInv, CacheTyped, Where
<1>2. /\ path # t /\ t \notin durable
      /\ inodes[t].doc = sp[p].doc /\ inodes[t].version = SpecVersion[p]
      /\ \A q \in SpecProcs : sp[q].temp = t => p = q
  BY <1>1 DEF CacheInv, Mine, Unpublished
<1>3. /\ sp' \in [SpecProcs -> SpecProcesses] /\ sp'[p] = r
      /\ \A q \in SpecProcs : q # p => sp'[q] = sp[q]
  BY ProcessMoves DEF CacheInv
<1>4. /\ inodes' \in Seq(CacheFiles) /\ Len(inodes') = Len(inodes)
      /\ \A i \in Files : i # t => inodes'[i] = inodes[i]
      /\ inodes'[t].doc = inodes[t].doc /\ inodes'[t].version = inodes[t].version
      /\ inodes'[t].state = state
  <2> DEFINE file == [inodes[t] EXCEPT !.state = state]
  <2>1. inodes[t] \in CacheFiles
    BY <1>1 DEF Files
  <2>2. /\ file \in CacheFiles /\ file.state = state
        /\ file.doc = inodes[t].doc /\ file.version = inodes[t].version
    BY <2>1 DEF CacheFiles, FileStates
  <2>3. inodes' = [inodes EXCEPT ![t] = file]
    OBVIOUS
  <2>4. t \in 1 .. Len(inodes)
    BY <1>1 DEF Files
  <2> HIDE DEF file, t
  <2>5. inodes' \in Seq(CacheFiles) /\ Len(inodes') = Len(inodes)
    <3>1. /\ [inodes EXCEPT ![t] = file] \in Seq(CacheFiles)
          /\ Len([inodes EXCEPT ![t] = file]) = Len(inodes)
      BY <1>1, <2>2, <2>4, ExceptSeq
    <3> QED
      BY <2>3, <3>1
  <2>6. inodes'[t] = file /\ \A i \in 1 .. Len(inodes) : i # t => inodes'[i] = inodes[i]
    BY <1>1, <2>2, <2>3, <2>4, ExceptSeq
  <2> QED
    BY <2>2, <2>5, <2>6 DEF Files
<1> HIDE DEF t
<1>5. Files' = Files
  BY <1>4 DEF Files
<1>6. CacheTyped'
  BY <1>3, <1>4, <1>5 DEF CacheInv, CacheTyped
<1>7. Where'
  <2>1. \A q \in SpecProcs : q # p =>
          /\ sp'[q].temp \in Files' \cup {NoFile}
          /\ sp'[q].stage \in BeforeCreate => sp'[q].temp = NoFile
          /\ sp'[q].stage \in {"write", "rename"} => sp'[q].temp # NoFile
          /\ sp'[q].stage # "done" => sp'[q].result = "none"
          /\ sp'[q].stage = "open" => sp'[q].seen \in Files'
          /\ sp'[q].stage = "compare" => sp'[q].doc \in SpecDocs
          /\ sp'[q].stage = "unlink" => sp'[q].command = "reset"
          /\ sp'[q].stage \in {"create", "write", "rename"} =>
                Usable(sp'[q].doc) /\ sp'[q].doc \in SpecDocs
    BY <1>3, <1>5 DEF CacheInv, Where
  <2>2. r.temp \in Files /\ r.temp # NoFile
    BY <1>1 DEF t
  <2> QED
    BY <1>1, <1>3, <1>5, <2>1, <2>2 DEF Where, BeforeCreate
<1>8. Mine'
  <2>1. ASSUME NEW q \in SpecProcs, q # p, sp'[q].temp # NoFile
        PROVE  /\ \A o \in SpecProcs : sp'[o].temp = sp'[q].temp => q = o
               /\ Unpublished(q)' => path' # sp'[q].temp /\ sp'[q].temp \notin durable'
               /\ sp'[q].stage \in {"write", "rename"} =>
                    /\ inodes'[sp'[q].temp].doc = sp'[q].doc
                    /\ inodes'[sp'[q].temp].version = SpecVersion[q]
               /\ sp'[q].stage = "rename" => inodes'[sp'[q].temp].state = "synced"
               /\ sp'[q].result = "failed" => inodes'[sp'[q].temp].state = "gone"
    <3>1. sp'[q] = sp[q] /\ sp[q].temp # NoFile /\ sp[q].temp \in Files /\ sp[q].temp # t
      BY <1>2, <1>3, <2>1 DEF CacheInv, Where
    <3>2. inodes'[sp[q].temp] = inodes[sp[q].temp]
      BY <1>4, <3>1
    <3>3. \A o \in SpecProcs : sp'[o].temp = sp'[q].temp => q = o
      BY <1>3, <3>1, <2>1 DEF CacheInv, Mine, t
    <3>4. Unpublished(q)' = Unpublished(q)
      BY <3>1 DEF Unpublished
    <3>5. path' = path /\ durable' = durable
      OBVIOUS
    <3>6. /\ Unpublished(q) => path # sp[q].temp /\ sp[q].temp \notin durable
          /\ sp[q].stage \in {"write", "rename"} =>
               /\ inodes[sp[q].temp].doc = sp[q].doc
               /\ inodes[sp[q].temp].version = SpecVersion[q]
          /\ sp[q].stage = "rename" => inodes[sp[q].temp].state = "synced"
          /\ sp[q].result = "failed" => inodes[sp[q].temp].state = "gone"
      BY <3>1 DEF CacheInv, Mine
    <3> QED
      BY <3>1, <3>2, <3>3, <3>4, <3>5, <3>6
  <2>2. /\ \A o \in SpecProcs : sp'[o].temp = sp'[p].temp => p = o
        /\ path' # sp'[p].temp /\ sp'[p].temp \notin durable'
        /\ inodes'[sp'[p].temp].doc = sp'[p].doc
        /\ inodes'[sp'[p].temp].version = SpecVersion[p]
        /\ inodes'[sp'[p].temp].state = state
    <3>1. sp'[p] = r /\ sp'[p].temp = t /\ sp'[p].doc = sp[p].doc
      BY <1>3 DEF t
    <3>2. \A o \in SpecProcs : sp'[o].temp = t => p = o
      BY <1>2, <1>3
    <3> QED
      BY <1>2, <1>4, <3>1, <3>2
  <2>3. \/ sp'[p].stage = "rename" /\ sp'[p].result = "none" /\ state = "synced"
        \/ sp'[p].stage = "done" /\ sp'[p].result = "failed" /\ state = "gone"
    BY <1>3
  <2> QED
    BY <2>1, <2>2, <2>3 DEF Mine, Unpublished
<1>9. TempNamed'
  BY <1>2, <1>4, <1>5 DEF CacheInv, TempNamed
<1>10. Used'
  <2>1. \A q \in SpecProcs : sp'[q].table = sp[q].table /\ sp'[q].from = sp[q].from
    BY <1>3
  <2>2. \A i \in Files : inodes'[i].doc = inodes[i].doc /\ inodes'[i].version = inodes[i].version
    BY <1>4
  <2> QED
    BY <1>5, <2>1, <2>2 DEF CacheInv, Used
<1> QED
  BY <1>6, <1>7, <1>8, <1>9, <1>10 DEF CacheInv

(* write_all                                                                *)
LEMMA Writes == ASSUME CacheInv, NEW p \in SpecProcs, WriteFile(p) PROVE CacheInv'
<1> DEFINE full == [sp[p] EXCEPT !.stage = "rename"]
           over == [sp[p] EXCEPT !.stage = "done", !.result = "failed"]
<1>1. /\ sp[p] \in SpecProcesses /\ sp[p].stage = "write" /\ sp[p].result = "none"
      /\ specFaults \in 0 .. MaxSpecFaults /\ UNCHANGED <<path, durable>>
  BY DEF CacheInv, CacheTyped, Where, WriteFile
<1>2. full \in SpecProcesses /\ over \in SpecProcesses
  BY <1>1 DEF SpecProcesses, CacheStages
<1>3. /\ full.temp = sp[p].temp /\ full.doc = sp[p].doc /\ full.table = sp[p].table
      /\ full.from = sp[p].from /\ full.stage = "rename" /\ full.result = "none"
      /\ over.temp = sp[p].temp /\ over.doc = sp[p].doc /\ over.table = sp[p].table
      /\ over.from = sp[p].from /\ over.stage = "done" /\ over.result = "failed"
  BY <1>1 DEF SpecProcesses
<1>4. \/ /\ inodes' = [inodes EXCEPT ![sp[p].temp].state = "synced"]
         /\ Goes(p, full) /\ specFaults' = specFaults
      \/ /\ inodes' = [inodes EXCEPT ![sp[p].temp].state = "gone"]
         /\ Goes(p, over) /\ SpecFault
  BY DEF WriteFile, DropTemp, EndSpec
<1> HIDE DEF full, over
<1>5. specFaults' \in 0 .. MaxSpecFaults
  BY <1>1, <1>4 DEF SpecFault
<1> QED
  BY <1>1, <1>2, <1>3, <1>4, <1>5, OwnFile

(* The path gets another name, and the process that saw to it is done.      *)
LEMMA NameChanges ==
  ASSUME CacheInv, NEW p \in SpecProcs, NEW r \in SpecProcesses, Goes(p, r),
         UNCHANGED <<inodes, specFaults>>,
         r.stage = "done", r.result = "done",
         r.temp = sp[p].temp, r.table = sp[p].table, r.from = sp[p].from,
         NEW n, path' = n, durable' = durable \cup {n},
         n = NoFile \/ (n = sp[p].temp /\ sp[p].stage = "rename")
  PROVE  CacheInv'
<1>1. /\ sp' \in [SpecProcs -> SpecProcesses] /\ sp'[p] = r
      /\ \A q \in SpecProcs : q # p => sp'[q] = sp[q]
  BY ProcessMoves DEF CacheInv
<1>2. /\ sp[p].temp \in Files \cup {NoFile}
      /\ sp[p].stage = "rename" =>
           /\ sp[p].temp # NoFile /\ Usable(sp[p].doc)
           /\ inodes[sp[p].temp].doc = sp[p].doc /\ inodes[sp[p].temp].state = "synced"
  BY DEF CacheInv, Where, Mine
<1>3. Files' = Files
  BY DEF Files
<1>4. n = NoFile \/ (n \in Files /\ inodes[n].state = "synced" /\ Usable(inodes[n].doc))
  BY <1>2
<1>5. CacheTyped'
  BY <1>1, <1>3, <1>4 DEF CacheInv, CacheTyped
<1>6. Where'
  BY <1>1, <1>2, <1>3 DEF CacheInv, Where, BeforeCreate
<1>7. Mine'
  <2>1. ASSUME NEW q \in SpecProcs, sp'[q].temp # NoFile
        PROVE  \A o \in SpecProcs : sp'[o].temp = sp'[q].temp => q = o
    BY <1>1, <2>1 DEF CacheInv, Mine
  <2>2. ASSUME NEW q \in SpecProcs, q # p, sp[q].temp # NoFile
        PROVE  sp[q].temp # n
    BY <2>2 DEF CacheInv, Mine
  <2> QED
    BY <1>1, <2>1, <2>2 DEF CacheInv, Mine, Unpublished
<1>8. TempNamed'
  <2>1. \A i \in Files : i = path' \/ i \in durable' => i = path \/ i \in durable \/ i = n
    OBVIOUS
  <2>2. \A i \in Files : i = n => inodes[i].state = "synced" /\ Usable(inodes[i].doc)
    BY <1>4 DEF Files, NoFile
  <2>3. inodes' = inodes
    OBVIOUS
  <2> QED
    BY <1>3, <2>1, <2>2, <2>3 DEF CacheInv, TempNamed
<1>9. Used'
  BY <1>1, <1>3 DEF CacheInv, Used
<1> QED
  BY <1>5, <1>6, <1>7, <1>8, <1>9 DEF CacheInv

(* persist                                                                  *)
LEMMA Renames == ASSUME CacheInv, NEW p \in SpecProcs, RenameFile(p) PROVE CacheInv'
<1> DEFINE named == [sp[p] EXCEPT !.stage = "done", !.result = "done"]
           over == [sp[p] EXCEPT !.stage = "done", !.result = "failed"]
<1>1. /\ sp[p] \in SpecProcesses /\ sp[p].stage = "rename"
      /\ specFaults \in 0 .. MaxSpecFaults
  BY DEF CacheInv, CacheTyped, RenameFile
<1>2. named \in SpecProcesses /\ over \in SpecProcesses
  BY <1>1 DEF SpecProcesses, CacheStages
<1>3. /\ named.temp = sp[p].temp /\ named.table = sp[p].table
      /\ named.from = sp[p].from /\ named.stage = "done" /\ named.result = "done"
      /\ over.temp = sp[p].temp /\ over.doc = sp[p].doc /\ over.table = sp[p].table
      /\ over.from = sp[p].from /\ over.stage = "done" /\ over.result = "failed"
  BY <1>1 DEF SpecProcesses
<1>4. \/ /\ path' = sp[p].temp /\ durable' = durable \cup {sp[p].temp}
         /\ Goes(p, named) /\ UNCHANGED <<inodes, specFaults>>
      \/ /\ inodes' = [inodes EXCEPT ![sp[p].temp].state = "gone"]
         /\ Goes(p, over) /\ SpecFault /\ UNCHANGED <<path, durable>>
  BY DEF RenameFile, DropTemp, EndSpec
<1> HIDE DEF named, over
<1>5. specFaults' \in 0 .. MaxSpecFaults
  BY <1>1, <1>4 DEF SpecFault
<1>6. CASE /\ path' = sp[p].temp /\ durable' = durable \cup {sp[p].temp}
           /\ Goes(p, named) /\ UNCHANGED <<inodes, specFaults>>
  BY <1>1, <1>2, <1>3, <1>6, NameChanges
<1>7. CASE /\ inodes' = [inodes EXCEPT ![sp[p].temp].state = "gone"]
           /\ Goes(p, over) /\ SpecFault /\ UNCHANGED <<path, durable>>
  BY <1>1, <1>2, <1>3, <1>5, <1>7, OwnFile
<1> QED
  BY <1>4, <1>6, <1>7

(* reset                                                                    *)
LEMMA Unlinks == ASSUME CacheInv, NEW p \in SpecProcs, UnlinkFile(p) PROVE CacheInv'
<1> DEFINE removed == [sp[p] EXCEPT !.stage = "done", !.result = "done"]
           over == [sp[p] EXCEPT !.stage = "done", !.result = "failed"]
<1>1. /\ sp[p] \in SpecProcesses /\ sp[p].stage = "unlink"
      /\ specFaults \in 0 .. MaxSpecFaults
  BY DEF CacheInv, CacheTyped, UnlinkFile
<1>2. removed \in SpecProcesses /\ over \in SpecProcesses
  BY <1>1 DEF SpecProcesses, CacheStages
<1>3. /\ removed.temp = sp[p].temp /\ removed.table = sp[p].table
      /\ removed.from = sp[p].from /\ removed.stage = "done" /\ removed.result = "done"
      /\ over.temp = sp[p].temp /\ over.table = sp[p].table
      /\ over.from = sp[p].from /\ over.stage = "done" /\ over.result = "failed"
  BY <1>1 DEF SpecProcesses
<1>4. \/ /\ path' = NoFile /\ durable' = durable \cup {NoFile}
         /\ Goes(p, removed) /\ UNCHANGED <<inodes, specFaults>>
      \/ /\ Goes(p, over) /\ SpecFault /\ UNCHANGED <<inodes, path, durable>>
  BY DEF UnlinkFile, EndSpec
<1>5. sp[p].table # BuiltIn =>
        /\ sp[p].from \in Files /\ inodes[sp[p].from].doc = sp[p].table
        /\ inodes[sp[p].from].version = SpecVersion[p] /\ Usable(sp[p].table)
  BY DEF CacheInv, Used
<1> HIDE DEF removed, over
<1>6. specFaults' \in 0 .. MaxSpecFaults
  BY <1>1, <1>4 DEF SpecFault
<1>7. CASE /\ path' = NoFile /\ durable' = durable \cup {NoFile}
           /\ Goes(p, removed) /\ UNCHANGED <<inodes, specFaults>>
  BY <1>1, <1>2, <1>3, <1>7, NameChanges
<1>8. CASE /\ Goes(p, over) /\ SpecFault /\ UNCHANGED <<inodes, path, durable>>
  BY <1>1, <1>2, <1>3, <1>5, <1>6, <1>8, BeforeItsFile DEF BeforeCreate
<1> QED
  BY <1>4, <1>7, <1>8

(* The machine loses power: the processes are gone, the names are older.    *)
LEMMA LosesPower == ASSUME CacheInv, PowerLoss PROVE CacheInv'
<1>1. /\ inodes \in Seq(CacheFiles) /\ Len(inodes) \in Nat /\ DOMAIN inodes = Files
      /\ sp \in [SpecProcs -> SpecProcesses] /\ specFaults \in 0 .. MaxSpecFaults
  BY DEF CacheInv, CacheTyped, Files
<1>2. \A i \in Files : inodes[i] \in CacheFiles
  BY <1>1 DEF Files
<1> DEFINE After(i) == [inodes[i] EXCEPT !.state =
                          IF inodes[i].state = "whole" THEN "partial" ELSE inodes[i].state]
<1>3. inodes' = [i \in 1 .. Len(inodes) |-> After(i)]
  BY <1>1 DEF PowerLoss, Files
<1>4. \A i \in Files :
        /\ After(i) \in CacheFiles
        /\ After(i).doc = inodes[i].doc /\ After(i).version = inodes[i].version
        /\ inodes[i].state # "whole" => After(i).state = inodes[i].state
  BY <1>2 DEF CacheFiles, FileStates
<1> HIDE DEF After
<1>5. /\ inodes' \in Seq(CacheFiles) /\ Len(inodes') = Len(inodes)
      /\ \A i \in Files : inodes'[i] = After(i)
  BY <1>1, <1>3, <1>4 DEF Files
<1>6. PICK n \in durable : path' = n /\ durable' = {n}
  BY DEF PowerLoss
<1>7. sp' \in [SpecProcs -> SpecProcesses]
  <2>1. \A q \in SpecProcs : sp[q] \in SpecProcesses
    BY <1>1
  <2>2. \A q \in SpecProcs :
          [sp[q] EXCEPT !.stage = "done", !.result = "none"] \in SpecProcesses
    BY <2>1 DEF SpecProcesses, CacheStages
  <2> QED
    BY <2>1, <2>2 DEF PowerLoss
<1>8. \A q \in SpecProcs :
        /\ sp'[q].temp = sp[q].temp /\ sp'[q].table = sp[q].table /\ sp'[q].from = sp[q].from
        /\ sp'[q] = sp[q] \/ (sp'[q].stage = "done" /\ sp'[q].result = "none")
        /\ sp'[q].stage = "idle" \/ sp'[q].stage = "done"
        /\ sp'[q].result = "failed" => sp[q].result = "failed"
  <2> TAKE q \in SpecProcs
  <2> DEFINE killed == [sp[q] EXCEPT !.stage = "done", !.result = "none"]
  <2>1. sp[q] \in SpecProcesses
    BY <1>1
  <2>2. /\ killed.temp = sp[q].temp /\ killed.table = sp[q].table
        /\ killed.from = sp[q].from /\ killed.stage = "done" /\ killed.result = "none"
    BY <2>1 DEF SpecProcesses
  <2>3. sp'[q] = IF sp[q].stage \in {"idle", "done"} THEN sp[q] ELSE killed
    BY DEF PowerLoss
  <2> HIDE DEF killed
  <2> QED
    BY <2>2, <2>3
<1>9. Files' = Files
  BY <1>5 DEF Files
<1>10. specFaults' \in 0 .. MaxSpecFaults
  <2>1. SpecFault
    BY DEF PowerLoss
  <2> QED
    BY <1>1, <2>1 DEF SpecFault
<1>11. CacheTyped'
  BY <1>5, <1>6, <1>7, <1>9, <1>10 DEF CacheInv, CacheTyped
<1>12. Where'
  BY <1>8, <1>9 DEF CacheInv, Where, BeforeCreate
<1>13. Mine'
  <2> SUFFICES ASSUME NEW q \in SpecProcs, sp'[q].temp # NoFile
               PROVE  /\ \A o \in SpecProcs : sp'[o].temp = sp'[q].temp => q = o
                      /\ sp'[q].result = "failed" =>
                           /\ path' # sp'[q].temp /\ sp'[q].temp \notin durable'
                           /\ inodes'[sp'[q].temp].state = "gone"
    BY <1>8 DEF Mine, Unpublished
  <2>1. sp[q].temp # NoFile /\ sp[q].temp \in Files
    BY <1>8 DEF CacheInv, Where
  <2>2. /\ \A o \in SpecProcs : sp[o].temp = sp[q].temp => q = o
        /\ sp[q].result = "failed" =>
             sp[q].temp \notin durable /\ inodes[sp[q].temp].state = "gone"
    BY <2>1 DEF CacheInv, Mine, Unpublished
  <2>3. inodes[sp[q].temp].state = "gone" => inodes'[sp[q].temp].state = "gone"
    BY <1>4, <1>5, <2>1
  <2> QED
    BY <1>6, <1>8, <2>2, <2>3
<1>14. TempNamed'
  BY <1>4, <1>5, <1>6, <1>9 DEF CacheInv, TempNamed
<1>15. Used'
  BY <1>4, <1>5, <1>8, <1>9 DEF CacheInv, Used
<1> QED
  BY <1>11, <1>12, <1>13, <1>14, <1>15 DEF CacheInv

(* The directory reaches the disk.                                          *)
LEMMA Flushes == ASSUME CacheInv, FlushDirectory PROVE CacheInv'
<1>1. durable' = {path} /\ UNCHANGED <<inodes, path, sp, specFaults>> /\ Files' = Files
  BY DEF FlushDirectory, Files
<1>2. CacheTyped'
  BY <1>1 DEF CacheInv, CacheTyped
<1>3. Where'
  BY <1>1 DEF CacheInv, Where
<1>4. Mine'
  BY <1>1 DEF CacheInv, Mine, Unpublished
<1>5. TempNamed' /\ Used'
  BY <1>1 DEF CacheInv, TempNamed, Used
<1> QED
  BY <1>2, <1>3, <1>4, <1>5 DEF CacheInv

(* Somebody puts a pipe where the cache is, or damages the file there.      *)
LEMMA Tampers == ASSUME CacheInv, Tamper PROVE CacheInv'
<1>1. /\ inodes \in Seq(CacheFiles) /\ Len(inodes) \in Nat /\ DOMAIN inodes = Files
      /\ specFaults \in 0 .. MaxSpecFaults /\ SpecFault /\ sp' = sp
  BY DEF CacheInv, CacheTyped, Files, Tamper
<1>2. specFaults' \in 0 .. MaxSpecFaults
  BY <1>1 DEF SpecFault
<1>3. CASE path' = Pipe /\ durable' = durable \cup {Pipe} /\ UNCHANGED inodes
  <2>1. Files' = Files /\ Pipe \notin Files /\ Pipe # NoFile
    BY <1>3 DEF Files, Pipe, NoFile
  <2>2. CacheTyped'
    BY <1>1, <1>2, <1>3, <2>1 DEF CacheInv, CacheTyped
  <2>3. Where' /\ Used'
    BY <1>1, <1>3, <2>1 DEF CacheInv, Where, Used
  <2>4. \A q \in SpecProcs : sp[q].temp # Pipe
    BY <2>1 DEF CacheInv, Where
  <2>5. Mine'
    BY <1>1, <1>3, <2>4 DEF CacheInv, Mine, Unpublished
  <2>6. TempNamed'
    BY <1>3, <2>1 DEF CacheInv, TempNamed
  <2> QED
    BY <2>2, <2>3, <2>5, <2>6 DEF CacheInv
<1>4. CASE /\ path \in DOMAIN inodes
           /\ inodes' = [inodes EXCEPT ![path].state = "damaged"]
           /\ UNCHANGED <<path, durable>>
  <2> DEFINE file == [inodes[path] EXCEPT !.state = "damaged"]
  <2>1. path \in 1 .. Len(inodes) /\ inodes[path] \in CacheFiles
    BY <1>1, <1>4 DEF Files
  <2>2. /\ file \in CacheFiles /\ file.state = "damaged"
        /\ file.doc = inodes[path].doc /\ file.version = inodes[path].version
    BY <2>1 DEF CacheFiles, FileStates
  <2>3. inodes' = [inodes EXCEPT ![path] = file]
    BY <1>4
  <2> HIDE DEF file
  <2>4. /\ [inodes EXCEPT ![path] = file] \in Seq(CacheFiles)
        /\ Len([inodes EXCEPT ![path] = file]) = Len(inodes)
    BY <1>1, <2>1, <2>2, ExceptSeq
  <2>5. inodes' \in Seq(CacheFiles) /\ Len(inodes') = Len(inodes) /\ Files' = Files
    BY <2>3, <2>4 DEF Files
  <2>6. /\ inodes'[path].state = "damaged"
        /\ \A i \in Files : i # path => inodes'[i] = inodes[i]
        /\ \A i \in Files : inodes'[i].doc = inodes[i].doc /\ inodes'[i].version = inodes[i].version
    BY <1>1, <2>1, <2>2, <2>3 DEF Files
  <2>7. CacheTyped'
    BY <1>1, <1>2, <1>4, <2>5 DEF CacheInv, CacheTyped
  <2>8. Where'
    BY <1>1, <2>5 DEF CacheInv, Where
  <2>9. Mine'
    <3> SUFFICES ASSUME NEW q \in SpecProcs, sp[q].temp # NoFile
                 PROVE  /\ \A o \in SpecProcs : sp[o].temp = sp[q].temp => q = o
                        /\ Unpublished(q) => path # sp[q].temp /\ sp[q].temp \notin durable
                        /\ sp[q].stage \in {"write", "rename"} =>
                             /\ inodes'[sp[q].temp].doc = sp[q].doc
                             /\ inodes'[sp[q].temp].version = SpecVersion[q]
                        /\ sp[q].stage = "rename" => inodes'[sp[q].temp].state = "synced"
                        /\ sp[q].result = "failed" => inodes'[sp[q].temp].state = "gone"
      BY <1>1, <1>4 DEF Mine, Unpublished
    <3>1. sp[q].temp \in Files
      BY DEF CacheInv, Where
    <3>2. Unpublished(q) => inodes'[sp[q].temp] = inodes[sp[q].temp]
      BY <2>6, <3>1 DEF CacheInv, Mine
    <3> QED
      BY <3>2 DEF CacheInv, Mine, Unpublished
  <2>10. TempNamed'
    BY <1>4, <2>5, <2>6 DEF CacheInv, TempNamed
  <2>11. Used'
    BY <1>1, <2>5, <2>6 DEF CacheInv, Used
  <2> QED
    BY <2>7, <2>8, <2>9, <2>10, <2>11 DEF CacheInv
<1> QED
  BY <1>3, <1>4 DEF Tamper

-----------------------------------------------------------------------------
(* The cache: the theorems.                                                 *)

(* Whatever the processes, the power and other people do, the invariant     *)
(* holds.                                                                   *)
THEOREM CacheInvariance == SpecCacheSpec => []CacheInv
<1>1. SpecCacheInit => CacheInv
  <2> SUFFICES ASSUME SpecCacheInit
               PROVE  CacheInv
    OBVIOUS
  <2>1. Idle \in SpecProcesses
    BY DEF Idle, SpecProcesses, CacheStages, NoFile, BuiltIn
  <2>2. \A p \in SpecProcs : sp[p] = Idle
    BY DEF SpecCacheInit
  <2>3. /\ Idle.stage = "idle" /\ Idle.temp = NoFile /\ Idle.table = BuiltIn
        /\ Idle.result = "none"
    BY DEF Idle
  <2>4. CacheTyped
    BY <2>1 DEF SpecCacheInit, CacheTyped
  <2>5. Files = {} /\ inodes = <<>>
    BY DEF SpecCacheInit, Files
  <2> QED
    BY <2>2, <2>3, <2>4, <2>5 DEF CacheInv, Where, Mine, TempNamed, Used, BeforeCreate
<1>2. CacheInv /\ [SpecCacheNext]_specVars => CacheInv'
  <2> SUFFICES ASSUME CacheInv, [SpecCacheNext]_specVars
               PROVE  CacheInv'
    OBVIOUS
  <2>1. ASSUME NEW p \in SpecProcs, NEW command \in {"use", "sync", "reset"}, Begin(p, command)
        PROVE  CacheInv'
    BY <2>1, CommandBegins
  <2>2. ASSUME NEW p \in SpecProcs, Stat(p) \/ Open(p) \/ Compare(p)
        PROVE  CacheInv'
    BY <2>2, Stats, Opens, Compares
  <2>3. ASSUME NEW p \in SpecProcs, NEW force \in BOOLEAN, FetchSpec(p, force)
        PROVE  CacheInv'
    BY <2>3, Fetches
  <2>4. ASSUME NEW p \in SpecProcs,
               CreateFile(p) \/ WriteFile(p) \/ RenameFile(p) \/ UnlinkFile(p)
        PROVE  CacheInv'
    BY <2>4, Creates, Writes, Renames, Unlinks
  <2>5. CASE PowerLoss \/ FlushDirectory \/ Tamper
    BY <2>5, LosesPower, Flushes, Tampers
  <2>6. CASE UNCHANGED specVars
    BY <2>6 DEF specVars, CacheInv, CacheTyped, Where, Mine, Unpublished, TempNamed, Used, Files
  <2> QED
    BY <2>1, <2>2, <2>3, <2>4, <2>5, <2>6 DEF SpecCacheNext
<1> QED
  BY <1>1, <1>2, PTL DEF SpecCacheSpec

(* The files, the names and the processes stay what they are declared to be.*)
THEOREM CacheTypes == SpecCacheSpec => []SpecTypeOK
<1>1. CacheInv => SpecTypeOK
  <2> SUFFICES ASSUME CacheInv
               PROVE  SpecTypeOK
    OBVIOUS
  <2>1. /\ inodes \in Seq(CacheFiles) /\ DOMAIN inodes = Files
        /\ \A i \in Files : inodes[i] \in CacheFiles
    BY DEF CacheInv, CacheTyped, Files
  <2>2. \A p \in SpecProcs : sp[p] \in SpecProcesses
    BY DEF CacheInv, CacheTyped
  <2>3. \A i \in DOMAIN inodes :
          /\ inodes[i].doc \in SpecDocs
          /\ inodes[i].version \in {SpecVersion[q] : q \in SpecProcs}
          /\ inodes[i].state \in FileStates
    BY <2>1 DEF CacheFiles, Versions
  <2>4. \A p \in SpecProcs :
          /\ sp[p].command \in {"none", "use", "sync", "reset"}
          /\ sp[p].table \in SpecDocs \cup {BuiltIn}
          /\ sp[p].result \in {"none", "done", "unchanged", "failed"}
    BY <2>2 DEF SpecProcesses
  <2>5. \A p \in SpecProcs :
          /\ sp[p].temp \in DOMAIN inodes \cup {NoFile}
          /\ sp[p].stage = "rename" => inodes[sp[p].temp].state # "gone"
    BY <2>1 DEF CacheInv, Where, Mine
  <2>6. /\ path \in DOMAIN inodes \cup {NoFile, Pipe}
        /\ durable \subseteq DOMAIN inodes \cup {NoFile, Pipe}
        /\ specFaults \in 0 .. MaxSpecFaults
    BY <2>1 DEF CacheInv, CacheTyped
  <2> QED
    BY <2>3, <2>4, <2>5, <2>6 DEF SpecTypeOK, FileStates
<1> QED
  BY <1>1, CacheInvariance, PTL

(* What a command may rely on in the cache (load_at, store_at, reset): a    *)
(* table that its own version compiled and stored whole, or the built-in    *)
(* one; a path that never names half a file; nothing left of a sync that    *)
(* failed.  For any number of processes and of versions of the program.     *)
THEOREM CacheSoundness == SpecCacheSpec => []SpecCacheIsSound
<1>1. CacheInv => SpecCacheIsSound
  <2> SUFFICES ASSUME CacheInv
               PROVE  SpecCacheIsSound
    OBVIOUS
  <2>1. DOMAIN inodes = Files
    BY DEF CacheInv, CacheTyped, Files
  <2>2. TableIsTrusted
    BY <2>1 DEF CacheInv, Used, TableIsTrusted
  <2>3. NeverHalfACache
    BY <2>1 DEF CacheInv, TempNamed, NeverHalfACache
  <2>4. FailureLeavesNothing
    BY DEF CacheInv, Mine, Unpublished, FailureLeavesNothing
  <2> QED
    BY <2>2, <2>3, <2>4 DEF SpecCacheIsSound
<1> QED
  BY <1>1, CacheInvariance, PTL

(* Only a rename and a removal report that a command is done.               *)
Reports(p) == sp[p].result # "done" /\ sp'[p].result = "done"

(* A step that leaves a process unfinished reports nothing.                 *)
LEMMA Silent ==
  ASSUME CacheTyped, NEW p \in SpecProcs, NEW q \in SpecProcs,
         NEW r, Goes(q, r), r.result # "done"
  PROVE  ~Reports(p)
  BY DEF CacheTyped, Goes, Reports

(* Only the rename and the unlink report that a sync or a reset is done.    *)
LEMMA OnlyNames ==
  ASSUME CacheInv, NEW p \in SpecProcs, Reports(p), SpecCacheNext
  PROVE  RenameFile(p) \/ UnlinkFile(p)
<1>1. \A q \in SpecProcs : sp[q] \in SpecProcesses
  BY DEF CacheInv, CacheTyped
<1>2. \A q \in SpecProcs : sp[q].stage # "done" => sp[q].result = "none"
  BY DEF CacheInv, Where
<1>3. CacheTyped
  BY DEF CacheInv
<1>4. ASSUME NEW q \in SpecProcs, NEW command \in {"use", "sync", "reset"}, Begin(q, command)
      PROVE  FALSE
  <2> DEFINE r == [sp[q] EXCEPT !.command = command,
                                !.stage = IF command = "reset" THEN "unlink" ELSE "stat"]
  <2>1. r.result = "none"
    BY <1>1, <1>2, <1>4 DEF Begin, SpecProcesses
  <2> QED
    BY <1>3, <1>4, <2>1, Silent DEF Begin
<1>5. ASSUME NEW q \in SpecProcs, sp[q].stage # "done", NEW table, NEW file, Loaded(q, table, file)
      PROVE  FALSE
  <2> DEFINE r == [sp[q] EXCEPT !.stage = AfterLoad(q), !.table = table, !.from = file]
  <2>1. r.result = "none"
    BY <1>1, <1>2, <1>5 DEF SpecProcesses
  <2> QED
    BY <1>3, <1>5, <2>1, Silent DEF Loaded
<1>6. ASSUME NEW q \in SpecProcs, sp[q].stage # "done", NEW result,
             EndSpec(q, result), result # "done"
      PROVE  FALSE
  <2> DEFINE r == [sp[q] EXCEPT !.stage = "done", !.result = result]
  <2>1. r.result = result
    BY <1>1 DEF SpecProcesses
  <2> QED
    BY <1>3, <1>6, <2>1, Silent DEF EndSpec
<1>7. ASSUME NEW q \in SpecProcs, sp[q].stage # "done", NEW doc, Compile(q, doc)
      PROVE  FALSE
  <2> DEFINE r == [sp[q] EXCEPT !.stage = "create", !.doc = doc]
  <2>1. r.result = "none"
    BY <1>1, <1>2, <1>7 DEF SpecProcesses
  <2> QED
    BY <1>3, <1>6, <1>7, <2>1, Silent DEF Compile
<1>8. ASSUME NEW q \in SpecProcs, Stat(q)
      PROVE  FALSE
  <2> DEFINE r == [sp[q] EXCEPT !.stage = "open", !.seen = path]
  <2>1. sp[q].stage # "done" /\ r.result = "none"
    BY <1>1, <1>2, <1>8 DEF Stat, SpecProcesses
  <2> QED
    BY <1>3, <1>5, <1>8, <2>1, Silent DEF Stat
<1>9. ASSUME NEW q \in SpecProcs, Open(q)
      PROVE  FALSE
  BY <1>5, <1>9 DEF Open
<1>10. ASSUME NEW q \in SpecProcs, Compare(q)
       PROVE  FALSE
  BY <1>6, <1>7, <1>10 DEF Compare
<1>11. ASSUME NEW q \in SpecProcs, NEW force \in BOOLEAN, FetchSpec(q, force)
       PROVE  FALSE
  <2>1. sp[q].stage # "done"
    BY <1>11 DEF FetchSpec
  <2>2. ASSUME NEW d \in SpecDocs, Goes(q, [sp[q] EXCEPT !.stage = "stat", !.doc = d])
        PROVE  FALSE
    <3> DEFINE r == [sp[q] EXCEPT !.stage = "stat", !.doc = d]
    <3>1. r.result = "none"
      BY <1>1, <1>2, <2>1 DEF SpecProcesses
    <3> QED
      BY <1>3, <2>2, <3>1, Silent
  <2> QED
    BY <1>6, <1>7, <1>11, <2>1, <2>2 DEF FetchSpec
<1>12. ASSUME NEW q \in SpecProcs, CreateFile(q)
       PROVE  FALSE
  <2> DEFINE r == [sp[q] EXCEPT !.stage = "write", !.temp = Len(inodes) + 1]
  <2>1. r.result = "none"
    BY <1>1, <1>2, <1>12 DEF CreateFile, SpecProcesses
  <2> QED
    BY <1>3, <1>12, <2>1, Silent DEF CreateFile
<1>13. ASSUME NEW q \in SpecProcs, WriteFile(q)
       PROVE  FALSE
  <2> DEFINE r == [sp[q] EXCEPT !.stage = "rename"]
  <2>1. sp[q].stage # "done" /\ r.result = "none"
    BY <1>1, <1>2, <1>13 DEF WriteFile, SpecProcesses
  <2> QED
    BY <1>3, <1>6, <1>13, <2>1, Silent DEF WriteFile
<1>14. ASSUME NEW q \in SpecProcs, q # p, RenameFile(q) \/ UnlinkFile(q)
       PROVE  FALSE
  BY <1>3, <1>14 DEF RenameFile, UnlinkFile, EndSpec, Goes, CacheTyped, Reports
<1>15. ASSUME PowerLoss \/ FlushDirectory \/ Tamper
       PROVE  FALSE
  <2>1. CASE PowerLoss
    <3> DEFINE killed == [sp[p] EXCEPT !.stage = "done", !.result = "none"]
    <3>1. killed.result = "none"
      BY <1>1 DEF SpecProcesses
    <3>2. sp'[p] = IF sp[p].stage \in {"idle", "done"} THEN sp[p] ELSE killed
      BY <2>1 DEF PowerLoss
    <3> HIDE DEF killed
    <3> QED
      BY <3>1, <3>2 DEF Reports
  <2>2. CASE FlushDirectory \/ Tamper
    BY <2>2 DEF FlushDirectory, Tamper, Reports
  <2> QED
    BY <1>15, <2>1, <2>2
<1> QED
  BY <1>4, <1>8, <1>9, <1>10, <1>11, <1>12, <1>13, <1>14, <1>15 DEF SpecCacheNext

(* A sync that reports success has put a file in place that a command of its*)
(* own version loads, with the table of the document it fetched (persist,   *)
(* store_at).                                                               *)
THEOREM SyncIsTrue == SpecCacheSpec => SyncTakesEffect
<1> DEFINE Effect ==
      \A p \in SpecProcs :
        sp[p].command = "sync" /\ sp[p].result = "none" /\ sp'[p].result = "done" =>
          /\ path' \in DOMAIN inodes'
          /\ inodes'[path'].doc = sp[p].doc
          /\ inodes'[path'].version = SpecVersion[p]
          /\ inodes'[path'].state \in {"whole", "synced"}
<1>1. CacheInv /\ [SpecCacheNext]_specVars => Effect
  <2> SUFFICES ASSUME CacheInv, [SpecCacheNext]_specVars, NEW p \in SpecProcs,
                      sp[p].command = "sync", sp[p].result = "none", sp'[p].result = "done"
               PROVE  /\ path' \in DOMAIN inodes'
                      /\ inodes'[path'].doc = sp[p].doc
                      /\ inodes'[path'].version = SpecVersion[p]
                      /\ inodes'[path'].state \in {"whole", "synced"}
    OBVIOUS
  <2>1. SpecCacheNext /\ Reports(p)
    BY DEF specVars, Reports
  <2>2. RenameFile(p) \/ UnlinkFile(p)
    BY <2>1, OnlyNames
  <2>3. ~UnlinkFile(p)
    BY DEF UnlinkFile, CacheInv, Where
  <2>4. sp[p].stage = "rename" /\ sp[p] \in SpecProcesses
    BY <2>2, <2>3 DEF RenameFile, CacheInv, CacheTyped
  <2>5. ~EndSpec(p, "failed")
    <3> DEFINE r == [sp[p] EXCEPT !.stage = "done", !.result = "failed"]
    <3>1. r.result = "failed"
      BY <2>4 DEF SpecProcesses
    <3> QED
      BY <3>1, <2>1, Silent DEF EndSpec, CacheInv
  <2>6. path' = sp[p].temp /\ inodes' = inodes
    BY <2>2, <2>3, <2>5 DEF RenameFile
  <2>7. /\ sp[p].temp \in Files
        /\ inodes[sp[p].temp].doc = sp[p].doc
        /\ inodes[sp[p].temp].version = SpecVersion[p]
        /\ inodes[sp[p].temp].state = "synced"
    BY <2>4 DEF CacheInv, Where, Mine
  <2>8. DOMAIN inodes = Files
    BY DEF CacheInv, CacheTyped, Files
  <2> QED
    BY <2>6, <2>7, <2>8
<1> QED
  BY <1>1, CacheInvariance, PTL DEF SpecCacheSpec, SyncTakesEffect

-----------------------------------------------------------------------------
(* The skill: the invariant.                                                *)

Codes == {"none", "0", "1", "2", "9"}
Dirs == {"none", "dir", "link"}
Found == {"unusable", "absent", "current", "ours", "foreign"}
Installs ==
  [stage : SkillStages, force : BOOLEAN, action : Actions \cup {"none"},
   outcomes : Seq(Actions), found : Found \cup {"none"}, checked : Dirs,
   through : SUBSET ((1 .. Places) \X Dirs), wrote : SUBSET (1 .. Places),
   over : SUBSET ((1 .. Places) \X (Found \cup {"none"})), left : Seq(SkillDocuments),
   emitted : BOOLEAN, exit : Codes]

(* What each variable holds, the shape of the records included.             *)
SkillTyped ==
  /\ \/ place = <<>> /\ elsewhere = <<>> /\ \A i \in Installers : install[i].stage = "idle"
     \/ Places > 0 /\ place \in [1 .. Places -> FirstPlaces]
        /\ elsewhere \in [1 .. Places -> SkillDocuments]
  /\ install \in [Installers -> Installs]
  /\ meddling \in 0 .. MaxMeddling

(* An install goes through the targets, and ends with the last one.         *)
Installing == {"inspect", "check", "publish"}
Progress(it) ==
  /\ it.stage \in Installing => Len(it.outcomes) < Places
  /\ it.stage = "idle" => /\ it.outcomes = <<>> /\ it.left = <<>> /\ it.wrote = {}
                          /\ it.over = {} /\ it.found = "none"
  /\ it.stage # "done" => it.exit = "none"
  /\ it.stage \in {"report", "done"} => Len(it.outcomes) = Places
  /\ it.stage = "done" => it.exit = IF it.emitted THEN SkillVerdict(it.outcomes) ELSE "1"
  /\ Len(it.left) = Len(it.outcomes)
  /\ it.stage \in {"check", "publish"} => it.action \in Succeeded
  /\ it.stage = "publish" => it.checked # "link"
  /\ it.found = "foreign" => it.force

(* A success means that the agent had this document then, and only a success*)
(* has written anything, through a link only if it was none before, and over*)
(* another skill that was there at the look only with --force.              *)
Earned(i, it) ==
  /\ \A k \in 1 .. Len(it.outcomes) : it.outcomes[k] \in Succeeded => it.left[k] = Ours(i, FALSE)
  /\ \A k \in it.wrote : k \in 1 .. Len(it.outcomes) /\ it.outcomes[k] \in Succeeded
  /\ \A w \in it.through : w[2] # "link"
  /\ \A w \in it.over : w[2] = "foreign" => it.force

SkillInv == SkillTyped /\ \A i \in Installers : Progress(install[i]) /\ Earned(i, install[i])

-----------------------------------------------------------------------------
(* The skill: the steps.                                                    *)

(* An install moves, the others do not, and the machine stays in its range. *)
LEMMA InstallMoves ==
  ASSUME SkillInv, NEW i \in Installers, NEW it \in Installs, Becomes(i, it),
         Progress(it), Earned(i, it), Places > 0,
         place' \in [1 .. Places -> FirstPlaces], elsewhere' \in [1 .. Places -> SkillDocuments],
         meddling' \in 0 .. MaxMeddling
  PROVE  SkillInv'
<1>1. /\ install' \in [Installers -> Installs] /\ install'[i] = it
      /\ \A j \in Installers : j # i => install'[j] = install[j]
  BY DEF SkillInv, SkillTyped, Becomes
<1>2. SkillTyped'
  BY <1>1 DEF SkillTyped
<1>3. \A j \in Installers : Progress(install'[j]) /\ Earned(j, install'[j])
  BY <1>1 DEF SkillInv
<1> QED
  BY <1>2, <1>3 DEF SkillInv

(* An install that is underway is at a target.                              *)
LEMMA AtATarget ==
  ASSUME SkillInv, NEW i \in Installers, install[i].stage \in Installing
  PROVE  /\ Places > 0 /\ Current(i) \in 1 .. Places
         /\ place \in [1 .. Places -> FirstPlaces]
         /\ elsewhere \in [1 .. Places -> SkillDocuments]
         /\ install[i] \in Installs
<1>1. install[i] \in Installs /\ Progress(install[i])
  BY DEF SkillInv, SkillTyped
<1>2. install[i].outcomes \in Seq(Actions) /\ Len(install[i].outcomes) < Places
  BY <1>1 DEF Installs, Progress
<1>3. Current(i) \in 1 .. Places
  BY <1>2 DEF Current
<1> QED
  BY <1>1, <1>3 DEF SkillInv, SkillTyped, Installing

(* What an agent reads at a target is a document.                           *)
LEMMA ReadOpens ==
  ASSUME place' \in [1 .. Places -> FirstPlaces],
         elsewhere' \in [1 .. Places -> SkillDocuments], NEW k \in 1 .. Places
  PROVE  ReadsNext(k) \in SkillDocuments
<1>1. \A target \in FirstPlaces : target.doc \in SkillDocuments
  <2>1. \A root, dir, doc : TargetDir(root, dir, doc).doc = doc
    BY DEF TargetDir
  <2>2. NoSkill \in SkillDocuments
    BY DEF SkillDocuments
  <2> QED
    BY <2>1, <2>2 DEF FirstPlaces
<1> QED
  BY <1>1 DEF ReadsNext

(* The exit code is one of the codes.                                       *)
LEMMA VerdictIsCode == ASSUME NEW outcomes PROVE SkillVerdict(outcomes) \in {"0", "1", "2", "9"}
  BY DEF SkillVerdict

(* A target is done with.                                                   *)
LEMMA Concludes ==
  ASSUME SkillInv, NEW i \in Installers, install[i].stage \in Installing,
         NEW it \in Installs, NEW action \in Actions, Conclude(i, it, action),
         it.outcomes = install[i].outcomes, it.left = install[i].left,
         it.wrote \subseteq install[i].wrote \cup {Current(i)},
         Current(i) \in it.wrote => action \in Succeeded,
         it.exit = install[i].exit, it.force = install[i].force,
         \A w \in it.through : w[2] # "link",
         \A w \in it.over : w[2] = "foreign" => it.force,
         action \in Succeeded => ReadsNext(Current(i)) = Ours(i, FALSE),
         place' \in [1 .. Places -> FirstPlaces], elsewhere' \in [1 .. Places -> SkillDocuments],
         meddling' \in 0 .. MaxMeddling
  PROVE  SkillInv'
<1> DEFINE was == install[i]
           k == Current(i)
           reads == ReadsNext(k)
           outcomes == Append(it.outcomes, action)
           last == Len(outcomes) = Places
           after == [it EXCEPT !.outcomes = outcomes, !.action = "none", !.found = "none",
                               !.checked = "none", !.left = Append(it.left, reads),
                               !.stage = IF last THEN "report" ELSE "inspect"]
<1>1. /\ Places > 0 /\ k \in 1 .. Places /\ was \in Installs
      /\ Progress(was) /\ Earned(i, was)
  BY AtATarget DEF SkillInv
<1>2. /\ it.outcomes \in Seq(Actions) /\ it.left \in Seq(SkillDocuments)
      /\ Len(it.outcomes) \in Nat /\ Len(it.left) = Len(it.outcomes)
      /\ Len(it.outcomes) < Places /\ k = Len(it.outcomes) + 1
  BY <1>1 DEF Installs, Progress, Current
<1>3. reads \in SkillDocuments
  BY <1>1, ReadOpens
<1>4. it.exit = "none"
  BY <1>1 DEF Progress, Installing
<1> HIDE DEF reads, k
<1>5. /\ outcomes \in Seq(Actions) /\ Len(outcomes) = k /\ outcomes[k] = action
      /\ \A j \in 1 .. Len(it.outcomes) : outcomes[j] = it.outcomes[j]
  BY <1>2
<1> HIDE DEF outcomes, last, after
<1>6. /\ Append(it.left, reads) \in Seq(SkillDocuments)
      /\ Len(Append(it.left, reads)) = k /\ Append(it.left, reads)[k] = reads
      /\ \A j \in 1 .. Len(it.outcomes) : Append(it.left, reads)[j] = it.left[j]
  <2> DEFINE l == it.left
  <2>1. l \in Seq(SkillDocuments) /\ Len(l) = Len(it.outcomes) /\ k = Len(l) + 1
    BY <1>2
  <2> HIDE DEF l
  <2>2. /\ Append(l, reads) \in Seq(SkillDocuments) /\ Len(Append(l, reads)) = k
        /\ Append(l, reads)[k] = reads /\ \A j \in 1 .. Len(l) : Append(l, reads)[j] = l[j]
    BY <1>3, <2>1
  <2> QED
    BY <2>1, <2>2 DEF l
<1> DEFINE left == Append(it.left, reads)
<1> HIDE DEF left
<1>7. after \in Installs
  <2>1. left \in Seq(SkillDocuments)
    BY <1>6 DEF left
  <2>2. after = [it EXCEPT !.outcomes = outcomes, !.action = "none", !.found = "none",
                           !.checked = "none", !.left = left,
                           !.stage = IF last THEN "report" ELSE "inspect"]
    BY DEF left, after
  <2>3. /\ "none" \in Actions \cup {"none"} /\ "none" \in Found \cup {"none"} /\ "none" \in Dirs
        /\ "report" \in SkillStages /\ "inspect" \in SkillStages
    BY DEF Dirs, SkillStages
  <2> QED
    BY <1>5, <2>1, <2>2, <2>3 DEF Installs
<1>8. /\ after.outcomes = outcomes /\ after.left = left /\ after.wrote = it.wrote
      /\ after.through = it.through /\ after.over = it.over /\ after.exit = it.exit
      /\ after.force = it.force /\ after.found = "none"
      /\ after.stage = IF last THEN "report" ELSE "inspect"
  BY DEF Installs, left, after
<1>9. Becomes(i, after)
  BY DEF Conclude, after, outcomes, last, reads, k
<1> HIDE DEF after
<1>10. Progress(after)
  <2>1. Len(outcomes) <= Places /\ Len(outcomes) \in Nat /\ Len(left) = Len(outcomes)
    BY <1>1, <1>2, <1>5, <1>6 DEF left
  <2> QED
    BY <1>2, <1>4, <1>8, <2>1 DEF Progress, Installing, last
<1>11. Earned(i, after)
  <2>1. ASSUME NEW j \in 1 .. Len(outcomes), outcomes[j] \in Succeeded
        PROVE  left[j] = Ours(i, FALSE)
    <3>1. CASE j = k
      BY <1>5, <1>6, <2>1, <3>1 DEF reads, k, left
    <3>2. CASE j # k
      <4>1. j \in 1 .. Len(it.outcomes)
        BY <1>2, <1>5, <3>2
      <4>2. it.left[j] = Ours(i, FALSE)
        BY <1>1, <1>5, <2>1, <4>1 DEF Earned
      <4> QED
        BY <1>6, <4>1, <4>2 DEF left
    <3> QED
      BY <3>1, <3>2
  <2>2. ASSUME NEW j \in it.wrote
        PROVE  j \in 1 .. Len(outcomes) /\ outcomes[j] \in Succeeded
    <3>1. CASE j = k
      BY <1>1, <1>2, <1>5, <2>2, <3>1 DEF k
    <3>2. CASE j # k
      <4>1. j \in was.wrote
        BY <2>2, <3>2 DEF k
      <4>2. j \in 1 .. Len(it.outcomes) /\ it.outcomes[j] \in Succeeded
        BY <1>1, <4>1 DEF Earned
      <4> QED
        BY <1>2, <1>5, <4>2
    <3> QED
      BY <3>1, <3>2
  <2> QED
    BY <1>8, <2>1, <2>2 DEF Earned
<1> QED
  BY <1>1, <1>7, <1>9, <1>10, <1>11, InstallMoves

(* A directory that is there, with a document of its own in it, or none.    *)
LEMMA Targets ==
  /\ NoSkill \in SkillDocuments
  /\ \A i \in Installers : Ours(i, FALSE) \in SkillDocuments
  /\ \A target \in FirstPlaces :
       /\ target = TargetDir(target.root, target.dir, target.doc)
       /\ target.doc \in SkillDocuments /\ target.dir \in Dirs
       /\ target.root = "ok" /\ target.dir # "link" =>
            [target EXCEPT !.dir = "dir"] \in FirstPlaces
       /\ target.root = "ok" /\ target.dir = "dir" =>
            \A doc \in SkillDocuments : [target EXCEPT !.doc = doc] \in FirstPlaces
  /\ Rearrangements \subseteq FirstPlaces
<1>1. NoSkill \in SkillDocuments /\ Another \in SkillDocuments
  BY DEF SkillDocuments
<1>2. \A i \in Installers : Ours(i, FALSE) \in SkillDocuments
  <2> TAKE i \in Installers
  <2> DEFINE edited == FALSE
  <2>1. edited \in BOOLEAN
    OBVIOUS
  <2> HIDE DEF edited
  <2>2. Ours(i, edited) \in SkillDocuments
    <3> DEFINE ours == {Ours(v, e) : v \in Installers, e \in BOOLEAN}
    <3>1. Ours(i, edited) \in ours
      BY <2>1
    <3>2. ours \subseteq SkillDocuments
      <4>1. SkillDocuments = ours \cup {Ours(0, TRUE), Another, Irregular, NoSkill}
        BY DEF SkillDocuments
      <4> HIDE DEF ours
      <4> QED
        BY <4>1
    <3> QED
      BY <3>1, <3>2
  <2> QED
    BY <2>2 DEF edited
<1>3. \A root, dir, doc :
        /\ TargetDir(root, dir, doc).root = root
        /\ TargetDir(root, dir, doc).dir = dir /\ TargetDir(root, dir, doc).doc = doc
        /\ \A d : [TargetDir(root, dir, doc) EXCEPT !.dir = d] = TargetDir(root, d, doc)
        /\ \A d : [TargetDir(root, dir, doc) EXCEPT !.doc = d] = TargetDir(root, dir, d)
  BY DEF TargetDir
<1>4. \A doc \in SkillDocuments : TargetDir("ok", "dir", doc) \in FirstPlaces
  BY DEF FirstPlaces
<1>5. ASSUME NEW target \in FirstPlaces
      PROVE  \/ \E doc \in SkillDocuments : target = TargetDir("ok", "dir", doc)
             \/ target = TargetDir("ok", "none", NoSkill)
             \/ target = TargetDir("ok", "link", NoSkill)
             \/ target = TargetDir("file", "none", NoSkill)
  BY DEF FirstPlaces
<1>6. ASSUME NEW target \in FirstPlaces
      PROVE  /\ target = TargetDir(target.root, target.dir, target.doc)
             /\ target.doc \in SkillDocuments /\ target.dir \in Dirs
             /\ target.root = "ok" /\ target.dir # "link" =>
                  [target EXCEPT !.dir = "dir"] \in FirstPlaces
             /\ target.root = "ok" /\ target.dir = "dir" =>
                  \A doc \in SkillDocuments : [target EXCEPT !.doc = doc] \in FirstPlaces
  <2>1. PICK root, dir, doc : /\ target = TargetDir(root, dir, doc)
                              /\ dir \in Dirs /\ doc \in SkillDocuments
    <3>1. "none" \in Dirs /\ "dir" \in Dirs /\ "link" \in Dirs
      BY DEF Dirs
    <3> QED
      BY <1>1, <1>5, <3>1
  <2>2. target.root = root /\ target.dir = dir /\ target.doc = doc
    BY <1>3, <2>1
  <2>3. [target EXCEPT !.dir = "dir"] = TargetDir(root, "dir", doc)
    BY <1>3, <2>1
  <2>4. \A d : [target EXCEPT !.doc = d] = TargetDir(root, dir, d)
    BY <1>3, <2>1
  <2> QED
    BY <1>4, <2>1, <2>2, <2>3, <2>4
<1>7. Rearrangements \subseteq FirstPlaces
  BY <1>1, <1>4 DEF Rearrangements, FirstPlaces
<1> QED
  BY <1>1, <1>2, <1>6, <1>7

(* The machine as it is found.                                              *)
LEMMA Finds == ASSUME SkillInv, FindPlaces PROVE SkillInv'
<1>1. /\ place' \in [1 .. Places -> FirstPlaces] /\ elsewhere' = [k \in 1 .. Places |-> NoSkill]
      /\ UNCHANGED <<install, meddling>> /\ place = <<>>
  BY DEF FindPlaces
<1>2. elsewhere' \in [1 .. Places -> SkillDocuments]
  BY <1>1, Targets
<1>3. CASE Places > 0
  BY <1>1, <1>2, <1>3 DEF SkillInv, SkillTyped
<1>4. CASE ~(Places > 0)
  <2>1. 1 .. Places = {}
    BY <1>4
  <2>2. place' = <<>> /\ elsewhere' = <<>>
    BY <1>1, <2>1
  <2>3. \A i \in Installers : install[i].stage = "idle"
    BY <1>4 DEF SkillInv, SkillTyped
  <2> QED
    BY <1>1, <2>2, <2>3 DEF SkillInv, SkillTyped
<1> QED
  BY <1>3, <1>4

(* An install starts.                                                       *)
LEMMA Starts ==
  ASSUME SkillInv, NEW i \in Installers, NEW force \in BOOLEAN, StartInstall(i, force)
  PROVE  SkillInv'
<1> DEFINE it == [install[i] EXCEPT !.stage = "inspect", !.force = force]
<1>1. /\ place # <<>> /\ install[i].stage = "idle" /\ Becomes(i, it)
      /\ UNCHANGED <<place, elsewhere, meddling>>
  BY DEF StartInstall
<1>2. /\ install[i] \in Installs /\ Progress(install[i]) /\ Earned(i, install[i])
      /\ Places > 0 /\ place \in [1 .. Places -> FirstPlaces]
      /\ elsewhere \in [1 .. Places -> SkillDocuments] /\ meddling \in 0 .. MaxMeddling
  BY <1>1 DEF SkillInv, SkillTyped
<1>3. it \in Installs
  BY <1>2 DEF Installs, SkillStages
<1>4. /\ it.stage = "inspect" /\ it.outcomes = install[i].outcomes /\ it.left = install[i].left
      /\ it.wrote = install[i].wrote /\ it.through = install[i].through
      /\ it.exit = install[i].exit /\ it.over = install[i].over /\ it.found = install[i].found
  BY <1>2 DEF Installs
<1> HIDE DEF it
<1>5. Progress(it)
  <2>1. /\ install[i].outcomes = <<>> /\ install[i].left = <<>> /\ install[i].exit = "none"
        /\ install[i].found = "none"
    BY <1>1, <1>2 DEF Progress
  <2>2. Len(it.outcomes) = 0 /\ Len(it.left) = 0
    BY <1>4, <2>1
  <2> QED
    BY <1>2, <1>4, <2>1, <2>2 DEF Progress
<1>6. Earned(i, it)
  <2>1. it.over = {}
    BY <1>1, <1>2, <1>4 DEF Progress
  <2> QED
    BY <1>2, <1>4, <2>1 DEF Earned
<1> QED
  BY <1>1, <1>2, <1>3, <1>5, <1>6, InstallMoves

(* What can be found at a target, and what it makes of an install.          *)
LEMMA TargetKinds ==
  \A doc \in SkillDocuments :
    /\ doc.kind \in {"ours", "foreign", "irregular", "none"}
    /\ doc.kind = "none" => doc = NoSkill
<1> DEFINE ours == {Ours(v, e) : v \in Installers, e \in BOOLEAN}
<1>1. \A doc \in ours : doc.kind = "ours"
  BY DEF Ours
<1>2. SkillDocuments = ours \cup {Ours(0, TRUE), Another, Irregular, NoSkill}
  BY DEF SkillDocuments
<1> HIDE DEF ours
<1>3. /\ Ours(0, TRUE).kind = "ours" /\ Another.kind = "foreign"
      /\ Irregular.kind = "irregular" /\ NoSkill.kind = "none"
  BY DEF Ours, Another, Irregular, NoSkill
<1> QED
  BY <1>1, <1>2, <1>3

(* What inspect finds, and what the place holds when it finds it.           *)
LEMMA Findings ==
  ASSUME NEW target \in FirstPlaces, NEW i \in Installers
  PROVE  /\ Inspect(target, i) \in {"unusable", "absent", "current", "ours", "foreign"}
         /\ Inspect(target, i) = "current" => target.doc = Ours(i, FALSE) /\ target.dir # "link"
         /\ Inspect(target, i) = "absent" => target.doc = NoSkill
<1>1. /\ target.doc.kind \in {"ours", "foreign", "irregular", "none"}
      /\ target.doc.kind = "none" => target.doc = NoSkill
  BY Targets, TargetKinds
<1> DEFINE ours == Ours(i, FALSE)
<1>2. Inspect(target, i) =
        IF target.root # "ok" \/ target.dir = "link" \/ target.doc.kind = "irregular"
        THEN "unusable"
        ELSE CASE target.doc.kind = "none" -> "absent"
               [] target.doc = ours -> "current"
               [] OTHER -> target.doc.kind
  BY DEF Inspect
<1>3. ours.kind = "ours"
  BY DEF Ours
<1> HIDE DEF ours
<1>4. /\ Inspect(target, i) \in {"unusable", "absent", "current", "ours", "foreign"}
      /\ Inspect(target, i) = "current" => target.doc = ours /\ target.dir # "link"
      /\ Inspect(target, i) = "absent" => target.doc = NoSkill
  BY <1>1, <1>2, <1>3
<1> QED
  BY <1>4 DEF ours

(* What plan decides: only a current skill is left unchanged.               *)
LEMMA TargetPlans ==
  ASSUME NEW found \in {"unusable", "absent", "current", "ours", "foreign"}, NEW force \in BOOLEAN
  PROVE  /\ PlanFor(found, force) \in {"installed", "unchanged", "upgraded", "replaced", "refused"}
         /\ PlanFor(found, force) = "unchanged" => found = "current"
         /\ found = "foreign" /\ ~force => PlanFor(found, force) = "refused"
  BY DEF PlanFor

(* install_one, up to the decision.                                         *)
LEMMA Examines == ASSUME SkillInv, NEW i \in Installers, Examine(i) PROVE SkillInv'
<1> DEFINE was == install[i]
           k == Current(i)
           found == Inspect(place[k], i)
           action == PlanFor(found, was.force)
<1>1. was.stage = "inspect" /\ UNCHANGED <<place, elsewhere, meddling>>
  BY DEF Examine
<1>2. /\ Places > 0 /\ k \in 1 .. Places /\ was \in Installs
      /\ place \in [1 .. Places -> FirstPlaces] /\ elsewhere \in [1 .. Places -> SkillDocuments]
  BY <1>1, AtATarget DEF Installing
<1>3. Progress(was) /\ Earned(i, was) /\ meddling' \in 0 .. MaxMeddling
  BY <1>1 DEF SkillInv, SkillTyped
<1>4. place[k] \in FirstPlaces /\ was.force \in BOOLEAN
  BY <1>2 DEF Installs
<1>5. /\ found \in {"unusable", "absent", "current", "ours", "foreign"}
      /\ found = "current" => place[k].doc = Ours(i, FALSE) /\ place[k].dir # "link"
  BY <1>4, Findings
<1>6. /\ action \in {"installed", "unchanged", "upgraded", "replaced", "refused"}
      /\ action = "unchanged" => found = "current"
      /\ found = "foreign" /\ ~was.force => action = "refused"
  BY <1>4, <1>5, TargetPlans
<1>7. action \in {"unchanged", "refused"} => Conclude(i, was, action)
  BY DEF Examine
<1>8. action \notin {"unchanged", "refused"} =>
        Becomes(i, [was EXCEPT !.stage = "check", !.action = action, !.found = found])
  BY DEF Examine
<1>9. action = "unchanged" => ReadsNext(k) = Ours(i, FALSE)
  BY <1>1, <1>5, <1>6 DEF ReadsNext
<1>10. /\ \A w \in was.through : w[2] # "link"
       /\ \A w \in was.over : w[2] = "foreign" => was.force
       /\ k \notin was.wrote
  BY <1>2, <1>3 DEF Earned, Installs, Current
<1> HIDE DEF action, found, k
<1>11. CASE action \in {"unchanged", "refused"}
  <2>1. action \in Actions /\ (action \in Succeeded => action = "unchanged")
    BY <1>11 DEF Actions, Succeeded
  <2> QED
    BY <1>1, <1>2, <1>3, <1>7, <1>9, <1>10, <1>11, <2>1, Concludes DEF k, Installing
<1>12. CASE action \notin {"unchanged", "refused"}
  <2> DEFINE it == [was EXCEPT !.stage = "check", !.action = action, !.found = found]
  <2>1. action \in Actions /\ action \in Succeeded
    BY <1>6, <1>12 DEF Actions, Succeeded
  <2>2. it \in Installs
    BY <1>2, <1>5, <2>1 DEF Installs, SkillStages, Found
  <2>3. /\ it.stage = "check" /\ it.action = action /\ it.outcomes = was.outcomes
        /\ it.left = was.left /\ it.wrote = was.wrote /\ it.through = was.through
        /\ it.exit = was.exit /\ it.over = was.over /\ it.force = was.force
        /\ it.found = found
    BY <1>2 DEF Installs
  <2> HIDE DEF it
  <2>4. Progress(it) /\ Earned(i, it)
    BY <1>1, <1>3, <1>6, <1>12, <2>1, <2>3 DEF Progress, Earned, Installing
  <2> QED
    BY <1>1, <1>2, <1>3, <1>8, <1>12, <2>2, <2>4, InstallMoves DEF it
<1> QED
  BY <1>11, <1>12

(* A failure is reported of a target, and nothing else.                     *)
LEMMA Misses ==
  ASSUME SkillInv, NEW i \in Installers, install[i].stage \in Installing,
         Conclude(i, install[i], "failed"),
         place' \in [1 .. Places -> FirstPlaces], elsewhere' \in [1 .. Places -> SkillDocuments],
         meddling' \in 0 .. MaxMeddling
  PROVE  SkillInv'
<1>1. install[i] \in Installs /\ Earned(i, install[i])
  BY DEF SkillInv, SkillTyped
<1>2. /\ \A w \in install[i].through : w[2] # "link"
      /\ \A w \in install[i].over : w[2] = "foreign" => install[i].force
      /\ Current(i) \notin install[i].wrote
  BY <1>1 DEF Earned, Installs, Current
<1>3. "failed" \in Actions /\ "failed" \notin Succeeded
  BY DEF Actions, Succeeded
<1> QED
  BY <1>1, <1>2, <1>3, Concludes

(* write_document: the look at the directory.                               *)
LEMMA Checks == ASSUME SkillInv, NEW i \in Installers, CheckDirectory(i) PROVE SkillInv'
<1> DEFINE was == install[i]
           k == Current(i)
<1>1. was.stage = "check" /\ UNCHANGED <<elsewhere, meddling>>
  BY DEF CheckDirectory
<1>2. /\ Places > 0 /\ k \in 1 .. Places /\ was \in Installs
      /\ place \in [1 .. Places -> FirstPlaces] /\ elsewhere \in [1 .. Places -> SkillDocuments]
  BY <1>1, AtATarget DEF Installing
<1>3. Progress(was) /\ Earned(i, was) /\ meddling' \in 0 .. MaxMeddling
  BY <1>1 DEF SkillInv, SkillTyped
<1>4. CASE UNCHANGED place /\ Conclude(i, was, "failed")
  BY <1>1, <1>2, <1>3, <1>4, Misses DEF Installing
<1>5. CASE /\ place[k].root = "ok" /\ place[k].dir # "link"
           /\ place' = [place EXCEPT ![k].dir = "dir"]
           /\ Becomes(i, [was EXCEPT !.stage = "publish", !.checked = place[k].dir])
  <2> DEFINE it == [was EXCEPT !.stage = "publish", !.checked = place[k].dir]
  <2>1. /\ place[k] \in FirstPlaces /\ place[k].dir \in Dirs
        /\ [place[k] EXCEPT !.dir = "dir"] \in FirstPlaces
    BY <1>2, <1>5, Targets
  <2>2. it \in Installs
    BY <1>2, <2>1 DEF Installs, SkillStages
  <2>3. /\ it.stage = "publish" /\ it.action = was.action /\ it.outcomes = was.outcomes
        /\ it.left = was.left /\ it.wrote = was.wrote /\ it.through = was.through
        /\ it.exit = was.exit /\ it.checked = place[k].dir /\ it.over = was.over
        /\ it.force = was.force /\ it.found = was.found
    BY <1>2 DEF Installs
  <2> HIDE DEF it
  <2>4. Progress(it) /\ Earned(i, it)
    BY <1>1, <1>3, <1>5, <2>3 DEF Progress, Earned, Installing
  <2>5. place' \in [1 .. Places -> FirstPlaces]
    BY <1>2, <1>5, <2>1
  <2>6. Becomes(i, it)
    BY <1>5 DEF it
  <2> QED
    BY <1>1, <1>2, <1>3, <2>2, <2>4, <2>5, <2>6, InstallMoves
<1> QED
  BY <1>4, <1>5 DEF CheckDirectory

(* write_document: the rename.                                              *)
LEMMA Publishes == ASSUME SkillInv, NEW i \in Installers, Publish(i) PROVE SkillInv'
<1> DEFINE was == install[i]
           k == Current(i)
           linked == place[k].dir = "link"
           mine == Ours(i, FALSE)
           old == IF linked THEN elsewhere[k] ELSE place[k].doc
           over == was.over \cup (IF old.kind = "foreign" THEN {<<k, was.found>>} ELSE {})
           it == Wrote(i, k, linked)
<1>1. was.stage = "publish" /\ UNCHANGED meddling
  BY DEF Publish
<1>2. /\ Places > 0 /\ k \in 1 .. Places /\ was \in Installs
      /\ place \in [1 .. Places -> FirstPlaces] /\ elsewhere \in [1 .. Places -> SkillDocuments]
  BY <1>1, AtATarget DEF Installing
<1>3. Progress(was) /\ Earned(i, was) /\ meddling' \in 0 .. MaxMeddling
  BY <1>1 DEF SkillInv, SkillTyped
<1>4. mine \in SkillDocuments /\ place[k] \in FirstPlaces /\ place[k].dir \in Dirs
  BY <1>2, Targets
<1>5. /\ was.action \in Succeeded /\ was.action \in Actions /\ was.checked # "link"
      /\ was.checked \in Dirs /\ was.found \in Found \cup {"none"}
      /\ (was.found = "foreign" => was.force) /\ was.over \in SUBSET ((1 .. Places) \X (Found \cup {"none"}))
  BY <1>1, <1>2, <1>3 DEF Progress, Installs, Actions, Succeeded
<1>6. CASE /\ UNCHANGED <<place, elsewhere>> /\ Conclude(i, was, "failed")
  BY <1>1, <1>2, <1>3, <1>6, Misses DEF Installing
<1>7. CASE /\ place[k].root = "ok" /\ place[k].dir # "none"
           /\ place' = IF linked THEN place ELSE [place EXCEPT ![k].doc = mine]
           /\ elsewhere' = IF linked THEN [elsewhere EXCEPT ![k] = mine] ELSE elsewhere
           /\ Conclude(i, it, was.action)
  <2>1. it = [was EXCEPT !.wrote = was.wrote \cup {k},
                         !.through = was.through \cup
                                       (IF linked THEN {<<k, was.checked>>} ELSE {}),
                         !.over = over]
    BY DEF Wrote
  <2>2. /\ was.wrote \cup {k} \in SUBSET (1 .. Places)
        /\ was.through \cup (IF linked THEN {<<k, was.checked>>} ELSE {})
              \in SUBSET ((1 .. Places) \X Dirs)
        /\ over \in SUBSET ((1 .. Places) \X (Found \cup {"none"}))
    BY <1>2, <1>5 DEF Installs
  <2>3. it \in Installs
    BY <1>2, <2>1, <2>2 DEF Installs
  <2>4. /\ it.outcomes = was.outcomes /\ it.left = was.left /\ it.exit = was.exit
        /\ it.force = was.force /\ it.over = over
        /\ it.wrote = was.wrote \cup {k}
        /\ it.through = was.through \cup (IF linked THEN {<<k, was.checked>>} ELSE {})
    BY <1>2, <2>1 DEF Installs
  <2>5. /\ \A w \in it.through : w[2] # "link"
        /\ \A w \in it.over : w[2] = "foreign" => it.force
    BY <1>3, <1>5, <2>4 DEF Earned
  <2>6. /\ place' \in [1 .. Places -> FirstPlaces]
        /\ elsewhere' \in [1 .. Places -> SkillDocuments]
        /\ ReadsNext(k) = mine
    <3>1. CASE linked
      <4>1. /\ place' = place /\ elsewhere' = [elsewhere EXCEPT ![k] = mine]
        BY <1>7, <3>1
      <4> QED
        BY <1>2, <1>4, <3>1, <4>1 DEF ReadsNext
    <3>2. CASE ~linked
      <4> DEFINE target == [place[k] EXCEPT !.doc = mine]
      <4>1. place[k].dir = "dir"
        BY <1>4, <1>7, <3>2 DEF Dirs
      <4>2. target \in FirstPlaces
        BY <1>4, <1>7, <4>1, Targets
      <4>3. target.dir = "dir" /\ target.doc = mine
        <5>1. place[k] = TargetDir(place[k].root, place[k].dir, place[k].doc)
          BY <1>4, Targets
        <5> DEFINE a == place[k].root
                   b == place[k].dir
                   c == place[k].doc
        <5>2. /\ [TargetDir(a, b, c) EXCEPT !.doc = mine].dir = b
              /\ [TargetDir(a, b, c) EXCEPT !.doc = mine].doc = mine
          BY DEF TargetDir
        <5> QED
          BY <4>1, <5>1, <5>2
      <4>4. place' = [place EXCEPT ![k] = target] /\ elsewhere' = elsewhere
        BY <1>7, <3>2
      <4> HIDE DEF target
      <4> QED
        BY <1>2, <4>2, <4>3, <4>4 DEF ReadsNext
    <3> QED
      BY <3>1, <3>2
  <2> HIDE DEF it, mine, over
  <2>7. it.wrote \subseteq was.wrote \cup {k}
    BY <2>4
  <2> QED
    BY <1>1, <1>3, <1>5, <1>7, <2>3, <2>4, <2>5, <2>6, <2>7, Concludes DEF Installing, mine
<1> QED
  BY <1>6, <1>7 DEF Publish

(* A step of the write fails, or somebody changes what is there.            *)
LEMMA Fails == ASSUME SkillInv, NEW i \in Installers, WriteFails(i) PROVE SkillInv'
<1>1. /\ install[i].stage \in Installing /\ UNCHANGED <<place, elsewhere>>
      /\ meddling < MaxMeddling /\ meddling' = meddling + 1
      /\ Conclude(i, install[i], "failed")
  BY DEF WriteFails, Installing
<1>2. meddling' \in 0 .. MaxMeddling
  BY <1>1 DEF SkillInv, SkillTyped
<1> QED
  BY <1>1, <1>2, AtATarget, Misses

(* The report of the outcomes, and the end.                                 *)
LEMMA Emits == ASSUME SkillInv, NEW i \in Installers, EmitOutcomes(i) PROVE SkillInv'
<1> DEFINE was == install[i]
<1>1. was.stage = "report" /\ UNCHANGED <<place, elsewhere, meddling>>
  BY DEF EmitOutcomes
<1>2. PICK written \in BOOLEAN :
        Becomes(i, [was EXCEPT !.stage = "done", !.emitted = written,
                               !.exit = IF written THEN SkillVerdict(was.outcomes) ELSE "1"])
  BY DEF EmitOutcomes
<1> DEFINE exit == IF written THEN SkillVerdict(was.outcomes) ELSE "1"
           it == [was EXCEPT !.stage = "done", !.emitted = written, !.exit = exit]
<1>3. /\ was \in Installs /\ Progress(was) /\ Earned(i, was) /\ meddling' \in 0 .. MaxMeddling
      /\ Places > 0 /\ place \in [1 .. Places -> FirstPlaces]
      /\ elsewhere \in [1 .. Places -> SkillDocuments]
  BY <1>1 DEF SkillInv, SkillTyped
<1>4. exit \in Codes
  BY VerdictIsCode DEF Codes
<1>5. Becomes(i, it)
  BY <1>2
<1>6. exit = IF written THEN SkillVerdict(was.outcomes) ELSE "1"
  OBVIOUS
<1> HIDE DEF exit
<1>7. it \in Installs
  BY <1>3, <1>4 DEF Installs, SkillStages
<1>8. /\ it.stage = "done" /\ it.emitted = written /\ it.exit = exit
      /\ it.outcomes = was.outcomes /\ it.left = was.left /\ it.wrote = was.wrote
      /\ it.through = was.through /\ it.over = was.over /\ it.force = was.force
      /\ it.found = was.found
  BY <1>3 DEF Installs
<1> HIDE DEF it
<1>9. Progress(it)
  BY <1>1, <1>3, <1>6, <1>8 DEF Progress, Installing
<1>10. Earned(i, it)
  BY <1>3, <1>8 DEF Earned
<1> QED
  BY <1>1, <1>3, <1>5, <1>7, <1>9, <1>10, InstallMoves

(* What other programs do to a target leaves the reports true.              *)
LEMMA Rearranges ==
  ASSUME SkillInv, NEW k \in DOMAIN place, NEW target \in Rearrangements, Rearrange(k, target)
  PROVE  SkillInv'
<1>1. /\ place # <<>> /\ meddling < MaxMeddling /\ meddling' = meddling + 1
      /\ place' = [place EXCEPT ![k] = target] /\ UNCHANGED <<elsewhere, install>>
  BY DEF Rearrange
<1>2. target \in FirstPlaces
  BY Targets
<1>3. meddling' \in 0 .. MaxMeddling
  BY <1>1 DEF SkillInv, SkillTyped
<1>4. /\ Places > 0 /\ place \in [1 .. Places -> FirstPlaces]
      /\ elsewhere \in [1 .. Places -> SkillDocuments]
  BY <1>1 DEF SkillInv, SkillTyped
<1>5. place' \in [1 .. Places -> FirstPlaces]
  BY <1>1, <1>2, <1>4
<1>6. SkillTyped'
  BY <1>1, <1>3, <1>4, <1>5 DEF SkillInv, SkillTyped
<1> QED
  BY <1>1, <1>6 DEF SkillInv

-----------------------------------------------------------------------------
(* The skill: the theorems.                                                 *)

(* Whatever is found, and whoever comes in between, the invariant holds.    *)
THEOREM SkillInvariance == SkillSpec => []SkillInv
<1>1. SkillInit => SkillInv
  <2> SUFFICES ASSUME SkillInit
               PROVE  SkillInv
    OBVIOUS
  <2> DEFINE idle == [stage |-> "idle", force |-> FALSE, action |-> "none", outcomes |-> <<>>,
                      found |-> "none", checked |-> "none", through |-> {}, wrote |-> {},
                      over |-> {}, left |-> <<>>, emitted |-> FALSE, exit |-> "none"]
  <2>1. install = [i \in Installers |-> idle] /\ place = <<>> /\ elsewhere = <<>> /\ meddling = 0
    BY DEF SkillInit
  <2>2. idle \in Installs
    BY DEF Installs, SkillStages, Dirs, Codes
  <2>3. /\ idle.stage = "idle" /\ idle.outcomes = <<>> /\ idle.left = <<>> /\ idle.wrote = {}
        /\ idle.through = {} /\ idle.exit = "none" /\ idle.over = {} /\ idle.found = "none"
    OBVIOUS
  <2> HIDE DEF idle
  <2>4. Progress(idle)
    BY <2>3 DEF Progress, Installing
  <2>5. \A i \in Installers : Earned(i, idle)
    BY <2>3 DEF Earned
  <2> QED
    BY <2>1, <2>2, <2>3, <2>4, <2>5 DEF SkillInv, SkillTyped
<1>2. SkillInv /\ [SkillNext]_skillVars => SkillInv'
  <2> SUFFICES ASSUME SkillInv, [SkillNext]_skillVars
               PROVE  SkillInv'
    OBVIOUS
  <2>1. CASE FindPlaces
    BY <2>1, Finds
  <2>2. ASSUME NEW i \in Installers, NEW force \in BOOLEAN, StartInstall(i, force)
        PROVE  SkillInv'
    BY <2>2, Starts
  <2>3. ASSUME NEW i \in Installers,
               \/ Examine(i) \/ CheckDirectory(i) \/ Publish(i) \/ WriteFails(i)
               \/ EmitOutcomes(i)
        PROVE  SkillInv'
    BY <2>3, Examines, Checks, Publishes, Fails, Emits
  <2>4. ASSUME NEW k \in DOMAIN place, NEW target \in Rearrangements, Rearrange(k, target)
        PROVE  SkillInv'
    BY <2>4, Rearranges
  <2>5. CASE UNCHANGED skillVars
    BY <2>5 DEF skillVars, SkillInv, SkillTyped
  <2> QED
    BY <2>1, <2>2, <2>3, <2>4, <2>5 DEF SkillNext
<1> QED
  BY <1>1, <1>2, PTL DEF SkillSpec

(* The types of skill install (skill.rs install): each place holds one of    *)
(* the things that there may be, and a run has an outcome for a target at    *)
(* most.                                                                    *)
THEOREM SkillTypes == SkillSpec => []SkillTypeOK
<1>1. SkillInv => SkillTypeOK
  <2> SUFFICES ASSUME SkillInv PROVE SkillTypeOK
    OBVIOUS
  <2>1. (\A k \in DOMAIN place : place[k] \in FirstPlaces)
        /\ (\A k \in DOMAIN elsewhere : elsewhere[k] \in SkillDocuments)
    <3>1. DOMAIN <<>> = {}
      OBVIOUS
    <3> QED
      BY <3>1 DEF SkillInv, SkillTyped
  <2>2. ASSUME NEW i \in Installers
        PROVE  /\ install[i].stage \in SkillStages
               /\ install[i].exit \in {"none", "0", "1", "2", "9"}
               /\ \A k \in 1 .. Len(install[i].outcomes) : install[i].outcomes[k] \in Actions
               /\ Len(install[i].outcomes) <= Places
    <3> DEFINE it == install[i]
    <3>1. it \in Installs /\ Progress(it)
      BY DEF SkillInv, SkillTyped
    <3>2. /\ it.stage \in SkillStages /\ it.exit \in Codes /\ it.outcomes \in Seq(Actions)
      BY <3>1 DEF Installs
    <3>3. Len(it.outcomes) <= Places
      <4>1. it.outcomes = <<>> => Len(it.outcomes) = 0
        OBVIOUS
      <4>2. it.stage \in Installing \/ it.stage = "idle" \/ it.stage \in {"report", "done"}
        BY <3>2 DEF SkillStages, Installing
      <4>3. Len(it.outcomes) \in Nat
        BY <3>2
      <4> HIDE DEF it
      <4> QED
        BY <3>1, <4>1, <4>2, <4>3, SkillAssumption DEF Progress
    <3>4. \A k \in 1 .. Len(it.outcomes) : it.outcomes[k] \in Actions
      <4> HIDE DEF it
      <4> QED
        BY <3>2
    <3> QED
      BY <3>2, <3>3, <3>4 DEF Codes
  <2>3. meddling \in 0 .. MaxMeddling
    BY DEF SkillInv, SkillTyped
  <2> QED
    BY <2>1, <2>2, <2>3 DEF SkillTypeOK
<1> QED
  BY <1>1, SkillInvariance, PTL

(* The exit code is what the run did (verdict) unless its report could not  *)
(* be written (emit), nothing is written through a link that was there at   *)
(* the look (write_document) nor, without --force, over another skill that  *)
(* was (plan), and what doctor prescribes works (skill.rs): for any number  *)
(* of targets and of installs, and however often somebody else comes in.    *)
THEOREM SkillSoundness == SkillSpec => []InstallIsHonest
<1>1. SkillInv => InstallIsHonest
  <2> SUFFICES ASSUME SkillInv
               PROVE  InstallIsHonest
    OBVIOUS
  <2>1. ExitIsEarned
    <3> SUFFICES ASSUME NEW i \in Installers
                 PROVE  LET it == install[i]
                            current == {k \in DOMAIN it.left : it.left[k] = Ours(i, FALSE)}
                        IN  /\ it.exit = "0" => Cardinality(current) = Places
                            /\ it.exit = "2" \/ (it.exit = "1" /\ it.emitted) => it.wrote = {}
                            /\ it.exit = "9" => current # {}
      BY DEF ExitIsEarned
    <3> DEFINE it == install[i]
               current == {k \in DOMAIN it.left : it.left[k] = Ours(i, FALSE)}
               made == {k \in DOMAIN it.outcomes : it.outcomes[k] \in Succeeded}
    <3>1. it \in Installs /\ Progress(it) /\ Earned(i, it)
      BY DEF SkillInv, SkillTyped
    <3>2. /\ it.outcomes \in Seq(Actions) /\ it.left \in Seq(SkillDocuments)
          /\ DOMAIN it.left = 1 .. Len(it.outcomes)
          /\ DOMAIN it.outcomes = 1 .. Len(it.outcomes)
      BY <3>1 DEF Installs, Progress
    <3>3. made \subseteq current /\ it.wrote \subseteq made
      BY <3>1, <3>2 DEF Earned
    <3>4. it.exit # "none" => /\ Len(it.outcomes) = Places
                              /\ it.exit = IF it.emitted THEN SkillVerdict(it.outcomes) ELSE "1"
      BY <3>1 DEF Progress
    <3>5. SkillVerdict(it.outcomes) =
            CASE made = DOMAIN it.outcomes -> "0"
              [] made # DOMAIN it.outcomes /\ made # {} -> "9"
              [] OTHER -> IF it.outcomes[1] = "failed" THEN "1" ELSE "2"
      BY DEF SkillVerdict
    <3>6. current \subseteq 1 .. Len(it.outcomes)
      BY <3>2
    <3> HIDE DEF made, current, it
    <3>7. it.exit = "0" => Cardinality(current) = Places
      <4>1. SUFFICES ASSUME it.exit = "0"
                     PROVE  Cardinality(current) = Places
        OBVIOUS
      <4>2. made = 1 .. Len(it.outcomes) /\ Len(it.outcomes) = Places
        BY <3>2, <3>4, <3>5, <4>1
      <4>3. current = 1 .. Places
        BY <3>3, <3>6, <4>2
      <4>4. Cardinality(1 .. Places) = Places
        <5>1. 1 <= Places \/ Places = 0
          OBVIOUS
        <5> QED
          BY <5>1, FS_Interval
      <4> QED
        BY <4>3, <4>4
    <3>8. it.exit = "2" \/ (it.exit = "1" /\ it.emitted) => it.wrote = {}
      BY <3>3, <3>4, <3>5
    <3>9. it.exit = "9" => current # {}
      BY <3>3, <3>4, <3>5
    <3> QED
      BY <3>7, <3>8, <3>9 DEF it, current
  <2>2. NothingElsewhere
    BY DEF SkillInv, Earned, NothingElsewhere
  <2>4. OthersAreKept
    BY DEF SkillInv, Earned, OthersAreKept
  <2>3. RemedyWorks
    <3> SUFFICES ASSUME NEW i \in Installers, NEW k \in DOMAIN place
                 PROVE  LET found == Inspect(place[k], i)
                        IN  /\ Remedy(found) = "install" => PlanFor(found, FALSE) \in Succeeded
                            /\ Remedy(found) = "install --force" => PlanFor(found, TRUE) \in Succeeded
                            /\ ~NeedsAttention(found) => place[k].doc \in {Ours(i, FALSE), NoSkill}
      BY DEF RemedyWorks
    <3>1. place[k] \in FirstPlaces
      BY DEF SkillInv, SkillTyped
    <3> DEFINE found == Inspect(place[k], i)
    <3>2. /\ found \in {"unusable", "absent", "current", "ours", "foreign"}
          /\ found = "current" => place[k].doc = Ours(i, FALSE)
          /\ found = "absent" => place[k].doc = NoSkill
      BY <3>1, Findings
    <3> HIDE DEF found
    <3>3. Remedy(found) = "install" => PlanFor(found, FALSE) \in Succeeded
      BY <3>2 DEF Remedy, PlanFor, Succeeded
    <3>4. Remedy(found) = "install --force" => PlanFor(found, TRUE) \in Succeeded
      BY <3>2 DEF Remedy, PlanFor, Succeeded
    <3>5. ~NeedsAttention(found) => place[k].doc \in {Ours(i, FALSE), NoSkill}
      BY <3>2 DEF NeedsAttention
    <3> QED
      BY <3>3, <3>4, <3>5 DEF found
  <2> QED
    BY <2>1, <2>2, <2>3, <2>4 DEF InstallIsHonest
<1> QED
  BY <1>1, SkillInvariance, PTL
=============================================================================

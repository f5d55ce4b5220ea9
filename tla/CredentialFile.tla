---------------------------- MODULE CredentialFile ----------------------------
(***************************************************************************)
(* The credential file of otl below its transactions: auth/credentials.rs  *)
(* (CredentialStore), auth/lock.rs and auth/secret_file.rs, one system     *)
(* call a step, for several processes in one directory.                    *)
(*                                                                         *)
(* A directory maps names to inodes; a process keeps an inode alive by its *)
(* descriptor, and an inode nobody refers to can be given out again.  The  *)
(* lock lives on an inode and is found by name; the file is replaced by    *)
(* renaming a temporary sibling over it.  A process can die at any step,   *)
(* the machine can lose power, and the lock file may be deleted by hand as *)
(* long as nobody has the lock.                                            *)
(***************************************************************************)
EXTENDS Integers, FiniteSets

CONSTANTS
  Procs,     \* otl processes
  Profiles,  \* profiles of the file
  MaxGen,    \* bound on the sessions stored for a profile
  Inodes,    \* inodes of the file system
  Nothing,   \* no inode: the name is free, or no descriptor
  Temps      \* names of temporary files

ASSUME NothingAssumption == Nothing \notin Inodes \cup Procs
ASSUME BoundAssumption == MaxGen \in Nat /\ Profiles # {}
\* create_temp: ".<file>.tmp.<pid>.<nonce>" is neither the file nor the lock.
ASSUME TempsAssumption == Temps \cap {"credentials", "lock"} = {}

VARIABLES
  names,     \* the directory: name -> inode
  data,      \* what each inode holds
  synced,    \* inodes whose data reached the disk
  revertible,\* inodes (or Nothing) a power failure may put back
  locked,    \* inode -> process holding its advisory lock
  pc, wish, told,
  lockFd,    \* descriptor of the lock file
  readFd,    \* descriptor of the credential file
  snapshot,  \* the file as loaded
  temp       \* name of the temporary file being written

diskVars == <<names, data, synced, revertible>>
procVars == <<pc, wish, told, lockFd, readFd, snapshot, temp>>
vars == <<diskVars, locked, procVars>>

Names == {"credentials", "lock"} \cup Temps

(* Contents.  A file of this build holds its profiles; one that is damaged, *)
(* too open, not ours or of a later version is Foreign: it cannot be loaded.*)
Values == [Profiles -> 0 .. MaxGen]
EmptyValue == [q \in Profiles |-> 0]
Foreign == [q \in Profiles |-> -1]
Torn == [q \in Profiles |-> -2]
Contents == Values \cup {Foreign, Torn}

Wishes == [kind : {"renew", "remove"}, profile : Profiles]
NoWish == [kind |-> "none"]

(* The file as a command finds it: an absent file is an empty set.          *)
Stored == IF names["credentials"] = Nothing THEN EmptyValue
          ELSE data[names["credentials"]]

InLock == {"load", "read", "edit", "temp", "write", "rename", "sync", "emptied"}
PCs == {"idle", "open", "reopen", "locking", "verify"} \cup InLock
Holders == {p \in Procs : pc[p] \in InLock}

TypeOK ==
  /\ names \in [Names -> Inodes \cup {Nothing}]
  /\ data \in [Inodes -> Contents]
  /\ synced \subseteq Inodes
  /\ revertible \subseteq Inodes \cup {Nothing}
  /\ locked \in [Inodes -> Procs \cup {Nothing}]
  /\ pc \in [Procs -> PCs]
  /\ wish \in [Procs -> Wishes \cup {NoWish}]
  /\ told \in [Procs -> {"none", "done", "emptied", "unflushed", "refused"}]
  /\ lockFd \in [Procs -> Inodes \cup {Nothing}]
  /\ readFd \in [Procs -> Inodes \cup {Nothing}]
  /\ snapshot \in [Procs -> Values]
  /\ temp \in [Procs -> Temps \cup {Nothing}]

(* An inode is free once no name and no descriptor refers to it.            *)
Free(i) ==
  /\ \A n \in Names : names[n] # i
  /\ \A p \in Procs : lockFd[p] # i /\ readFd[p] # i
  /\ i \notin revertible

Init ==
  /\ names = [n \in Names |-> Nothing]
  /\ data = [i \in Inodes |-> EmptyValue]
  /\ synced = {}
  /\ revertible = {}
  /\ locked = [i \in Inodes |-> Nothing]
  /\ pc = [p \in Procs |-> "idle"]
  /\ wish = [p \in Procs |-> NoWish]
  /\ told = [p \in Procs |-> "none"]
  /\ lockFd = [p \in Procs |-> Nothing]
  /\ readFd = [p \in Procs |-> Nothing]
  /\ snapshot = [p \in Procs |-> EmptyValue]
  /\ temp = [p \in Procs |-> Nothing]

Goto(p, step) == pc' = [pc EXCEPT ![p] = step]

(* The update of p returns; the lock is dropped with its descriptor.        *)
Leave(p, report) ==
  /\ Goto(p, "idle")
  /\ told' = [told EXCEPT ![p] = report]
  /\ locked' = [i \in Inodes |-> IF locked[i] = p THEN Nothing ELSE locked[i]]
  /\ lockFd' = [lockFd EXCEPT ![p] = Nothing]
  /\ readFd' = [readFd EXCEPT ![p] = Nothing]
  /\ snapshot' = [snapshot EXCEPT ![p] = EmptyValue]
  /\ temp' = [temp EXCEPT ![p] = Nothing]
  /\ wish' = [wish EXCEPT ![p] = NoWish]

(* A step that fails without effect, before anything was created.           *)
Fail(p) == Leave(p, "refused") /\ UNCHANGED diskVars

(* ensure_dir: the directory is not there and cannot be created, is a       *)
(* foreign one, or one that others may write to.                            *)
DirRefused(p) == Fail(p)

-----------------------------------------------------------------------------
(* CredentialStore::update is called.                                       *)
Update(p) ==
  /\ pc[p] = "idle"
  /\ \E w \in Wishes : wish' = [wish EXCEPT ![p] = w]
  /\ Goto(p, "open")
  /\ told' = [told EXCEPT ![p] = "none"]
  /\ UNCHANGED <<diskVars, locked, lockFd, readFd, snapshot, temp>>

(* open_or_create_owner_only: the file is created if it is not there.  A    *)
(* directory others may write to, or an open that fails, ends the update.   *)
CreateLock(p) ==
  /\ pc[p] = "open"
  /\ \/ /\ names["lock"] = Nothing
        /\ \E i \in Inodes :
             /\ Free(i)
             /\ names' = [names EXCEPT !["lock"] = i]
             /\ lockFd' = [lockFd EXCEPT ![p] = i]
             /\ synced' = synced \ {i}
             /\ data' = [data EXCEPT ![i] = EmptyValue]
        /\ Goto(p, "locking")
        /\ UNCHANGED <<revertible, locked, wish, told, readFd, snapshot, temp>>
     \/ /\ names["lock"] # Nothing
        /\ Goto(p, "reopen")
        /\ UNCHANGED <<diskVars, locked, wish, told, lockFd, readFd, snapshot, temp>>
     \/ DirRefused(p) \/ Fail(p)

(* reopen_existing_lock: it may be gone again by now.                       *)
ReopenLock(p) ==
  /\ pc[p] = "reopen"
  /\ \/ /\ names["lock"] # Nothing
        /\ lockFd' = [lockFd EXCEPT ![p] = names["lock"]]
        /\ Goto(p, "locking")
        /\ UNCHANGED <<diskVars, locked, wish, told, readFd, snapshot, temp>>
     \/ Fail(p)

(* acquire_within: try_lock on the descriptor, or the budget runs out.      *)
TryLock(p) ==
  /\ pc[p] = "locking"
  /\ \/ /\ locked[lockFd[p]] = Nothing
        /\ locked' = [locked EXCEPT ![lockFd[p]] = p]
        /\ Goto(p, "verify")
        /\ UNCHANGED <<diskVars, wish, told, lockFd, readFd, snapshot, temp>>
     \/ Fail(p)

Verify_Trusting(p) ==
  /\ pc[p] = "verify"
  /\ Goto(p, "load")
  /\ UNCHANGED <<diskVars, locked, wish, told, lockFd, readFd, snapshot, temp>>

(* verify: the name must still lead to the inode that was locked.           *)
Verify(p) ==
  /\ pc[p] = "verify"
  /\ IF names["lock"] = lockFd[p]
     THEN /\ Goto(p, "load")
          /\ UNCHANGED <<diskVars, locked, wish, told, lockFd, readFd, snapshot, temp>>
     ELSE Fail(p)

(* load: an absent file is an empty set.                                    *)
OpenFile(p) ==
  /\ pc[p] = "load"
  /\ IF names["credentials"] = Nothing
     THEN /\ snapshot' = [snapshot EXCEPT ![p] = EmptyValue]
          /\ Goto(p, "edit")
          /\ UNCHANGED readFd
     ELSE /\ readFd' = [readFd EXCEPT ![p] = names["credentials"]]
          /\ Goto(p, "read")
          /\ UNCHANGED snapshot
  /\ UNCHANGED <<diskVars, locked, wish, told, lockFd, temp>>

ReadFile_Unchecked(p) ==
  /\ pc[p] = "read"
  /\ snapshot' = [snapshot EXCEPT ![p] = data[readFd[p]]]
  /\ readFd' = [readFd EXCEPT ![p] = Nothing]
  /\ Goto(p, "edit")
  /\ UNCHANGED <<diskVars, locked, wish, told, lockFd, temp>>

(* read_checked and the parse, on what was opened.                          *)
ReadFile(p) ==
  /\ pc[p] = "read"
  /\ IF data[readFd[p]] \in Values
     THEN /\ snapshot' = [snapshot EXCEPT ![p] = data[readFd[p]]]
          /\ readFd' = [readFd EXCEPT ![p] = Nothing]
          /\ Goto(p, "edit")
          /\ UNCHANGED <<diskVars, locked, wish, told, lockFd, temp>>
     ELSE Fail(p)

Edited(v, w) ==
  [v EXCEPT ![w.profile] = IF w.kind = "remove" THEN 0 ELSE v[w.profile] + 1]

(* The closure changes the profile it is about, or refuses the file.        *)
Edit(p) ==
  /\ pc[p] = "edit"
  /\ \/ /\ Edited(snapshot[p], wish[p])[wish[p].profile] <= MaxGen
        /\ snapshot' = [snapshot EXCEPT ![p] = Edited(snapshot[p], wish[p])]
        /\ Goto(p, "temp")
        /\ UNCHANGED <<diskVars, locked, wish, told, lockFd, readFd, temp>>
     \/ Fail(p)

(* With nothing left in it the file is removed.  What the name led to may   *)
(* come back: only the rename below is followed by a flush.                 *)
RemoveFile(p) ==
  /\ pc[p] = "temp"
  /\ snapshot[p] = EmptyValue
  /\ \/ /\ names' = [names EXCEPT !["credentials"] = Nothing]
        /\ revertible' = revertible \cup {names["credentials"]}
        /\ Goto(p, "emptied")
        /\ UNCHANGED <<data, synced, locked, wish, told, lockFd, readFd, snapshot, temp>>
     \/ Fail(p)

(* create_temp: never through a name that exists; that name is not used and *)
(* another one is tried, up to a bound.                                     *)
CreateTemp(p) ==
  /\ pc[p] = "temp"
  /\ snapshot[p] # EmptyValue
  /\ \/ \E t \in Temps, i \in Inodes :
          /\ names[t] = Nothing
          /\ Free(i)
          /\ names' = [names EXCEPT ![t] = i]
          /\ data' = [data EXCEPT ![i] = Torn]
          /\ synced' = synced \ {i}
          /\ temp' = [temp EXCEPT ![p] = t]
          /\ Goto(p, "write")
          /\ UNCHANGED <<revertible, locked, wish, told, lockFd, readFd, snapshot>>
     \/ DirRefused(p) \/ Fail(p)

(* The temporary file of p is given up; removing it is a best effort.       *)
Discard(p) ==
  /\ Leave(p, "refused")
  /\ names' \in {names, [names EXCEPT ![temp[p]] = Nothing]}
  /\ UNCHANGED <<data, synced, revertible>>

WriteTemp_NoFsync(p) ==
  /\ pc[p] = "write"
  /\ data' = [data EXCEPT ![names[temp[p]]] = snapshot[p]]
  /\ Goto(p, "rename")
  /\ UNCHANGED <<names, synced, revertible, locked, wish, told, lockFd, readFd, snapshot, temp>>

(* write_atomic: write and fsync the temporary file ...                     *)
WriteTemp(p) ==
  /\ pc[p] = "write"
  /\ \/ /\ data' = [data EXCEPT ![names[temp[p]]] = snapshot[p]]
        /\ synced' = synced \cup {names[temp[p]]}
        /\ Goto(p, "rename")
        /\ UNCHANGED <<names, revertible, locked, wish, told, lockFd, readFd, snapshot, temp>>
     \/ Discard(p)

(* ... rename it over the target ...                                        *)
RenameTemp(p) ==
  /\ pc[p] = "rename"
  /\ \/ /\ names' = [names EXCEPT !["credentials"] = names[temp[p]],
                                   ![temp[p]] = Nothing]
        /\ revertible' = revertible \cup {names["credentials"]}
        /\ temp' = [temp EXCEPT ![p] = Nothing]
        /\ Goto(p, "sync")
        /\ UNCHANGED <<data, synced, locked, wish, told, lockFd, readFd, snapshot>>
     \/ Discard(p)

SyncDir_BestEffort(p) ==
  /\ pc[p] = "sync"
  /\ Leave(p, "done")
  /\ revertible' \in {{}, revertible}
  /\ UNCHANGED <<names, data, synced>>

(* ... and flush the directory, which may fail when all is done.            *)
SyncDir(p) ==
  /\ pc[p] = "sync"
  /\ \/ Leave(p, "done") /\ revertible' = {} /\ UNCHANGED <<names, data, synced>>
     \/ Leave(p, "unflushed") /\ UNCHANGED diskVars

\* The file is gone, and save returns without a flush.
Emptied(p) == pc[p] = "emptied" /\ Leave(p, "emptied") /\ UNCHANGED diskVars

UpdateStep(p) ==
  \/ CreateLock(p) \/ ReopenLock(p) \/ TryLock(p) \/ Verify(p)
  \/ OpenFile(p) \/ ReadFile(p) \/ Edit(p) \/ RemoveFile(p)
  \/ CreateTemp(p) \/ WriteTemp(p) \/ RenameTemp(p) \/ SyncDir(p) \/ Emptied(p)

-----------------------------------------------------------------------------
(* The process dies: its descriptors are closed, its files stay.            *)
Crash(p) == pc[p] # "idle" /\ Leave(p, "none") /\ UNCHANGED diskVars

(* The machine stops: no process is left, the name of the file leads to what*)
(* it led to at the last flush or at any time since, and data that was not  *)
(* flushed is lost.                                                         *)
PowerFailure ==
  /\ \E i \in {names["credentials"]} \cup revertible :
       names' = [names EXCEPT !["credentials"] = i]
  /\ data' = [i \in Inodes |-> IF i \in synced \/ data[i] = Foreign THEN data[i] ELSE Torn]
  /\ revertible' = {}
  /\ locked' = [i \in Inodes |-> Nothing]
  /\ pc' = [p \in Procs |-> "idle"]
  /\ told' = [p \in Procs |-> "none"]
  /\ lockFd' = [p \in Procs |-> Nothing]
  /\ readFd' = [p \in Procs |-> Nothing]
  /\ snapshot' = [p \in Procs |-> EmptyValue]
  /\ temp' = [p \in Procs |-> Nothing]
  /\ wish' = [p \in Procs |-> NoWish]
  /\ UNCHANGED synced

(* The lock file is deleted, or leftovers are cleaned away, by hand, which  *)
(* the message of a lock timeout allows while no process has the lock.      *)
DeleteByHand ==
  /\ Holders = {}
  /\ \E n \in Names \ {"credentials"} : names[n] # Nothing /\ names' = [names EXCEPT ![n] = Nothing]
  /\ UNCHANGED <<data, synced, revertible, locked, procVars>>

(* A later version of otl, or somebody who widens its mode or damages it,   *)
(* makes the file one that this build must refuse; and it is mended again.  *)
Meddle ==
  /\ Holders = {}
  /\ revertible = {}
  /\ names["credentials"] # Nothing
  /\ \E v \in {Foreign, [q \in Profiles |-> MaxGen]} :
       /\ Foreign \in {v, Stored}
       /\ data' = [data EXCEPT ![names["credentials"]] = v]
  /\ UNCHANGED <<names, synced, revertible, locked, procVars>>

Next ==
  \/ \E p \in Procs : Update(p) \/ UpdateStep(p) \/ Crash(p)
  \/ PowerFailure
  \/ DeleteByHand
  \/ Meddle

Spec == Init /\ [][Next]_vars

-----------------------------------------------------------------------------
(* Two processes never both take themselves to have the file to themselves, *)
(* also when the lock file is deleted between opening and locking it.       *)
OneHolder == Cardinality(Holders) <= 1

(* Whatever stops, the name "credentials" leads to a whole file: never to   *)
(* one that is being written or that the disk has not got yet.              *)
NeverTorn ==
  names["credentials"] # Nothing =>
    /\ Stored # Torn
    /\ Stored # Foreign => names["credentials"] \in synced

(* The values a power failure may bring back, and how far each update is.   *)
Unsure == {IF i = Nothing THEN EmptyValue ELSE data[i] : i \in revertible}
Phase == [p \in Procs |-> CASE pc[p] = "idle" -> "idle"
                            [] pc[p] \in {"sync", "emptied"} -> "applied"
                            [] OTHER -> "asked"]

(* Every update takes effect in one step, on the value it finds, or is      *)
(* reported without effect; what is reported as done outlives a power       *)
(* failure, and a file this build cannot read is never replaced.            *)
Store == INSTANCE ProfileStore WITH value <- Stored, unsure <- Unsure, phase <- Phase

ImplementsStore == Store!StoreSpec
=============================================================================

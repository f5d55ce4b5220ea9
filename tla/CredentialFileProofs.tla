------------------------- MODULE CredentialFileProofs -------------------------
(***************************************************************************)
(* The proofs about CredentialFile, for every set of processes, profiles,  *)
(* inodes and temporary names: two processes never both have the file, the *)
(* file is whole whatever stops, and the file, its lock and its directory  *)
(* together implement the store of ProfileStore.                           *)
(*                                                                         *)
(* The argument: a process that went on behind `verify` has the advisory   *)
(* lock of the inode that is named "lock", so there is one at most         *)
(* (LockIsTheirs, OneAtATime).  No inode has two names, and what a power   *)
(* failure may put back has none (Separate); so writing a temporary file   *)
(* changes neither the credential file nor what may come back, which stay  *)
(* whole and on the disk (Durable).  What the holder loaded is therefore   *)
(* what is stored until it renames or removes the file (Working), and that *)
(* rename or removal is the one step in which its update takes effect.     *)
(***************************************************************************)
EXTENDS CredentialFile, FiniteSetTheorems, TLAPS

USE NothingAssumption, BoundAssumption, TempsAssumption

-----------------------------------------------------------------------------
(* The invariant.                                                           *)

LockIsTheirs ==
  \A p \in Procs :
    /\ pc[p] \in {"locking", "verify"} \cup InLock => lockFd[p] \in Inodes
    /\ pc[p] \in {"verify"} \cup InLock => locked[lockFd[p]] = p
    /\ pc[p] \in InLock => names["lock"] = lockFd[p]

Separate ==
  /\ \A m, n \in Names : m # n /\ names[m] # Nothing => names[m] # names[n]
  /\ \A i \in revertible \ {Nothing}, n \in Names \ {"credentials"} : names[n] # i

Durable ==
  \A i \in ({names["credentials"]} \cup revertible) \ {Nothing} :
    i \in synced /\ data[i] # Torn

\* What a process has in hand, by how far its update is.
Working ==
  \A p \in Procs :
    /\ pc[p] # "idle" => wish[p] \in Wishes
    /\ pc[p] = "read" => readFd[p] \in Inodes /\ readFd[p] = names["credentials"]
    /\ pc[p] = "edit" => snapshot[p] = Stored
    /\ pc[p] \in {"temp", "write", "rename"} =>
         Stored \in Values /\ snapshot[p] = Edited(Stored, wish[p])
    /\ pc[p] \in {"write", "rename"} => temp[p] \in Temps /\ names[temp[p]] \in Inodes
    /\ pc[p] = "rename" => names[temp[p]] \in synced /\ data[names[temp[p]]] = snapshot[p]
    /\ pc[p] = "emptied" => names["credentials"] = Nothing

IInv == TypeOK /\ LockIsTheirs /\ Separate /\ Durable /\ Working

-----------------------------------------------------------------------------
(* Contents.                                                                *)

(* A file that cannot be loaded is not a set of profiles, nor is half a     *)
(* file, and an empty set of profiles is one.                               *)
LEMMA ContentsDiffer ==
  /\ Foreign \notin Values /\ Torn \notin Values /\ Foreign # Torn
  /\ EmptyValue \in Values
<1>1. PICK q \in Profiles : TRUE
  BY BoundAssumption
<1>2. Foreign[q] = -1 /\ Torn[q] = -2
  BY DEF Foreign, Torn
<1>3. \A v \in Values : v[q] \in Nat
  BY DEF Values
<1>4. -1 \notin Nat /\ -2 \notin Nat /\ -1 # -2
  OBVIOUS
<1>5. EmptyValue \in Values
  BY DEF EmptyValue, Values
<1> QED
  BY <1>2, <1>3, <1>4, <1>5

(* An edit that stays below the bound yields a set of profiles.             *)
LEMMA EditedType ==
  ASSUME NEW v \in Values, NEW w \in Wishes, Edited(v, w)[w.profile] <= MaxGen
  PROVE  Edited(v, w) \in Values
<1>1. w.profile \in Profiles /\ v[w.profile] \in 0 .. MaxGen
  BY DEF Wishes, Values
<1>2. Edited(v, w)[w.profile] \in 0 .. MaxGen
  <2>1. Edited(v, w)[w.profile] = IF w.kind = "remove" THEN 0 ELSE v[w.profile] + 1
    BY <1>1 DEF Edited, Values
  <2> QED
    BY <1>1, <2>1
<1> QED
  BY <1>1, <1>2 DEF Edited, Values

(* What the name leads to is one of the contents.                           *)
LEMMA StoredType ==
  ASSUME TypeOK
  PROVE  Stored \in Contents
<1>1. names["credentials"] \in Inodes \cup {Nothing}
  BY DEF TypeOK, Names
<1> QED
  BY <1>1, ContentsDiffer DEF Stored, TypeOK, Contents

-----------------------------------------------------------------------------
(* The lock.                                                                *)

USE DEF InLock

(* Who went on behind `verify` has the lock of the inode named "lock".      *)
LEMMA OneAtATime ==
  ASSUME LockIsTheirs, NEW p \in Procs, NEW q \in Procs, pc[p] \in InLock, pc[q] \in InLock
  PROVE  p = q
  BY DEF LockIsTheirs

(* The update of p ends, and at most its temporary name or what a power     *)
(* failure may put back is given up.                                        *)
LEMMA LeaveInv ==
  ASSUME IInv, NEW p \in Procs, pc[p] # "idle",
         NEW report \in {"none", "done", "emptied", "unflushed", "refused"},
         Leave(p, report),
         UNCHANGED <<data, synced>>, revertible' \in {{}, revertible},
         \/ names' = names
         \/ /\ pc[p] \in {"write", "rename"}
            /\ names' = [names EXCEPT ![temp[p]] = Nothing]
  PROVE  IInv'
<1> USE DEF IInv, Leave, Goto
<1>1. TypeOK'
  BY ContentsDiffer DEF TypeOK, Values, EmptyValue, PCs
<1>2. /\ names'["credentials"] = names["credentials"] /\ names'["lock"] = names["lock"]
      /\ \A n \in Names : names'[n] \in {names[n], Nothing}
      /\ \A n \in Names : (pc[p] \in {"write", "rename"} /\ n = temp[p]) \/ names'[n] = names[n]
  BY DEF TypeOK, Names, Working
<1>3. \A q \in Procs \ {p} : /\ pc'[q] = pc[q] /\ wish'[q] = wish[q] /\ lockFd'[q] = lockFd[q]
                             /\ readFd'[q] = readFd[q] /\ snapshot'[q] = snapshot[q]
                             /\ temp'[q] = temp[q]
  BY DEF TypeOK
<1>4. pc'[p] = "idle"
  BY DEF TypeOK
<1>5. LockIsTheirs'
  <2> SUFFICES ASSUME NEW q \in Procs \ {p},
                      pc[q] \in {"locking", "verify"} \cup InLock
               PROVE  /\ lockFd[q] \in Inodes
                      /\ pc[q] \in {"verify"} \cup InLock => locked'[lockFd[q]] = q
                      /\ pc[q] \in InLock => names'["lock"] = lockFd[q]
    BY <1>3, <1>4 DEF LockIsTheirs
  <2> QED
    BY <1>2 DEF LockIsTheirs
<1>6. Separate'
  BY <1>2 DEF Separate, Names
<1>7. Durable'
  BY <1>2 DEF Durable
<1>8. Stored' = Stored
  BY <1>2 DEF Stored
<1>9. Working'
  <2> SUFFICES ASSUME NEW q \in Procs \ {p}, pc[q] # "idle"
               PROVE  pc[q] \in {"write", "rename"} => names'[temp[q]] = names[temp[q]]
    BY <1>2, <1>3, <1>4, <1>8 DEF Working
  <2>1. ASSUME pc[q] \in {"write", "rename"} PROVE pc[p] \notin {"write", "rename"}
    BY <2>1, OneAtATime
  <2> QED
    BY <1>2, <2>1 DEF Working, Names
<1> QED
  BY <1>1, <1>5, <1>6, <1>7, <1>9

(* A step of p that leaves the disk and the others alone.                   *)
LEMMA OwnStep ==
  ASSUME IInv, NEW p \in Procs, UNCHANGED diskVars, TypeOK',
         \A q \in Procs \ {p} : /\ pc'[q] = pc[q] /\ wish'[q] = wish[q] /\ lockFd'[q] = lockFd[q]
                                /\ readFd'[q] = readFd[q] /\ snapshot'[q] = snapshot[q]
                                /\ temp'[q] = temp[q],
         \A i \in Inodes : locked'[i] = locked[i] \/ locked[i] = Nothing,
         pc'[p] \in {"locking", "verify"} \cup InLock => lockFd'[p] \in Inodes,
         pc'[p] \in {"verify"} \cup InLock => locked'[lockFd'[p]] = p,
         pc'[p] \in InLock => names["lock"] = lockFd'[p],
         pc'[p] \notin {"write", "rename", "emptied"},
         pc'[p] # "idle" => wish'[p] \in Wishes,
         pc'[p] = "read" => readFd'[p] \in Inodes /\ readFd'[p] = names["credentials"],
         pc'[p] = "edit" => snapshot'[p] = Stored,
         pc'[p] = "temp" => Stored \in Values /\ snapshot'[p] = Edited(Stored, wish'[p])
  PROVE  IInv'
<1> USE DEF IInv, diskVars
<1>1. LockIsTheirs'
  <2> SUFFICES ASSUME NEW q \in Procs \ {p}, pc[q] \in {"verify"} \cup InLock
               PROVE  locked'[lockFd[q]] = q
    BY DEF LockIsTheirs
  <2> QED
    BY DEF LockIsTheirs
<1>2. Separate' /\ Durable'
  BY DEF Separate, Durable
<1>3. Stored' = Stored
  BY DEF Stored
<1>4. Working'
  BY <1>3 DEF Working
<1> QED
  BY <1>1, <1>2, <1>4
-----------------------------------------------------------------------------
(* The steps of an update.                                                  *)

(* At the start nothing is held, written or pending.                        *)
LEMMA InitInv == Init => IInv
<1> SUFFICES ASSUME Init PROVE IInv
  OBVIOUS
<1>1. TypeOK
  BY ContentsDiffer DEF Init, TypeOK, Contents, PCs, EmptyValue, Values
<1> QED
  BY <1>1 DEF Init, IInv, LockIsTheirs, Separate, Durable, Working, Names

(* An update that fails leaves the directory as it was.                     *)
LEMMA FailInv ==
  ASSUME IInv, NEW p \in Procs, pc[p] # "idle", Fail(p)
  PROVE  IInv'
  BY LeaveInv DEF Fail, diskVars

(* Beginning an update touches no file.                                     *)
LEMMA UpdateInv ==
  ASSUME IInv, NEW p \in Procs, Update(p)
  PROVE  IInv'
<1> USE DEF Update, Goto, IInv, diskVars
<1>1. TypeOK'
  BY DEF TypeOK, PCs
<1> QED
  BY <1>1, OwnStep DEF TypeOK

(* A new file, under a name that was free, in an inode that was free.       *)
LEMMA NewFile ==
  ASSUME IInv, NEW n \in Names \ {"credentials"}, NEW i \in Inodes, NEW v \in Contents,
         names[n] = Nothing, Free(i),
         names' = [names EXCEPT ![n] = i],
         data' = [data EXCEPT ![i] = v],
         synced' = synced \ {i},
         UNCHANGED revertible
  PROVE  /\ Separate' /\ Durable' /\ Stored' = Stored /\ Unsure' = Unsure
         /\ \A m \in Names \ {n} : names'[m] = names[m]
         /\ \A m \in Names \ {n} : names[m] # Nothing =>
              /\ data'[names[m]] = data[names[m]]
              /\ names[m] \in synced => names[m] \in synced'
<1> USE DEF IInv, Free
<1>1. names \in [Names -> Inodes \cup {Nothing}] /\ data \in [Inodes -> Contents]
  BY DEF TypeOK
<1>2. "credentials" \in Names
  BY DEF Names
<1>3. /\ \A m \in Names \ {n} : names'[m] = names[m] /\ names[m] # i
      /\ names'[n] = i
  BY <1>1
<1>4. \A j \in Inodes : j # i => data'[j] = data[j]
  BY <1>1
<1>5. Separate'
  BY <1>1, <1>2, <1>3 DEF Separate
<1>6. revertible \subseteq Inodes \cup {Nothing}
  BY DEF TypeOK
<1>7. Durable'
  BY <1>1, <1>2, <1>3, <1>4, <1>6 DEF Durable
<1>8. Stored' = Stored
  BY <1>1, <1>2, <1>3, <1>4 DEF Stored
<1>9. Unsure' = Unsure
  BY <1>4, <1>6 DEF Unsure
<1> QED
  BY <1>1, <1>3, <1>4, <1>5, <1>7, <1>8, <1>9

(* A new lock file is an inode of its own.                                  *)
LEMMA CreateLockInv ==
  ASSUME IInv, NEW p \in Procs, CreateLock(p)
  PROVE  IInv'
<1> USE DEF CreateLock, Goto, IInv
<1>1. CASE Fail(p)
  BY <1>1, FailInv
<1>2. CASE names["lock"] # Nothing /\ pc' = [pc EXCEPT ![p] = "reopen"]
           /\ UNCHANGED <<diskVars, locked, wish, told, lockFd, readFd, snapshot, temp>>
  <2>1. TypeOK'
    BY <1>2 DEF TypeOK, PCs, diskVars
  <2>2. pc'[p] = "reopen" /\ wish[p] \in Wishes
    BY <1>2 DEF TypeOK, Working
  <2> QED
    BY <1>2, <2>1, <2>2, OwnStep DEF TypeOK
<1>3. ASSUME names["lock"] = Nothing, NEW i \in Inodes, Free(i),
             names' = [names EXCEPT !["lock"] = i],
             lockFd' = [lockFd EXCEPT ![p] = i],
             synced' = synced \ {i},
             data' = [data EXCEPT ![i] = EmptyValue],
             pc' = [pc EXCEPT ![p] = "locking"],
             UNCHANGED <<revertible, locked, wish, told, readFd, snapshot, temp>>
      PROVE  IInv'
  <2>1. TypeOK'
    BY <1>3, ContentsDiffer DEF TypeOK, PCs, Contents
  <2>2. /\ Separate' /\ Durable' /\ Stored' = Stored
        /\ \A m \in Names \ {"lock"} : names'[m] = names[m]
        /\ \A m \in Names \ {"lock"} : names[m] # Nothing =>
             /\ data'[names[m]] = data[names[m]]
             /\ names[m] \in synced => names[m] \in synced'
    <3>1. "lock" \in Names \ {"credentials"} /\ EmptyValue \in Contents
      BY ContentsDiffer DEF Names, Contents
    <3> QED
      BY <1>3, <3>1, NewFile
  <2>3. \A q \in Procs : pc[q] \notin InLock
    BY <1>3 DEF LockIsTheirs
  <2>4. \A q \in Procs : pc'[q] = IF q = p THEN "locking" ELSE pc[q]
    BY <1>3 DEF TypeOK
  <2>5. \A q \in Procs : lockFd'[q] = IF q = p THEN i ELSE lockFd[q]
    BY <1>3 DEF TypeOK
  <2>6. LockIsTheirs'
    BY <1>3, <2>3, <2>4, <2>5 DEF LockIsTheirs
  <2>7. Working'
    BY <1>3, <2>3, <2>4 DEF Working
  <2> QED
    BY <2>1, <2>2, <2>6, <2>7
<1> QED
  BY <1>1, <1>2, <1>3 DEF DirRefused

(* Opening the lock file that exists changes no name.                       *)
LEMMA ReopenLockInv ==
  ASSUME IInv, NEW p \in Procs, ReopenLock(p)
  PROVE  IInv'
<1> USE DEF ReopenLock, Goto, IInv
<1>1. CASE Fail(p)
  BY <1>1, FailInv
<1>2. CASE ~ Fail(p)
  <2>1. names["lock"] \in Inodes
    BY <1>2 DEF TypeOK, Names
  <2>2. TypeOK'
    BY <1>2, <2>1 DEF TypeOK, PCs, diskVars
  <2>3. pc'[p] = "locking" /\ lockFd'[p] = names["lock"] /\ wish[p] \in Wishes
    BY <1>2 DEF TypeOK, Working
  <2> QED
    BY <1>2, <2>1, <2>2, <2>3, OwnStep DEF TypeOK
<1> QED
  BY <1>1, <1>2

(* Only a free inode is locked.                                             *)
LEMMA TryLockInv ==
  ASSUME IInv, NEW p \in Procs, TryLock(p)
  PROVE  IInv'
<1> USE DEF TryLock, Goto, IInv
<1>1. CASE Fail(p)
  BY <1>1, FailInv
<1>2. CASE ~ Fail(p)
  <2>1. lockFd[p] \in Inodes /\ wish[p] \in Wishes
    BY DEF LockIsTheirs, Working
  <2>2. TypeOK'
    BY <1>2, <2>1 DEF TypeOK, PCs, diskVars
  <2>3. pc'[p] = "verify" /\ locked'[lockFd[p]] = p
        /\ \A i \in Inodes : locked'[i] = locked[i] \/ locked[i] = Nothing
    BY <1>2, <2>1 DEF TypeOK
  <2> QED
    BY <1>2, <2>1, <2>2, <2>3, OwnStep DEF TypeOK
<1> QED
  BY <1>1, <1>2

(* Behind `verify` the lock's name still leads to the inode that is locked. *)
LEMMA VerifyInv ==
  ASSUME IInv, NEW p \in Procs, Verify(p)
  PROVE  IInv'
<1> USE DEF Verify, Goto, IInv
<1>1. CASE Fail(p)
  BY <1>1, FailInv
<1>2. CASE ~ Fail(p)
  <2>1. lockFd[p] \in Inodes /\ wish[p] \in Wishes /\ locked[lockFd[p]] = p
    BY DEF LockIsTheirs, Working
  <2>2. TypeOK'
    BY <1>2 DEF TypeOK, PCs, diskVars
  <2>3. pc'[p] = "load" /\ names["lock"] = lockFd[p]
    BY <1>2 DEF TypeOK
  <2> QED
    BY <1>2, <2>1, <2>2, <2>3, OwnStep DEF TypeOK
<1> QED
  BY <1>1, <1>2

(* Opening the credential file pins the inode of its name.                  *)
LEMMA OpenFileInv ==
  ASSUME IInv, NEW p \in Procs, OpenFile(p)
  PROVE  IInv'
<1> USE DEF OpenFile, Goto, IInv
<1>1. lockFd[p] \in Inodes /\ locked[lockFd[p]] = p /\ names["lock"] = lockFd[p]
      /\ wish[p] \in Wishes
  BY DEF LockIsTheirs, Working
<1>2. names["credentials"] \in Inodes \cup {Nothing}
  BY DEF TypeOK, Names
<1>3. TypeOK'
  BY <1>2, ContentsDiffer DEF TypeOK, PCs, diskVars
<1>4. CASE names["credentials"] = Nothing
  <2>1. pc'[p] = "edit" /\ snapshot'[p] = Stored
    BY <1>4 DEF TypeOK, Stored
  <2> QED
    BY <1>1, <1>3, <1>4, <2>1, OwnStep DEF TypeOK
<1>5. CASE names["credentials"] # Nothing
  <2>1. pc'[p] = "read" /\ readFd'[p] = names["credentials"]
    BY <1>5 DEF TypeOK
  <2> QED
    BY <1>1, <1>2, <1>3, <1>5, <2>1, OwnStep DEF TypeOK
<1> QED
  BY <1>4, <1>5

(* What is read is what the name leads to: the lock keeps it so.            *)
LEMMA ReadFileInv ==
  ASSUME IInv, NEW p \in Procs, ReadFile(p)
  PROVE  IInv'
<1> USE DEF ReadFile, Goto, IInv
<1>1. CASE Fail(p)
  BY <1>1, FailInv
<1>2. CASE ~ Fail(p)
  <2>1. lockFd[p] \in Inodes /\ locked[lockFd[p]] = p /\ names["lock"] = lockFd[p]
        /\ wish[p] \in Wishes /\ readFd[p] \in Inodes /\ readFd[p] = names["credentials"]
    BY DEF LockIsTheirs, Working
  <2>2. TypeOK'
    BY <1>2 DEF TypeOK, PCs, diskVars
  <2>3. pc'[p] = "edit" /\ snapshot'[p] = Stored
    BY <1>2, <2>1 DEF TypeOK, Stored
  <2> QED
    BY <1>2, <2>1, <2>2, <2>3, OwnStep DEF TypeOK
<1> QED
  BY <1>1, <1>2

(* The edit changes what is to be written, and no file.                     *)
LEMMA EditInv ==
  ASSUME IInv, NEW p \in Procs, Edit(p)
  PROVE  IInv'
<1> USE DEF Edit, Goto, IInv
<1>1. CASE Fail(p)
  BY <1>1, FailInv
<1>2. CASE ~ Fail(p)
  <2>1. lockFd[p] \in Inodes /\ locked[lockFd[p]] = p /\ names["lock"] = lockFd[p]
        /\ wish[p] \in Wishes /\ snapshot[p] = Stored
    BY DEF LockIsTheirs, Working
  <2>2. snapshot[p] \in Values
    BY DEF TypeOK
  <2>3. Edited(snapshot[p], wish[p]) \in Values
    BY <1>2, <2>1, <2>2, EditedType
  <2>4. TypeOK'
    BY <1>2, <2>3 DEF TypeOK, PCs, diskVars
  <2>5. pc'[p] = "temp" /\ snapshot'[p] = Edited(Stored, wish[p]) /\ Stored \in Values
    BY <1>2, <2>1, <2>2 DEF TypeOK
  <2> QED
    BY <1>2, <2>1, <2>4, <2>5, OwnStep DEF TypeOK
<1> QED
  BY <1>1, <1>2
(* A step of the holder that leaves the lock alone.                         *)
LEMMA HolderKeepsLock ==
  ASSUME IInv, NEW p \in Procs, pc[p] \in InLock,
         \A q \in Procs \ {p} : pc'[q] = pc[q],
         pc'[p] \in InLock,
         names'["lock"] = names["lock"], UNCHANGED <<lockFd, locked>>
  PROVE  /\ LockIsTheirs'
         /\ \A q \in Procs \ {p} : pc'[q] \notin InLock
  BY OneAtATime DEF IInv, LockIsTheirs

(* The last profile is gone, and the file with it: what is stored is        *)
(* nothing, which is what the edit made of it.                              *)
LEMMA RemoveFileInv ==
  ASSUME IInv, NEW p \in Procs, RemoveFile(p)
  PROVE  IInv'
<1> USE DEF RemoveFile, Goto, IInv
<1>1. CASE Fail(p)
  BY <1>1, FailInv
<1>2. CASE ~ Fail(p)
  <2>1. names["credentials"] \in Inodes \cup {Nothing}
    BY DEF TypeOK, Names
  <2>2. TypeOK'
    BY <1>2, <2>1 DEF TypeOK, PCs
  <2>3. \A q \in Procs : pc'[q] = IF q = p THEN "emptied" ELSE pc[q]
    BY <1>2 DEF TypeOK
  <2>4. /\ names'["credentials"] = Nothing
        /\ \A n \in Names \ {"credentials"} : names'[n] = names[n]
        /\ "lock" \in Names \ {"credentials"} /\ "credentials" \in Names
    BY <1>2 DEF TypeOK, Names
  <2>5. LockIsTheirs' /\ \A q \in Procs \ {p} : pc'[q] \notin InLock
    BY <1>2, <2>3, <2>4, HolderKeepsLock
  <2>6. Separate'
    BY <1>2, <2>4 DEF Separate
  <2>7. Durable'
    BY <1>2, <2>4 DEF Durable
  <2>8. Working'
    BY <1>2, <2>3, <2>4, <2>5 DEF Working
  <2> QED
    BY <2>2, <2>5, <2>6, <2>7, <2>8
<1> QED
  BY <1>1, <1>2

(* A temporary file has a name and an inode of its own.                     *)
LEMMA CreateTempInv ==
  ASSUME IInv, NEW p \in Procs, CreateTemp(p)
  PROVE  IInv'
<1> USE DEF CreateTemp, Goto, IInv
<1>1. CASE Fail(p)
  BY <1>1, FailInv
<1>2. ASSUME NEW t \in Temps, NEW i \in Inodes,
             names[t] = Nothing, Free(i),
             names' = [names EXCEPT ![t] = i],
             data' = [data EXCEPT ![i] = Torn],
             synced' = synced \ {i},
             temp' = [temp EXCEPT ![p] = t],
             pc' = [pc EXCEPT ![p] = "write"],
             UNCHANGED <<revertible, locked, wish, told, lockFd, readFd, snapshot>>
      PROVE  IInv'
  <2>1. TypeOK'
    BY <1>2 DEF TypeOK, PCs, Contents, Names
  <2>2. t \in Names \ {"credentials"} /\ t # "lock" /\ "lock" \in Names
    BY DEF Names
  <2>3. /\ Separate' /\ Durable' /\ Stored' = Stored
        /\ \A m \in Names \ {t} : names'[m] = names[m]
    BY <1>2, <2>2, NewFile DEF Contents
  <2>4. \A q \in Procs : pc'[q] = IF q = p THEN "write" ELSE pc[q]
    BY <1>2 DEF TypeOK
  <2>5. LockIsTheirs' /\ \A q \in Procs \ {p} : pc'[q] \notin InLock
    BY <1>2, <2>2, <2>3, <2>4, HolderKeepsLock
  <2>6. temp'[p] = t /\ names'[t] = i
    BY <1>2, <2>2 DEF TypeOK
  <2>7. Working'
    BY <1>2, <2>3, <2>4, <2>5, <2>6 DEF Working
  <2> QED
    BY <2>1, <2>3, <2>5, <2>7
<1> QED
  BY <1>1, <1>2 DEF DirRefused

(* Removing the temporary file leaves the credential file alone.            *)
LEMMA DiscardInv ==
  ASSUME IInv, NEW p \in Procs, pc[p] \in {"write", "rename"}, Discard(p)
  PROVE  IInv'
  BY LeaveInv DEF Discard

(* The temporary file is the holder's own: writing it changes neither what  *)
(* is stored nor what may come back.                                        *)
LEMMA WriteIsApart ==
  ASSUME IInv, NEW p \in Procs, pc[p] = "write",
         data' = [data EXCEPT ![names[temp[p]]] = snapshot[p]],
         UNCHANGED <<names, revertible>>
  PROVE  /\ Stored' = Stored /\ Unsure' = Unsure
         /\ \A i \in ({names["credentials"]} \cup revertible) \ {Nothing} : data'[i] = data[i]
<1> USE DEF IInv
<1>1. temp[p] \in Names \ {"credentials"} /\ names[temp[p]] \in Inodes /\ "credentials" \in Names
  BY DEF Working, Names
<1>2. \A j \in Inodes : j # names[temp[p]] => data'[j] = data[j]
  BY DEF TypeOK
<1>3. names["credentials"] # names[temp[p]] /\ \A i \in revertible : i # names[temp[p]]
  BY <1>1 DEF Separate
<1>4. names["credentials"] \in Inodes \cup {Nothing} /\ revertible \subseteq Inodes \cup {Nothing}
  BY <1>1 DEF TypeOK
<1>5. Stored' = Stored
  BY <1>2, <1>3, <1>4 DEF Stored
<1>6. Unsure' = Unsure
  BY <1>2, <1>3, <1>4 DEF Unsure
<1> QED
  BY <1>2, <1>3, <1>4, <1>5, <1>6

(* What is flushed into the temporary file is the whole edit.               *)
LEMMA WriteTempInv ==
  ASSUME IInv, NEW p \in Procs, WriteTemp(p)
  PROVE  IInv'
<1> USE DEF WriteTemp, Goto, IInv
<1>1. CASE Discard(p)
  BY <1>1, DiscardInv
<1>2. CASE ~ Discard(p)
  <2>1. names[temp[p]] \in Inodes
    BY DEF Working
  <2>2. TypeOK'
    BY <1>2, <2>1 DEF TypeOK, PCs, Contents
  <2>3. \A q \in Procs : pc'[q] = IF q = p THEN "rename" ELSE pc[q]
    BY <1>2 DEF TypeOK
  <2>4. LockIsTheirs' /\ \A q \in Procs \ {p} : pc'[q] \notin InLock
    BY <1>2, <2>3, HolderKeepsLock
  <2>5. /\ Stored' = Stored
        /\ \A i \in ({names["credentials"]} \cup revertible) \ {Nothing} : data'[i] = data[i]
    BY <1>2, WriteIsApart
  <2>6. Separate' /\ Durable'
    BY <1>2, <2>5 DEF Separate, Durable
  <2>7. names[temp[p]] \in synced' /\ data'[names[temp[p]]] = snapshot[p]
    BY <1>2, <2>1 DEF TypeOK
  <2>8. Working'
    BY <1>2, <2>3, <2>4, <2>5, <2>7 DEF Working
  <2> QED
    BY <2>2, <2>4, <2>6, <2>8
<1> QED
  BY <1>1, <1>2

(* The rename: the temporary file, whole and on the disk, takes the place   *)
(* of the file, which a power failure may put back.                         *)
LEMMA Renamed ==
  ASSUME IInv, NEW p \in Procs, pc[p] = "rename",
         names' = [names EXCEPT !["credentials"] = names[temp[p]], ![temp[p]] = Nothing]
  PROVE  /\ names[temp[p]] \in Inodes /\ names[temp[p]] \notin revertible
         /\ temp[p] \in Names \ {"credentials", "lock"}
         /\ names'["credentials"] = names[temp[p]] /\ names'[temp[p]] = Nothing
         /\ \A n \in Names \ {"credentials", temp[p]} : names'[n] = names[n]
<1>1. temp[p] \in Names \ {"credentials", "lock"} /\ names[temp[p]] \in Inodes
      /\ "credentials" \in Names
  BY DEF IInv, Working, Names
<1>2. names[temp[p]] \notin revertible
  BY <1>1 DEF IInv, Separate
<1> QED
  BY <1>1, <1>2 DEF IInv, TypeOK

(* The rename puts a flushed inode under the name.                          *)
LEMMA RenameTempInv ==
  ASSUME IInv, NEW p \in Procs, RenameTemp(p)
  PROVE  IInv'
<1> USE DEF RenameTemp, Goto, IInv
<1>1. CASE Discard(p)
  BY <1>1, DiscardInv
<1>2. CASE ~ Discard(p)
  <2>1. /\ names[temp[p]] \in Inodes /\ names[temp[p]] \notin revertible
        /\ temp[p] \in Names \ {"credentials", "lock"}
        /\ names'["credentials"] = names[temp[p]] /\ names'[temp[p]] = Nothing
        /\ \A n \in Names \ {"credentials", temp[p]} : names'[n] = names[n]
    BY <1>2, Renamed
  <2>2. names["credentials"] \in Inodes \cup {Nothing} /\ "lock" \in Names /\ "credentials" \in Names
    BY DEF TypeOK, Names
  <2>3. TypeOK'
    BY <1>2, <2>1, <2>2 DEF TypeOK, PCs
  <2>4. \A q \in Procs : pc'[q] = IF q = p THEN "sync" ELSE pc[q]
    BY <1>2 DEF TypeOK
  <2>5. LockIsTheirs' /\ \A q \in Procs \ {p} : pc'[q] \notin InLock
    BY <1>2, <2>1, <2>2, <2>4, HolderKeepsLock
  <2>6. Separate'
    <3>1. revertible' = revertible \cup {names["credentials"]}
      BY <1>2
    <3>2. ASSUME NEW m \in Names, NEW n \in Names, m # n, names'[m] # Nothing
          PROVE  names'[m] # names'[n]
      BY <2>1, <2>2, <3>2 DEF Separate
    <3>3. ASSUME NEW i \in revertible' \ {Nothing}, NEW n \in Names \ {"credentials"}
          PROVE  names'[n] # i
      BY <2>1, <2>2, <3>1, <3>3 DEF Separate
    <3> QED
      BY <3>2, <3>3 DEF Separate
  <2>7. Durable'
    <3>1. names[temp[p]] \in synced /\ data[names[temp[p]]] # Torn
      BY <1>2, ContentsDiffer DEF Working, TypeOK
    <3> QED
      BY <1>2, <2>1, <3>1 DEF Durable
  <2>8. Working'
    BY <1>2, <2>4, <2>5 DEF Working
  <2> QED
    BY <2>3, <2>5, <2>6, <2>7, <2>8
<1> QED
  BY <1>1, <1>2

(* A flushed directory leaves no name to go back to.                        *)
LEMMA SyncDirInv ==
  ASSUME IInv, NEW p \in Procs, SyncDir(p)
  PROVE  IInv'
  BY LeaveInv DEF SyncDir, diskVars

(* Removing an emptied file leaves none.                                    *)
LEMMA EmptiedInv ==
  ASSUME IInv, NEW p \in Procs, Emptied(p)
  PROVE  IInv'
  BY LeaveInv DEF Emptied, diskVars

(* A crash frees the lock; a power loss may take back what was not flushed. *)
LEMMA CrashInv ==
  ASSUME IInv, NEW p \in Procs, Crash(p)
  PROVE  IInv'
  BY LeaveInv DEF Crash, diskVars

-----------------------------------------------------------------------------
(* What happens to the machine and the directory.                           *)

(* What the name leads to after a power failure was whole and on the disk.  *)
LEMMA PowerFailureInv ==
  ASSUME IInv, PowerFailure
  PROVE  IInv'
<1> USE DEF IInv, PowerFailure
<1>1. PICK i \in {names["credentials"]} \cup revertible :
        names' = [names EXCEPT !["credentials"] = i]
  OBVIOUS
<1>2. "credentials" \in Names
  BY DEF Names
<1>3. i \in Inodes \cup {Nothing}
  BY <1>2 DEF TypeOK
<1>4. /\ names'["credentials"] = i
      /\ \A n \in Names \ {"credentials"} : names'[n] = names[n]
  BY <1>1, <1>2 DEF TypeOK
<1>5. TypeOK'
  BY <1>1, <1>3, ContentsDiffer DEF TypeOK, PCs, Contents
<1>6. LockIsTheirs' /\ Working'
  BY DEF LockIsTheirs, Working
<1>7. Separate'
  <2> SUFFICES ASSUME NEW m \in Names, NEW n \in Names, m # n, names'[m] # Nothing
               PROVE  names'[m] # names'[n]
    BY DEF Separate
  <2>1. CASE i = names["credentials"]
    BY <1>4, <2>1 DEF Separate
  <2>2. CASE i \in revertible
    BY <1>2, <1>4, <2>2 DEF Separate
  <2> QED
    BY <2>1, <2>2
<1>8. Durable'
  <2>1. i # Nothing => i \in synced /\ data[i] # Torn
    BY DEF Durable
  <2>2. i # Nothing => data'[i] = data[i]
    BY <1>3, <2>1
  <2> QED
    BY <1>4, <2>1, <2>2 DEF Durable
<1> QED
  BY <1>5, <1>6, <1>7, <1>8

(* The lock file deleted by hand between two updates was locked by nobody.  *)
LEMMA DeleteByHandInv ==
  ASSUME IInv, DeleteByHand
  PROVE  IInv'
<1> USE DEF IInv, DeleteByHand, procVars
<1>1. PICK n \in Names \ {"credentials"} : names' = [names EXCEPT ![n] = Nothing]
  OBVIOUS
<1>2. /\ names'["credentials"] = names["credentials"]
      /\ \A m \in Names : names'[m] \in {names[m], Nothing}
  BY <1>1 DEF TypeOK, Names
<1>3. \A p \in Procs : pc[p] \notin InLock
  BY DEF Holders
<1>4. TypeOK'
  BY <1>1 DEF TypeOK
<1>5. LockIsTheirs' /\ Working'
  BY <1>3 DEF LockIsTheirs, Working
<1>6. Separate' /\ Durable'
  BY <1>2 DEF Separate, Durable
<1> QED
  BY <1>4, <1>5, <1>6

(* Another program may replace the file between two updates.                *)
LEMMA MeddleInv ==
  ASSUME IInv, Meddle
  PROVE  IInv'
<1> USE DEF IInv, Meddle, procVars
<1>1. PICK v \in {Foreign, [q \in Profiles |-> MaxGen]} :
        data' = [data EXCEPT ![names["credentials"]] = v]
  OBVIOUS
<1>2. [q \in Profiles |-> MaxGen] \in Values
  BY DEF Values
<1>3. v \in Contents /\ v # Torn
  BY <1>2, ContentsDiffer DEF Contents
<1>4. names["credentials"] \in Inodes
  BY DEF TypeOK, Names
<1>5. data'[names["credentials"]] = v
  BY <1>1, <1>4 DEF TypeOK
<1>6. \A p \in Procs : pc[p] \notin InLock
  BY DEF Holders
<1>7. TypeOK'
  BY <1>1, <1>3 DEF TypeOK
<1>8. LockIsTheirs' /\ Working'
  BY <1>6 DEF LockIsTheirs, Working
<1>9. Separate' /\ Durable'
  BY <1>3, <1>5 DEF Separate, Durable
<1> QED
  BY <1>7, <1>8, <1>9

(* Every step of an update preserves the invariant.                         *)
LEMMA StepInv ==
  ASSUME IInv, [Next]_vars
  PROVE  IInv'
<1>1. CASE UNCHANGED vars
  <2> USE <1>1 DEF vars, diskVars, procVars, IInv
  <2>1. TypeOK' /\ LockIsTheirs' /\ Separate' /\ Durable'
    BY DEF TypeOK, LockIsTheirs, Separate, Durable
  <2>2. Working'
    BY DEF Working, Stored
  <2> QED
    BY <2>1, <2>2
<1>2. ASSUME NEW p \in Procs, UpdateStep(p) PROVE IInv'
  BY <1>2, CreateLockInv, ReopenLockInv, TryLockInv, VerifyInv, OpenFileInv, ReadFileInv, EditInv,
     RemoveFileInv, CreateTempInv, WriteTempInv, RenameTempInv, SyncDirInv, EmptiedInv
  DEF UpdateStep
<1> QED
  BY <1>1, <1>2, UpdateInv, CrashInv, PowerFailureInv, DeleteByHandInv, MeddleInv DEF Next

(* The invariant holds in every reachable state.                            *)
LEMMA Invariance == Spec => []IInv
  BY InitInv, StepInv, PTL DEF Spec

(* Every descriptor, name and content is one of its kind; in particular a   *)
(* process only ever edits a set of profiles (load, read_checked).          *)
THEOREM Types == Spec => []TypeOK
  BY Invariance, PTL DEF IInv

(* Two processes never both take the file to be theirs, also when the lock  *)
(* file is deleted between opening and locking it (verify).                 *)
THEOREM MutualExclusion == Spec => []OneHolder
<1>1. IInv => OneHolder
  <2> SUFFICES ASSUME IInv PROVE Cardinality(Holders) <= 1
    BY DEF OneHolder
  <2>1. \A p, q \in Holders : p = q
    BY OneAtATime DEF IInv, Holders
  <2>2. CASE Holders = {}
    BY <2>2, FS_EmptySet
  <2>3. CASE Holders # {}
    <3>1. PICK p \in Holders : TRUE
      BY <2>3
    <3>2. Holders = {p}
      BY <2>1, <3>1
    <3> QED
      BY <3>2, FS_Singleton
  <2> QED
    BY <2>2, <2>3
<1> QED
  BY <1>1, Invariance, PTL

(* Whatever stops, the file is whole and on the disk (write_atomic).        *)
THEOREM Wholeness == Spec => []NeverTorn
<1>1. IInv => NeverTorn
  BY DEF IInv, Durable, NeverTorn, Stored
<1> QED
  BY <1>1, Invariance, PTL

-----------------------------------------------------------------------------
(* The file implements the store.                                           *)

(* How far the abstract update is when the concrete one is at `step`.       *)
PhaseAt(step) == CASE step = "idle" -> "idle"
                   [] step \in {"sync", "emptied"} -> "applied"
                   [] OTHER -> "asked"

(* A process that moves changes its own phase and no other.                 *)
LEMMA PhaseMoves ==
  ASSUME TypeOK, NEW p \in Procs, NEW step, pc' = [pc EXCEPT ![p] = step]
  PROVE  /\ Phase' = [Phase EXCEPT ![p] = PhaseAt(step)]
         /\ Phase[p] = PhaseAt(pc[p])
<1>1. \A q \in Procs : pc'[q] = IF q = p THEN step ELSE pc[q]
  BY DEF TypeOK
<1> QED
  BY <1>1 DEF Phase, PhaseAt

(* While the name leads to the same inode, the same value is stored.        *)
LEMMA SameValue ==
  ASSUME UNCHANGED data, names'["credentials"] = names["credentials"]
  PROVE  Stored' = Stored /\ (revertible' = revertible => Unsure' = Unsure)
  BY DEF Stored, Unsure

(* Ending an update that took no effect is refusing it.                     *)
LEMMA RefuseStep ==
  ASSUME TypeOK, NEW p \in Procs, PhaseAt(pc[p]) = "asked",
         Leave(p, "refused"), UNCHANGED <<data, revertible>>,
         names'["credentials"] = names["credentials"]
  PROVE  Store!Refuse(p)
<1>1. Phase' = [Phase EXCEPT ![p] = "idle"] /\ Phase[p] = "asked"
  BY PhaseMoves DEF Leave, Goto, PhaseAt
<1>2. Stored' = Stored /\ Unsure' = Unsure
  BY SameValue
<1> QED
  BY <1>1, <1>2 DEF Leave, Store!Refuse, Store!Return, NoWish, Store!NoWish

\* Giving up before it is refusing the update too.
LEMMA FailRefuses ==
  ASSUME TypeOK, NEW p \in Procs, PhaseAt(pc[p]) = "asked", Fail(p)
  PROVE  Store!Refuse(p)
  BY RefuseStep DEF Fail, diskVars

(* Giving up after the temporary file was made is refusing the update.      *)
LEMMA DiscardRefuses ==
  ASSUME IInv, NEW p \in Procs, pc[p] \in {"write", "rename"}, Discard(p)
  PROVE  Store!Refuse(p)
<1>1. names'["credentials"] = names["credentials"]
  BY DEF Discard, IInv, Working, TypeOK, Names
<1> QED
  BY <1>1, RefuseStep DEF Discard, IInv, PhaseAt

(* Beginning an update is asking for it.                                    *)
LEMMA UpdateAsks ==
  ASSUME IInv, NEW p \in Procs, Update(p)
  PROVE  Store!Ask(p)
<1>1. Phase' = [Phase EXCEPT ![p] = "asked"] /\ Phase[p] = "idle"
  <2>1. TypeOK /\ pc[p] = "idle" /\ pc' = [pc EXCEPT ![p] = "open"]
    BY DEF Update, Goto, IInv
  <2>2. PhaseAt("open") = "asked" /\ PhaseAt("idle") = "idle"
    BY DEF PhaseAt
  <2>3. Phase' = [Phase EXCEPT ![p] = PhaseAt("open")] /\ Phase[p] = PhaseAt(pc[p])
    BY <2>1, PhaseMoves
  <2> QED
    BY <2>1, <2>2, <2>3
<1>2. Stored' = Stored /\ Unsure' = Unsure
  BY SameValue DEF Update, diskVars
<1> QED
  BY <1>1, <1>2 DEF Update, Store!Ask, Wishes, Store!Wishes

(* A step that neither ends the update nor lets it take effect is none of   *)
(* the store.                                                               *)
LEMMA QuietStep ==
  ASSUME IInv, NEW p \in Procs, NEW step, pc' = [pc EXCEPT ![p] = step],
         PhaseAt(pc[p]) = "asked", PhaseAt(step) = "asked",
         UNCHANGED <<wish, told>>, Stored' = Stored, Unsure' = Unsure
  PROVE  UNCHANGED Store!storeVars
<1>1. Phase' = [Phase EXCEPT ![p] = "asked"] /\ Phase[p] = "asked"
  BY PhaseMoves DEF IInv
<1>2. Phase' = Phase
  BY <1>1 DEF Phase
<1> QED
  BY <1>2 DEF Store!storeVars

(* Making the lock file is nothing the caller sees, unless it fails.        *)
LEMMA CreateLockStutters ==
  ASSUME IInv, NEW p \in Procs, CreateLock(p)
  PROVE  Store!Refuse(p) \/ UNCHANGED Store!storeVars
<1> USE DEF CreateLock, Goto, PhaseAt
<1>1. CASE Fail(p)
  BY <1>1, FailRefuses DEF IInv
<1>2. CASE names["lock"] # Nothing /\ ~ Fail(p)
  BY <1>2, QuietStep, SameValue DEF diskVars, DirRefused
<1>3. CASE names["lock"] = Nothing /\ ~ Fail(p)
  <2>1. PICK i \in Inodes : /\ Free(i)
                            /\ names' = [names EXCEPT !["lock"] = i]
                            /\ synced' = synced \ {i}
                            /\ data' = [data EXCEPT ![i] = EmptyValue]
    BY <1>3 DEF DirRefused
  <2>2. "lock" \in Names \ {"credentials"} /\ EmptyValue \in Contents
    BY ContentsDiffer DEF Names, Contents
  <2>3. UNCHANGED <<revertible, wish, told>> /\ pc' = [pc EXCEPT ![p] = "locking"]
    BY <1>3 DEF DirRefused
  <2>4. Stored' = Stored /\ Unsure' = Unsure
    BY <1>3, <2>1, <2>2, <2>3, NewFile
  <2> QED
    BY <2>3, <2>4, QuietStep
<1> QED
  BY <1>1, <1>2, <1>3

(* The steps up to the edit leave the disk alone, or end the update.        *)
LEMMA EarlySteps ==
  ASSUME IInv, NEW p \in Procs,
         ReopenLock(p) \/ TryLock(p) \/ Verify(p) \/ OpenFile(p) \/ ReadFile(p) \/ Edit(p)
  PROVE  Store!Refuse(p) \/ UNCHANGED Store!storeVars
<1> USE DEF ReopenLock, TryLock, Verify, OpenFile, ReadFile, Edit, Goto, PhaseAt
<1>1. CASE Fail(p)
  BY <1>1, FailRefuses DEF IInv
<1>2. CASE ~ Fail(p)
  <2>1. UNCHANGED <<names, data, revertible, wish, told>>
    BY <1>2 DEF diskVars
  <2>2. \E step \in {"locking", "verify", "load", "edit", "read", "temp"} :
          pc' = [pc EXCEPT ![p] = step]
    BY <1>2
  <2>3. PhaseAt(pc[p]) = "asked"
    OBVIOUS
  <2> QED
    BY <2>1, <2>2, <2>3, QuietStep, SameValue
<1> QED
  BY <1>1, <1>2

(* So is making the temporary file.                                         *)
LEMMA CreateTempStutters ==
  ASSUME IInv, NEW p \in Procs, CreateTemp(p)
  PROVE  Store!Refuse(p) \/ UNCHANGED Store!storeVars
<1> USE DEF CreateTemp, Goto, PhaseAt
<1>1. CASE Fail(p)
  BY <1>1, FailRefuses DEF IInv
<1>2. CASE ~ Fail(p)
  <2>1. PICK t \in Temps, i \in Inodes : /\ names[t] = Nothing
                                         /\ Free(i)
                                         /\ names' = [names EXCEPT ![t] = i]
                                         /\ data' = [data EXCEPT ![i] = Torn]
                                         /\ synced' = synced \ {i}
    BY <1>2 DEF DirRefused
  <2>2. t \in Names \ {"credentials"} /\ Torn \in Contents
    BY DEF Names, Contents
  <2>3. UNCHANGED <<revertible, wish, told>> /\ pc' = [pc EXCEPT ![p] = "write"]
    BY <1>2 DEF DirRefused
  <2>4. Stored' = Stored /\ Unsure' = Unsure
    BY <2>1, <2>2, <2>3, NewFile
  <2> QED
    BY <2>3, <2>4, QuietStep
<1> QED
  BY <1>1, <1>2

(* So is writing it.                                                        *)
LEMMA WriteTempStutters ==
  ASSUME IInv, NEW p \in Procs, WriteTemp(p)
  PROVE  Store!Refuse(p) \/ UNCHANGED Store!storeVars
<1> USE DEF WriteTemp, Goto, PhaseAt
<1>1. CASE Discard(p)
  BY <1>1, DiscardRefuses
<1>2. CASE ~ Discard(p)
  BY <1>2, WriteIsApart, QuietStep
<1> QED
  BY <1>1, <1>2

(* The step in which an update takes effect: on the value that is stored,   *)
(* which it makes what the edit of its caller makes of it.                  *)
LEMMA RemovalApplies ==
  ASSUME IInv, NEW p \in Procs, RemoveFile(p)
  PROVE  Store!Refuse(p) \/ Store!Apply(p)
<1> USE DEF RemoveFile, Goto, PhaseAt, IInv
<1>1. CASE Fail(p)
  BY <1>1, FailRefuses
<1>2. CASE ~ Fail(p)
  <2>1. Phase' = [Phase EXCEPT ![p] = "applied"] /\ Phase[p] = "asked"
    BY <1>2, PhaseMoves
  <2>2. Stored \in Values /\ EmptyValue = Edited(Stored, wish[p])
    BY DEF Working
  <2>3. Stored' = EmptyValue
    BY <1>2 DEF TypeOK, Names, Stored
  <2>4. Unsure' = Unsure \cup {Stored}
    BY <1>2 DEF Unsure, Stored
  <2> QED
    BY <1>2, <2>1, <2>2, <2>3, <2>4, ContentsDiffer
    DEF Store!Apply, Store!Foreign, Foreign, Store!Edited, Edited
<1> QED
  BY <1>1, <1>2

(* The rename is the moment at which the update takes effect.               *)
LEMMA RenameApplies ==
  ASSUME IInv, NEW p \in Procs, RenameTemp(p)
  PROVE  Store!Refuse(p) \/ Store!Apply(p)
<1> USE DEF RenameTemp, Goto, PhaseAt, IInv
<1>1. CASE Discard(p)
  BY <1>1, DiscardRefuses
<1>2. CASE ~ Discard(p)
  <2>1. Phase' = [Phase EXCEPT ![p] = "applied"] /\ Phase[p] = "asked"
    BY <1>2, PhaseMoves
  <2>2. Stored \in Values /\ snapshot[p] = Edited(Stored, wish[p])
        /\ data[names[temp[p]]] = snapshot[p]
    BY DEF Working
  <2>3. names'["credentials"] = names[temp[p]] /\ names[temp[p]] \in Inodes
    BY <1>2, Renamed
  <2>4. Stored' = Edited(Stored, wish[p])
    BY <1>2, <2>2, <2>3 DEF Stored
  <2>5. Unsure' = Unsure \cup {Stored}
    BY <1>2 DEF Unsure, Stored
  <2> QED
    BY <1>2, <2>1, <2>2, <2>4, <2>5, ContentsDiffer
    DEF Store!Apply, Store!Foreign, Foreign, Store!Edited, Edited
<1> QED
  BY <1>1, <1>2

(* What is reported as done was flushed; a removal is reported as such.     *)
LEMMA EndingConfirms ==
  ASSUME IInv, NEW p \in Procs, SyncDir(p) \/ Emptied(p)
  PROVE  Store!Confirm(p)
<1> USE DEF SyncDir, Emptied, PhaseAt, IInv, diskVars, Leave, Goto
<1>1. Phase' = [Phase EXCEPT ![p] = "idle"] /\ Phase[p] = "applied"
  BY PhaseMoves
<1>2. Stored' = Stored
  BY SameValue
<1>3. revertible' = {} => Unsure' = {}
  BY DEF Unsure
<1>4. revertible' = revertible => Unsure' = Unsure
  BY SameValue
<1>5. Emptied(p) => Stored = EmptyValue
  BY DEF Working, Stored
<1> QED
  BY <1>1, <1>2, <1>3, <1>4, <1>5
  DEF Store!Confirm, Store!Return, NoWish, Store!NoWish, EmptyValue, Store!EmptyValue

(* A process that dies leaves its update undone or done, never half.        *)
LEMMA CrashDies ==
  ASSUME IInv, NEW p \in Procs, Crash(p)
  PROVE  Store!Die(p)
<1> USE DEF Crash, PhaseAt, IInv, diskVars, Leave, Goto
<1>1. Phase' = [Phase EXCEPT ![p] = "idle"] /\ Phase[p] # "idle"
  BY PhaseMoves
<1>2. Stored' = Stored /\ Unsure' = Unsure
  BY SameValue
<1> QED
  BY <1>1, <1>2 DEF Store!Die, Store!Return, NoWish, Store!NoWish

(* A power failure brings back a value that was not flushed away.           *)
LEMMA PowerFailureMaps ==
  ASSUME IInv, PowerFailure
  PROVE  Store!PowerFailure
<1> USE DEF PowerFailure, IInv
<1>1. PICK i \in {names["credentials"]} \cup revertible :
        names' = [names EXCEPT !["credentials"] = i]
  OBVIOUS
<1>2. "credentials" \in Names
  BY DEF Names
<1>3. names'["credentials"] = i /\ i \in Inodes \cup {Nothing}
  BY <1>1, <1>2 DEF TypeOK
<1>4. i # Nothing => data'[i] = data[i]
  BY <1>3 DEF Durable
<1>5. Stored' \in {Stored} \cup Unsure
  BY <1>3, <1>4 DEF Stored, Unsure
<1>6. Unsure' = {}
  BY DEF Unsure
<1>7. Phase' = [q \in Procs |-> "idle"]
  BY DEF Phase
<1> QED
  BY <1>5, <1>6, <1>7 DEF Store!PowerFailure, NoWish, Store!NoWish

(* Deleting the lock file is nothing the caller sees.                       *)
LEMMA DeleteByHandMaps ==
  ASSUME IInv, DeleteByHand
  PROVE  UNCHANGED Store!storeVars
<1> USE DEF DeleteByHand, IInv, procVars
<1>1. names'["credentials"] = names["credentials"]
  BY DEF TypeOK, Names
<1>2. Stored' = Stored /\ Unsure' = Unsure
  BY <1>1, SameValue
<1>3. Phase' = Phase
  BY DEF Phase
<1> QED
  BY <1>2, <1>3 DEF Store!storeVars

(* Replacing the file by hand is a change of the stored value.              *)
LEMMA MeddleMaps ==
  ASSUME IInv, Meddle
  PROVE  Store!Meddle
<1> USE DEF Meddle, IInv, procVars
<1>1. PICK v \in {Foreign, [q \in Profiles |-> MaxGen]} :
        /\ Foreign \in {v, Stored}
        /\ data' = [data EXCEPT ![names["credentials"]] = v]
  OBVIOUS
<1>2. [q \in Profiles |-> MaxGen] \in Values
  BY DEF Values
<1>3. names["credentials"] \in Inodes
  BY DEF TypeOK, Names
<1>4. Stored' = v
  BY <1>1, <1>3 DEF TypeOK, Stored
<1>5. Unsure' = {}
  BY DEF Unsure
<1>6. Phase' = Phase
  BY DEF Phase
<1> QED
  BY <1>1, <1>2, <1>4, <1>5, <1>6
  DEF Store!Meddle, Store!Foreign, Foreign, Store!Values, Values

(* Every step of the file is a step of the store or none.                   *)
LEMMA StepMaps ==
  ASSUME IInv, [Next]_vars
  PROVE  [Store!StoreNext]_(Store!storeVars)
<1>1. CASE UNCHANGED vars
  <2>1. Stored' = Stored /\ Unsure' = Unsure /\ Phase' = Phase
    BY <1>1 DEF vars, diskVars, procVars, Stored, Unsure, Phase
  <2> QED
    BY <1>1, <2>1 DEF vars, procVars, Store!storeVars
<1>2. ASSUME NEW p \in Procs, UpdateStep(p)
      PROVE  Store!Refuse(p) \/ Store!Apply(p) \/ Store!Confirm(p) \/ UNCHANGED Store!storeVars
  BY <1>2, CreateLockStutters, EarlySteps, RemovalApplies, CreateTempStutters,
     WriteTempStutters, RenameApplies, EndingConfirms
  DEF UpdateStep
<1> QED
  BY <1>1, <1>2, UpdateAsks, CrashDies, PowerFailureMaps, DeleteByHandMaps, MeddleMaps
  DEF Next, Store!StoreNext

(* The file, its lock and its directory implement the store: an update      *)
(* takes effect in one step, on the value it finds, or is refused, and what *)
(* is reported as done is there after a power failure                       *)
(* (CredentialStore::update, save, load).                                   *)
THEOREM Implementation == Spec => ImplementsStore
<1>1. Init => Store!StoreInit
  BY DEF Init, Store!StoreInit, Stored, Unsure, Phase, Names, EmptyValue, Store!EmptyValue,
         NoWish, Store!NoWish
<1>2. IInv /\ [Next]_vars => [Store!StoreNext]_(Store!storeVars)
  BY StepMaps
<1> QED
  BY <1>1, <1>2, Invariance, PTL DEF Spec, ImplementsStore, Store!StoreSpec
=============================================================================

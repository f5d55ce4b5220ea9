------------------------------ MODULE SkillInstall ------------------------------
(***************************************************************************)
(* otl skill install and the skill check of otl doctor (commands/skill/,   *)
(* commands/doctor/skill.rs).  The document of this binary is copied into  *)
(* the skills directory of every agent on the machine.  What is there is   *)
(* inspected first, the directory is looked at once more before the write, *)
(* and the document is published by a rename; the user, another program or *)
(* an install by another version of the binary may come in between.        *)
(***************************************************************************)
EXTENDS Integers, Sequences, FiniteSets

CONSTANTS
  Places,         \* number of skills directories that are targets
  Installers,     \* installs, each by a binary of its own version
  MaxMeddling     \* bound on changes by others and on steps that fail

ASSUME SkillAssumption == Places \in Nat /\ MaxMeddling \in Nat

VARIABLES
  place,          \* what is at each target
  elsewhere,      \* what a link at the target's directory leads to
  install,        \* the installs
  meddling

skillVars == <<place, elsewhere, install, meddling>>

(* A target: its skills directory ("ok" also when it can be created), the   *)
(* directory of the skill in it, and the document.  A document of this skill*)
(* carries a version, 0 for one that declares none, and may have been       *)
(* edited; the others belong to another skill or are no regular file.       *)
Ours(version, edited) == [kind |-> "ours", version |-> version, edited |-> edited]
Another == [kind |-> "foreign", version |-> 0, edited |-> FALSE]
Irregular == [kind |-> "irregular", version |-> 0, edited |-> FALSE]
NoSkill == [kind |-> "none", version |-> 0, edited |-> FALSE]

SkillDocuments ==
  {Ours(v, e) : v \in Installers, e \in BOOLEAN} \cup {Ours(0, TRUE), Another, Irregular, NoSkill}
TargetDir(root, dir, doc) == [root |-> root, dir |-> dir, doc |-> doc]

FirstPlaces ==
  {TargetDir("ok", "dir", d) : d \in SkillDocuments}
    \cup {TargetDir("ok", "none", NoSkill), TargetDir("ok", "link", NoSkill),
          TargetDir("file", "none", NoSkill)}

Actions == {"installed", "upgraded", "replaced", "unchanged", "refused", "failed"}
Succeeded == {"installed", "upgraded", "replaced", "unchanged"}
SkillStages == {"idle", "inspect", "check", "publish", "report", "done"}

SkillTypeOK ==
  /\ \A k \in DOMAIN place : place[k] \in FirstPlaces
  /\ \A k \in DOMAIN elsewhere : elsewhere[k] \in SkillDocuments
  /\ \A i \in Installers :
       /\ install[i].stage \in SkillStages
       /\ install[i].exit \in {"none", "0", "1", "2", "9"}
       /\ \A k \in 1 .. Len(install[i].outcomes) : install[i].outcomes[k] \in Actions
       /\ Len(install[i].outcomes) <= Places
  /\ meddling \in 0 .. MaxMeddling

SkillInit ==
  /\ place = <<>> /\ elsewhere = <<>>
  /\ install = [i \in Installers |->
       [stage |-> "idle", force |-> FALSE, action |-> "none", outcomes |-> <<>>,
        found |-> "none", checked |-> "none", through |-> {}, wrote |-> {}, over |-> {},
        left |-> <<>>, emitted |-> FALSE, exit |-> "none"]]
  /\ meddling = 0

\* The machine as it is found.
FindPlaces ==
  /\ place = <<>>
  /\ place' \in [1 .. Places -> FirstPlaces]
  /\ elsewhere' = [k \in 1 .. Places |-> NoSkill]
  /\ UNCHANGED <<install, meddling>>

Becomes(i, it) == install' = [install EXCEPT ![i] = it]

\* The target install i is at, and what an agent reads there after a step.
Current(i) == Len(install[i].outcomes) + 1
ReadsNext(k) == IF place'[k].dir = "link" THEN elsewhere'[k] ELSE place'[k].doc

StartInstall(i, force) ==
  /\ place # <<>> /\ install[i].stage = "idle"
  /\ Becomes(i, [install[i] EXCEPT !.stage = "inspect", !.force = force])
  /\ UNCHANGED <<place, elsewhere, meddling>>

-----------------------------------------------------------------------------
(* inspect: the skills directory, the directory of the skill, the document; *)
(* nothing is resolved through a link below the skills directory.           *)
Inspect(target, version) ==
  IF target.root # "ok" \/ target.dir = "link" \/ target.doc.kind = "irregular"
  THEN "unusable"
  ELSE CASE target.doc.kind = "none" -> "absent"
         [] target.doc = Ours(version, FALSE) -> "current"
         [] OTHER -> target.doc.kind

(* plan: what writing the document will have been; --force is about another *)
(* skill's document and about nothing else.                                 *)
PlanFor(found, force) ==
  CASE found = "absent" -> "installed"
    [] found = "current" -> "unchanged"
    [] found = "ours" -> "upgraded"
    [] found = "foreign" /\ force -> "replaced"
    [] OTHER -> "refused"

(* verdict: the exit code of the whole run.                                 *)
SkillVerdict(outcomes) ==
  LET made == {k \in DOMAIN outcomes : outcomes[k] \in Succeeded}
  IN  CASE made = DOMAIN outcomes -> "0"
        [] made # DOMAIN outcomes /\ made # {} -> "9"
        [] OTHER -> IF outcomes[1] = "failed" THEN "1" ELSE "2"

\* Install i, as what it has written makes it, is done with a target; after the
\* last one it reports them all.
Conclude(i, it, action) ==
  LET outcomes == Append(it.outcomes, action)
      last == Len(outcomes) = Places
  IN  Becomes(i, [it EXCEPT !.outcomes = outcomes, !.action = "none", !.found = "none",
                            !.checked = "none", !.left = Append(it.left, ReadsNext(Current(i))),
                            !.stage = IF last THEN "report" ELSE "inspect"])

(* install_one, up to the decision.                                         *)
Examine(i) ==
  /\ install[i].stage = "inspect"
  /\ UNCHANGED <<place, elsewhere, meddling>>
  /\ LET found == Inspect(place[Current(i)], i)
         action == PlanFor(found, install[i].force)
     IN  IF action \in {"unchanged", "refused"}
         THEN Conclude(i, install[i], action)
         ELSE Becomes(i, [install[i] EXCEPT !.stage = "check", !.action = action,
                                            !.found = found])

CheckDirectory_Not(i) ==
  /\ install[i].stage = "check"
  /\ UNCHANGED <<elsewhere, meddling>>
  /\ LET k == Current(i)
     IN  IF place[k].root # "ok"
         THEN UNCHANGED place /\ Conclude(i, install[i], "failed")
         ELSE /\ place' = [place EXCEPT ![k].dir = IF place[k].dir = "none" THEN "dir" ELSE place[k].dir]
              /\ Becomes(i, [install[i] EXCEPT !.stage = "publish", !.checked = place[k].dir])

(* write_document: the directory must not have become a link, and it is     *)
(* created if it is not there; what cannot be created fails.                *)
CheckDirectory(i) ==
  /\ install[i].stage = "check"
  /\ UNCHANGED <<elsewhere, meddling>>
  /\ LET k == Current(i)
     IN  IF place[k].root # "ok" \/ place[k].dir = "link"
         THEN UNCHANGED place /\ Conclude(i, install[i], "failed")
         ELSE /\ place' = [place EXCEPT ![k].dir = "dir"]
              /\ Becomes(i, [install[i] EXCEPT !.stage = "publish", !.checked = place[k].dir])

\* Install i has written to a target, maybe through a link, and maybe over the
\* document of another skill.
Wrote(i, k, linked) ==
  LET it == install[i]
      was == IF linked THEN elsewhere[k] ELSE place[k].doc
  IN  [it EXCEPT !.wrote = it.wrote \cup {k},
                 !.through = it.through \cup (IF linked THEN {<<k, it.checked>>} ELSE {}),
                 !.over = it.over \cup (IF was.kind = "foreign" THEN {<<k, it.found>>} ELSE {})]

(* The temporary file is renamed to the document, whatever has that name    *)
(* now; a directory of that name, or none above it, makes the rename fail.  *)
Publish(i) ==
  /\ install[i].stage = "publish"
  /\ LET k == Current(i)
         linked == place[k].dir = "link"
     IN  \/ /\ place[k].root = "ok" /\ place[k].dir # "none"
            /\ place' = IF linked THEN place ELSE [place EXCEPT ![k].doc = Ours(i, FALSE)]
            /\ elsewhere' = IF linked THEN [elsewhere EXCEPT ![k] = Ours(i, FALSE)]
                            ELSE elsewhere
            /\ Conclude(i, Wrote(i, k, linked), install[i].action)
         \/ /\ place[k].root # "ok" \/ place[k].dir = "none" \/ place[k].doc = Irregular
            /\ UNCHANGED <<place, elsewhere>>
            /\ Conclude(i, install[i], "failed")
  /\ UNCHANGED meddling

\* A step of the write fails; the temporary file goes.
WriteFails(i) ==
  /\ install[i].stage \in {"check", "publish"}
  /\ meddling < MaxMeddling /\ meddling' = meddling + 1
  /\ UNCHANGED <<place, elsewhere>>
  /\ Conclude(i, install[i], "failed")

(* emit, and the verdict if the report could be written: a reader that has  *)
(* gone away is no failure, any other end of the output is exit code 1.     *)
EmitOutcomes(i) ==
  /\ install[i].stage = "report"
  /\ \E written \in BOOLEAN :
       Becomes(i, [install[i] EXCEPT !.stage = "done", !.emitted = written,
                                     !.exit = IF written THEN SkillVerdict(install[i].outcomes)
                                              ELSE "1"])
  /\ UNCHANGED <<place, elsewhere, meddling>>

Rearrangements ==
  {TargetDir("ok", "dir", Another), TargetDir("ok", "link", NoSkill), TargetDir("ok", "none", NoSkill)}

\* Somebody changes what is at a target, between any two steps.
Rearrange(k, target) ==
  /\ place # <<>>
  /\ meddling < MaxMeddling /\ meddling' = meddling + 1
  /\ place' = [place EXCEPT ![k] = target]
  /\ UNCHANGED <<elsewhere, install>>

SkillNext ==
  \/ FindPlaces
  \/ \E i \in Installers :
       \/ \E force \in BOOLEAN : StartInstall(i, force)
       \/ Examine(i) \/ CheckDirectory(i) \/ Publish(i) \/ WriteFails(i) \/ EmitOutcomes(i)
  \/ \E k \in DOMAIN place, target \in Rearrangements : Rearrange(k, target)

SkillSpec == SkillInit /\ [][SkillNext]_skillVars

-----------------------------------------------------------------------------
(* The skill check of otl doctor: whether it warns about a target, and what *)
(* it tells the user to run.                                                *)
NeedsAttention(found) == found \notin {"current", "absent"}
Remedy(found) ==
  CASE found \in {"ours", "absent"} -> "install"
    [] found = "foreign" -> "install --force"
    [] OTHER -> "none"

(* The exit code is what the run did, over all targets: 0 leaves every agent*)
(* this binary's document, 9 is for a run that did part of it, and 2 leaves *)
(* all of them what they had.  So does 1, unless the report could not be    *)
(* written: emit comes before verdict, and its failure ends the run with 1  *)
(* whatever has been installed.                                             *)
ExitIsEarned ==
  \A i \in Installers :
    LET it == install[i]
        current == {k \in DOMAIN it.left : it.left[k] = Ours(i, FALSE)}
    IN  /\ it.exit = "0" => Cardinality(current) = Places
        /\ it.exit = "2" \/ (it.exit = "1" /\ it.emitted) => it.wrote = {}
        /\ it.exit = "9" => current # {}

(* Nothing is written through a link that was there when the directory was  *)
(* looked at, whatever --force says.                                        *)
NothingElsewhere ==
  \A i \in Installers : \A w \in install[i].through : w[2] # "link"

(* The document of another skill that was there when the target was looked  *)
(* at is overwritten with --force and in no other way.  The module says so  *)
(* of every such document; one that comes after the look is replaced by the *)
(* rename, which looks at nothing.                                          *)
OthersAreKept ==
  \A i \in Installers : \A w \in install[i].over : w[2] = "foreign" => install[i].force

(* What doctor prescribes works, and it warns of everything an agent could  *)
(* read that is not the document of this binary.                            *)
RemedyWorks ==
  \A i \in Installers, k \in DOMAIN place :
    LET found == Inspect(place[k], i)
    IN  /\ Remedy(found) = "install" => PlanFor(found, FALSE) \in Succeeded
        /\ Remedy(found) = "install --force" => PlanFor(found, TRUE) \in Succeeded
        /\ ~NeedsAttention(found) => place[k].doc \in {Ours(i, FALSE), NoSkill}

InstallIsHonest == ExitIsEarned /\ NothingElsewhere /\ OthersAreKept /\ RemedyWorks
=============================================================================

----------------------------- MODULE ProfileStore -----------------------------
(***************************************************************************)
(* What the credential file of otl promises to the commands that use it    *)
(* (auth/credentials.rs, CredentialStore): a store of profiles in which an *)
(* update happens in one step, on the value it finds there, or not at all. *)
(*                                                                         *)
(* An update that was reported as done outlives a power failure.  One that *)
(* was reported as not flushed, or whose process died, may be undone by    *)
(* it, and so may the removal of the last profile.                         *)
(***************************************************************************)
EXTENDS Integers

CONSTANTS Procs, Profiles, MaxGen

VARIABLES
  value,   \* the profiles stored, or Foreign
  unsure,  \* values a power failure may bring back
  phase,   \* where the update of each process stands
  wish,    \* the edit it was called with
  told     \* what its last update reported

storeVars == <<value, unsure, phase, wish, told>>

\* A profile holds the number of its latest session, 0 when it has none.
Values == [Profiles -> 0 .. MaxGen]
EmptyValue == [q \in Profiles |-> 0]

\* A file this build must not touch: damaged, or of a later version.
Foreign == [q \in Profiles |-> -1]

Wishes == [kind : {"renew", "remove"}, profile : Profiles]
NoWish == [kind |-> "none"]

(* The edit a caller passes stores a new session or removes the profile's;   *)
(* it may also refuse the file it is shown.                                  *)
Edited(v, w) ==
  [v EXCEPT ![w.profile] = IF w.kind = "remove" THEN 0 ELSE v[w.profile] + 1]

StoreInit ==
  /\ value = EmptyValue
  /\ unsure = {}
  /\ phase = [p \in Procs |-> "idle"]
  /\ wish = [p \in Procs |-> NoWish]
  /\ told = [p \in Procs |-> "none"]

Ask(p) ==
  /\ phase[p] = "idle"
  /\ phase' = [phase EXCEPT ![p] = "asked"]
  /\ \E w \in Wishes : wish' = [wish EXCEPT ![p] = w]
  /\ told' = [told EXCEPT ![p] = "none"]
  /\ UNCHANGED <<value, unsure>>

\* The one step in which an update takes effect.
Apply(p) ==
  /\ phase[p] = "asked"
  /\ value # Foreign
  /\ value' = Edited(value, wish[p])
  /\ unsure' = unsure \cup {value}
  /\ phase' = [phase EXCEPT ![p] = "applied"]
  /\ UNCHANGED <<wish, told>>

Return(p, report) ==
  /\ phase' = [phase EXCEPT ![p] = "idle"]
  /\ told' = [told EXCEPT ![p] = report]
  /\ wish' = [wish EXCEPT ![p] = NoWish]
  /\ UNCHANGED value

\* Nothing was changed, and the caller is told so.
Refuse(p) == phase[p] = "asked" /\ Return(p, "refused") /\ UNCHANGED unsure

\* Done for good; or done, and it may not survive a power failure.
Confirm(p) ==
  /\ phase[p] = "applied"
  /\ \/ Return(p, "done") /\ unsure' = {}
     \/ Return(p, "emptied") /\ value = EmptyValue /\ UNCHANGED unsure
     \/ Return(p, "unflushed") /\ UNCHANGED unsure

Die(p) == phase[p] # "idle" /\ Return(p, "none") /\ UNCHANGED unsure

PowerFailure ==
  /\ value' \in {value} \cup unsure
  /\ unsure' = {}
  /\ phase' = [p \in Procs |-> "idle"]
  /\ told' = [p \in Procs |-> "none"]
  /\ wish' = [p \in Procs |-> NoWish]

\* Somebody else puts a file there that this build cannot use, or repairs it.
Meddle ==
  /\ \/ value' = Foreign
     \/ value = Foreign /\ value' \in Values
  /\ unsure' = {}
  /\ UNCHANGED <<phase, wish, told>>

StoreNext ==
  \/ \E p \in Procs : Ask(p) \/ Apply(p) \/ Refuse(p) \/ Confirm(p) \/ Die(p)
  \/ PowerFailure
  \/ Meddle

StoreSpec == StoreInit /\ [][StoreNext]_storeVars
=============================================================================

---------------------------- MODULE MCLoginLogout -----------------------------
(* Small instances of LoginLogout for TLC.                                  *)
EXTENDS LoginLogout, TLC

Symmetric == Permutations(Procs) \cup Permutations(Origins)

\* --client-id names an administrator's client, or is not used.
AdminOnly == {AdminClient}

NoOne == {}

\* --client-id names an administrator's client or the first one registered.
AnyClient == {AdminClient, 1}

\* A bound: API keys are used with dynamic clients only, and with one token.
KeysOrAdministrators ==
  \/ profile.key = NoKey /\ \A p \in Procs : pc[p] # "prompt"
  \/ /\ lastToken <= 1
     /\ profile.client # NoClient => profile.client.dynamic
     /\ \A p \in Procs : /\ pc[p] = "client" => options[p].clientId = NoClient
                         /\ mine[p] # NoClient => mine[p].dynamic

\* The values of --force and --force-new-client.
Either == BOOLEAN
Unforced == {FALSE}
=============================================================================

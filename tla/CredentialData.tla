--------------------------- MODULE CredentialData ---------------------------
(***************************************************************************)
(* The values the credential file of otl holds for one profile, and the    *)
(* pure decisions taken over them (auth/credentials.rs, auth/selection.rs, *)
(* auth/source.rs, auth/oauth.rs).  No state: the modules that act on the  *)
(* file extend this one.                                                   *)
(*                                                                         *)
(* A token is the number of the grant response that issued it: the access  *)
(* token and the refresh token of one response carry the same number, so a *)
(* larger number is a later token.  MaxGen bounds how many responses the   *)
(* authorization server gives in a behaviour.                              *)
(*                                                                         *)
(* Operators named X_... are X with one plausible mistake in it; nothing   *)
(* uses them but the mutation runs listed in PROJECT.json.                 *)
(***************************************************************************)
EXTENDS Integers

CONSTANTS
  Origins,    \* instance origins (scheme://host:port) a profile can name
  Clients,    \* OAuth client ids
  MaxGen,     \* bound on the token responses issued by the server
  NoSession   \* `oauth: None` in the file, and in memory

ASSUME MaxGenAssumption == MaxGen \in Nat \ {0}

Gen == 1 .. MaxGen

\* `refresh_token: None`
NoToken == 0

(* OAuthSession.  `at` and `rt` are the tokens, `timed` says whether an     *)
(* expires_at is recorded, `origin` is the origin of token_endpoint and     *)
(* `client` the client_id.  The scope and the account labels decide nothing.*)
Session == [at : Gen, rt : Gen \cup {NoToken}, timed : BOOLEAN,
            origin : Origins, client : Clients]

ASSUME NoSessionAssumption == NoSession \notin Session

(* Tokens: what a token response carries once parsed.  The refresh token and *)
(* the lifetime may both be missing from it.                                 *)
Tokens == [at : Gen, rt : Gen \cup {NoToken}, timed : BOOLEAN]

(* Where now_unix() stands with respect to the lifetime of an access token:  *)
(* more than EXPIRY_SKEW_SECONDS before its end, within them, or past it.    *)
Fresh == 0
Aging == 1
Lapsed == 2
Stages == {Fresh, Aging, Lapsed}

(* fresh_enough: a session inside the margin is refreshed early, one without *)
(* a recorded expiry is used until the server refuses it.                    *)
FreshEnough(s, stage) == s.timed => stage[s.at] = Fresh

SupersededBy_AnyLive(s, spent, stage) == s.timed => stage[s.at] # Lapsed

(* superseded_by: the file already replaces the token `spent`.  No margin    *)
(* here: a waiter only asks whether this is another token, not lapsed yet.   *)
SupersededBy(s, spent, stage) ==
  /\ s.at # spent
  /\ s.timed => stage[s.at] # Lapsed

Merge_KeepsRefreshToken(s, t) == [s EXCEPT !.at = t.at, !.timed = t.timed]

(* merge: fold a token response into the stored session.  A response without *)
(* a refresh token means "keep the one you have".                            *)
Merge(s, t) ==
  [s EXCEPT !.at = t.at, !.timed = t.timed,
            !.rt = IF t.rt = NoToken THEN s.rt ELSE t.rt]
=============================================================================

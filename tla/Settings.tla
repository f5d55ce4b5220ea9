-------------------------------- MODULE Settings --------------------------------
(***************************************************************************)
(* Which instance a command talks to and which credential it may send      *)
(* there (config/, auth/mod.rs, auth/selection.rs).  The command line, the  *)
(* environment, the user config file and the credential file each say      *)
(* something; the operators below are the functions that settle it, over a *)
(* world w that holds everything the four say.                             *)
(***************************************************************************)
EXTENDS Naturals, Sequences, FiniteSets

CONSTANTS
  Profiles,       \* names of profiles, "default" among them
  VarOf,          \* the suffix of a profile's variable, "none" if it has none
  Urls,           \* what a URL holds, for each URL that somebody may write
  MaxConfigBytes  \* MAX_CONFIG_FILE_BYTES

ASSUME SettingsAssumption ==
  /\ "default" \in Profiles /\ "none" \notin Profiles /\ "blank" \notin Profiles
  /\ DOMAIN VarOf = Profiles
  \* A suffix has a letter or a digit in it (api_key_var_suffix).
  /\ \A p \in Profiles : VarOf[p] # ""
  /\ {"none", "blank"} \cap DOMAIN Urls = {}
  /\ MaxConfigBytes \in Nat

(* w.flag, w.env: the profile, the URL and the config file that the command  *)
(* line and the environment name, "none" when absent; w.env.keys: what each  *)
(* variable for a key holds, under its suffix, "" for the one without.       *)
(* w.home: whether there is a configuration directory for the user.         *)
(* w.files: what is found at each place where a config file may be.         *)
(* w.store: what is found at the place of the credential file, and the      *)
(* entry of each profile in it.                                             *)
Error(e) == [error |-> e]
Failed(r) == "error" \in DOMAIN r

NonBlank(value) == IF value = "blank" THEN "none" ELSE value
FirstOf(a, b) == IF a # "none" THEN a ELSE b

EnvKeys(w) == {suffix \in DOMAIN w.env.keys : NonBlank(w.env.keys[suffix]) # "none"}
EnvLayer(w) ==
  [profile |-> NonBlank(w.env.profile), url |-> NonBlank(w.env.url), keys |-> EnvKeys(w)]

(* A blank name asks for no config file at all.                              *)
Locate(w) ==
  LET named == FirstOf(w.flag.config, w.env.config)
  IN  [path     |-> IF named = "blank" THEN "none"
                    ELSE IF named # "none" THEN named
                    ELSE IF w.home THEN "the default place" ELSE "none",
       explicit |-> named # "none"]

(* What is at a path: found, sized (a pipe has no size of its own), and what *)
(* is written there.                                                        *)
ReadCapped(found) ==
  IF found.at = "nothing" THEN Error("NotFound")
  ELSE IF found.at = "unreadable" THEN Error("Io")
  ELSE IF found.bytes > MaxConfigBytes THEN Error("TooLarge")
  ELSE found

(* No credential may be in it, and no profile without a name.                *)
ParseConfig(raw) ==
  IF raw.text = "not the schema" THEN Error("MalformedConfigFile")
  ELSE IF raw.text = "with a secret" THEN Error("CredentialInConfigFile")
  ELSE IF raw.text = "with a nameless profile" THEN Error("MalformedConfigFile")
  ELSE [default |-> raw.default, profiles |-> raw.profiles]

NoConfig == [default |-> "none", profiles |-> <<>>]

(* No file at the default place is no error; anywhere else it is.            *)
LoadFrom(w, source) ==
  LET raw == ReadCapped(w.files[source.path])
  IN  IF source.path = "none" THEN NoConfig
      ELSE IF Failed(raw) /\ raw.error = "NotFound" /\ ~source.explicit THEN NoConfig
      ELSE IF Failed(raw) THEN Error("ConfigFileUnreadable")
      ELSE ParseConfig(raw)

LoadFile(w) == LoadFrom(w, Locate(w))

ResolveProfileName(w, file) ==
  FirstOf(NonBlank(w.flag.profile), FirstOf(EnvLayer(w).profile, file.default))

(* Two profiles whose names make one variable: the key in it could be either*)
(* one's.                                                                   *)
AmbiguousVar(name, file) ==
  /\ VarOf[name] # "none"
  /\ \E other \in DOMAIN file.profiles \ {name} : VarOf[other] = VarOf[name]

(* The settings: the profile, its own URL, the URL in effect and the layer  *)
(* it came from, and the method.                                            *)
SettingsOf(w, file, name) ==
  LET selected == name # "none"
      known    == name \in DOMAIN file.profiles
      declared == IF selected /\ known THEN NonBlank(file.profiles[name].url) ELSE "none"
      flag     == NonBlank(w.flag.url)
      env      == EnvLayer(w).url
      url      == FirstOf(flag, FirstOf(env, declared))
  IN  IF selected /\ ~known THEN Error("UnknownProfile")
      ELSE IF selected /\ known /\ AmbiguousVar(name, file) THEN Error("AmbiguousProfileApiKeyVar")
      ELSE IF url = "none" THEN Error("MissingUrl")
      ELSE
             [profile  |-> name,
              declared |-> declared,
              url      |-> url,
              layer    |-> IF flag # "none" THEN "flag" ELSE IF env # "none" THEN "env" ELSE "profile",
              auth     |-> IF selected THEN file.profiles[name].auth ELSE "api-key"]
ResolveSettings(w, file) == SettingsOf(w, file, ResolveProfileName(w, file))

(* A URL: whether it parses, its scheme and host, and whether it carries     *)
(* something that the address of an instance may not.                       *)
ValidBaseUrl(u) ==
  /\ Urls[u].parses
  /\ Urls[u].scheme \in {"http", "https"}
  /\ Urls[u].host # "none"
  /\ ~Urls[u].extra

NoOrigin == <<>>
OriginOf(u) == IF ValidBaseUrl(u) THEN <<Urls[u].scheme, Urls[u].host>> ELSE NoOrigin

(* A name is never a loopback address, whatever it resolves to.              *)
IsSecure(u) ==
  \/ Urls[u].scheme = "https"
  \/ Urls[u].scheme = "http" /\ Urls[u].host = "127.0.0.1"

UsableOrigin(u) ==
  IF ~ValidBaseUrl(u) THEN Error("InvalidBaseUrl")
  ELSE IF ~IsSecure(u) THEN Error("InsecureTransport")
  ELSE [origin |-> OriginOf(u)]

UsableSettings(settings) ==
  IF Failed(settings) \/ ~Failed(UsableOrigin(settings.url)) THEN settings
  ELSE UsableOrigin(settings.url)
InstanceOf(w, file) == IF Failed(file) THEN file ELSE UsableSettings(ResolveSettings(w, file))
ResolveInstance(w) == InstanceOf(w, LoadFile(w))

ProfileKey(settings) == IF settings.profile = "none" THEN "default" ELSE settings.profile

(* auth logout asks for the profile alone: it works with no instance at all.*)
ActiveProfile(w) ==
  LET file == LoadFile(w)
      name == ResolveProfileName(w, file)
  IN  IF Failed(file) THEN file
      ELSE IF name = "none" THEN [profile |-> "default"]
      ELSE [profile |-> name]

(* The release gate.  A URL of the command line is a deliberate redirect; one*)
(* of the environment has to be the instance that the profile names.        *)
CheckCredentialBinding_NotTheEnvironment(s) == s

CheckCredentialBinding(s) ==
  LET origin   == OriginOf(s.url)
      declared == OriginOf(s.declared)
  IN  IF s.profile = "none" \/ s.layer \in {"flag", "profile"} THEN s
      ELSE IF s.declared = "none" THEN Error("UnboundProfileCredential")
      ELSE IF origin = NoOrigin THEN s
      ELSE IF declared = NoOrigin THEN Error("InvalidProfileUrl")
      ELSE IF origin = declared THEN s
      ELSE Error("ConflictingUrl")

(* A key of the environment: the variable of the profile, and the one without*)
(* a suffix for no profile only.                                            *)
FetchEnvKey(w, s) ==
  LET suffix == IF s.profile = "none" THEN "" ELSE VarOf[s.profile]
  IN  IF s.auth # "api-key" THEN Error("UnsupportedAuthMethod")
      ELSE IF suffix = "none" THEN Error("ProfileApiKeyVarUnnameable")
      ELSE IF suffix \in EnvLayer(w).keys THEN [from |-> "environment", owner |-> suffix]
      ELSE IF suffix = "" THEN Error("MissingApiKey")
      ELSE Error("MissingProfileApiKey")

FetchStoredKey(s, hasKey) ==
  IF hasKey THEN [from |-> "stored", owner |-> ProfileKey(s)]
  ELSE Error("MissingStoredCredential")

SelectSource(s, hasKey) ==
  IF s.auth = "oauth" \/ hasKey THEN "stored" ELSE "environment"

ReleaseCredential(w, s, hasKey) ==
  LET checked == CheckCredentialBinding(s)
  IN  IF Failed(checked) THEN checked
      ELSE IF SelectSource(s, hasKey) = "environment" THEN FetchEnvKey(w, s)
      ELSE FetchStoredKey(s, hasKey)

(* An entry of the credential file: the instance it is bound to, whether it  *)
(* holds a key, and the instance whose session it holds.                    *)
NoEntry == [origin |-> NoOrigin, key |-> FALSE, session |-> NoOrigin]
StoredEntry(w, name) == IF name \in DOMAIN w.store.entries THEN w.store.entries[name] ELSE NoEntry
HasAuthenticator(entry) == entry.key \/ entry.session # NoOrigin

CheckBinding(entry, origin) ==
  \/ ~HasAuthenticator(entry)
  \/ entry.origin = origin /\ entry.session \in {NoOrigin, origin}

(* What auth info lists: the credential in use, then those it shadows.       *)
Others(entry, method) ==
  (IF entry.session # NoOrigin /\ method # "session" THEN <<"session">> ELSE <<>>)
    \o (IF entry.key /\ method # "stored" THEN <<"stored">> ELSE <<>>)
Ordered(entry, method) == <<method>> \o Others(entry, method)

(* A session comes before a key, whatever the method of the profile.         *)
ResolveCredential(w, s) ==
  LET entry == StoredEntry(w, ProfileKey(s))
      resolved(c) ==
        IF Failed(c) THEN c
        ELSE [from |-> c.from, owner |-> c.owner, available |-> Ordered(entry, c.from)]
  IN  IF ~CheckBinding(entry, OriginOf(s.url)) THEN Error("InstanceMismatch")
      ELSE IF entry.session # NoOrigin THEN resolved([from |-> "session", owner |-> ProfileKey(s)])
      ELSE resolved(ReleaseCredential(w, s, entry.key))

StoreFaults ==
  {"exposed", "link", "irregular", "foreign", "unreadable", "damaged", "newer"}

LoadStore(w) ==
  IF w.store.at = "nowhere" THEN Error("NoConfigDir")
  ELSE IF w.store.at \in StoreFaults THEN Error("UnusableStore")
  ELSE w.store

(* What every command begins with: the instance, the credential, and a       *)
(* client for the two.                                                      *)
ClientWith(instance, credential) ==
  IF Failed(credential) THEN credential
  ELSE [to |-> OriginOf(instance.url), credential |-> credential,
        profile |-> ProfileKey(instance), settings |-> instance]
ClientFor(w, instance) ==
  IF Failed(instance) THEN instance
  ELSE IF Failed(LoadStore(w)) THEN LoadStore(w)
  ELSE ClientWith(instance, ResolveCredential(w, instance))
OpenClient(w) == ClientFor(w, ResolveInstance(w))

-----------------------------------------------------------------------------
(* What the four may say.                                                   *)
CredentialEntries == [origin : Seq(STRING), key : BOOLEAN, session : Seq(STRING)]
Stated(profile) == profile.url \in DOMAIN Urls \cup {"none", "blank"}
IsFile(f) ==
  /\ f = [at |-> f.at, bytes |-> f.bytes, text |-> f.text, default |-> f.default, profiles |-> f.profiles]
  /\ f.default \in Profiles \cup {"none"}
  /\ DOMAIN f.profiles \subseteq Profiles /\ \A p \in DOMAIN f.profiles : Stated(f.profiles[p])
IsStore(store) ==
  /\ store = [at |-> store.at, entries |-> store.entries]
  /\ \A p \in DOMAIN store.entries : store.entries[p] \in CredentialEntries
IsWorld(w) ==
  /\ {w.flag.profile, w.env.profile} \subseteq Profiles \cup {"none", "blank"}
  /\ {w.flag.url, w.env.url} \subseteq DOMAIN Urls \cup {"none", "blank"}
  /\ Locate(w).path \in DOMAIN w.files \cup {"none"}
  /\ \A place \in DOMAIN w.files : IsFile(w.files[place])
  /\ IsStore(w.store)

(* Whom a credential belongs to, said without the resolution: a key or a     *)
(* session of the credential file to the instance it was stored for; a key   *)
(* of a variable to the one profile that the variable can mean, and so to the*)
(* instance which that profile names, unless the command line says otherwise;*)
(* the key without a profile to a world that selects none.                  *)
BelongsTo(w, credential, origin) ==
  LET profiles == LoadFile(w).profiles
      owners   == {p \in DOMAIN profiles : VarOf[p] = credential.owner}
  IN  IF credential.from = "session" THEN StoredEntry(w, credential.owner).session = origin
      ELSE IF credential.from = "stored" THEN StoredEntry(w, credential.owner).origin = origin
      ELSE IF credential.owner = "" THEN
             {w.flag.profile, w.env.profile, LoadFile(w).default} \subseteq {"none", "blank"}
      ELSE
             /\ Cardinality(owners) = 1
             /\ \/ w.flag.url \notin {"none", "blank"}
                \/ \A p \in owners : /\ profiles[p].url \notin {"none", "blank"}
                                    /\ OriginOf(profiles[p].url) = origin

(* Whatever the four layers say, and however they disagree, a command opens a*)
(* client only for an instance that may be sent a credential, with a         *)
(* credential that belongs to that instance; auth info names the credential  *)
(* in use first and no other twice; and auth logout, which resolves no       *)
(* instance, acts on the profile that the command would have used            *)
(* (resolve_credential, release_token, Snapshot, active_profile).            *)
KeysStayHome(w) ==
  \A client \in {OpenClient(w)} : ~Failed(client) =>
    LET listed == client.credential.available
    IN  /\ \E u \in DOMAIN Urls : IsSecure(u) /\ OriginOf(u) = client.to
        /\ BelongsTo(w, client.credential, client.to)
        /\ listed[1] = client.credential.from
        /\ Cardinality({listed[k] : k \in DOMAIN listed}) = Len(listed)
        /\ ActiveProfile(w).profile = client.profile
=============================================================================

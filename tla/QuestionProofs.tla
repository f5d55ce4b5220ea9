----------------------------- MODULE QuestionProofs -----------------------------
(***************************************************************************)
(* Proofs about what the commands answer, for every question of Commands:   *)
(* the settings and the credential they select (Settings), the document of  *)
(* an authorization server (Discovery), the report of doctor (Doctor), the  *)
(* requests, lists and counts of comments and collections (Curated), the    *)
(* outline of a document (DocsView), and a document that is shown (Display).*)
(* What is shown of a server's text, and its tables, are in ChannelProofs.  *)
(* All but the last are about a pure function each: a lemma for each stage  *)
(* of it, composed in the order of the code.  The last is an invariant of a *)
(* machine.  At the end the program: what it asks is legible, so that what  *)
(* was proved of a function holds of its answers.                           *)
(***************************************************************************)
EXTENDS Commands, DocumentProofs, CommandProofs, ChannelProofs

(* A file that was parsed holds what was written in it.                      *)
LEMMA ParsedConfig ==
  ASSUME NEW raw, ~Failed(ParseConfig(raw))
  PROVE  ParseConfig(raw) = [default |-> raw.default, profiles |-> raw.profiles]
BY DEF ParseConfig, Failed, Error

(* A key that was found in the environment is that of its profile.           *)
LEMMA FoundEnvKey ==
  ASSUME NEW w, NEW s, ~Failed(FetchEnvKey(w, s))
  PROVE  LET suffix == IF s.profile = "none" THEN "" ELSE VarOf[s.profile]
         IN  FetchEnvKey(w, s) = [from |-> "environment", owner |-> suffix] /\ suffix # "none"
BY DEF FetchEnvKey, Failed, Error

(* A key that was found in the credential file is in it.                     *)
LEMMA FoundStoredKey ==
  ASSUME NEW s, NEW hasKey, ~Failed(FetchStoredKey(s, hasKey))
  PROVE  FetchStoredKey(s, hasKey) = [from |-> "stored", owner |-> ProfileKey(s)] /\ hasKey
BY DEF FetchStoredKey, Failed, Error

(* A configuration that was loaded names only profiles there may be.        *)
LEMMA LoadedFile ==
  ASSUME NEW w, IsWorld(w), ~Failed(LoadFile(w))
  PROVE  /\ LoadFile(w).default \in Profiles \cup {"none"}
         /\ DOMAIN LoadFile(w).profiles \subseteq Profiles
         /\ \A p \in DOMAIN LoadFile(w).profiles :
              LoadFile(w).profiles[p].url \in DOMAIN Urls \cup {"none", "blank"}
<1> DEFINE at == Locate(w).path
           raw == ReadCapped(w.files[at])
<1>1. CASE at = "none"
  <2>1. LoadFile(w) = NoConfig
    BY <1>1 DEF LoadFile, LoadFrom, Failed
  <2> QED BY <2>1 DEF NoConfig
<1>2. CASE at # "none"
  <2>1. IsFile(w.files[at])
    BY <1>2 DEF IsWorld
  <2>2. CASE Failed(raw)
    <3>1. LoadFile(w) = NoConfig
      BY <1>2, <2>2 DEF LoadFile, LoadFrom, Failed, Error
    <3> QED BY <3>1 DEF NoConfig
  <2>3. CASE ~Failed(raw)
    <3>1. raw = w.files[at]
      BY <2>3 DEF ReadCapped, Failed, Error
    <3>2. LoadFile(w) = ParseConfig(raw)
      BY <1>2, <2>3 DEF LoadFile, LoadFrom
    <3> HIDE DEF raw
    <3>3. LoadFile(w) = [default |-> raw.default, profiles |-> raw.profiles]
      BY <3>2, ParsedConfig
    <3>4. IsFile(raw)
      BY <2>1, <3>1
    <3> QED BY <3>3, <3>4 DEF IsFile, Stated
  <2> QED BY <2>2, <2>3
<1> QED BY <1>1, <1>2

(* The settings of a command, where the layers settle them.                 *)
Present(value) == value \notin {"none", "blank"}
SettingsAre(w, file, s) ==
  /\ s.profile = ResolveProfileName(w, file)
  /\ s.profile # "none" => s.profile \in DOMAIN file.profiles /\ ~AmbiguousVar(s.profile, file)
  /\ s.declared = IF s.profile # "none" THEN NonBlank(file.profiles[s.profile].url) ELSE "none"
  /\ s.url \in DOMAIN Urls
  /\ s.layer \in {"flag", "env", "profile"}
  /\ s.layer = "flag" => Present(w.flag.url)
  /\ s.layer = "profile" => s.url = s.declared
LEMMA SettledSettings ==
  ASSUME NEW w, IsWorld(w), ~Failed(LoadFile(w)),
         NEW s, s = ResolveSettings(w, LoadFile(w)), ~Failed(s)
  PROVE  SettingsAre(w, LoadFile(w), s)
<1> DEFINE file == LoadFile(w)
           name == ResolveProfileName(w, file)
           declared == IF name # "none" /\ name \in DOMAIN file.profiles THEN NonBlank(file.profiles[name].url) ELSE "none"
           flag == NonBlank(w.flag.url)
           env == EnvLayer(w).url
           url == FirstOf(flag, FirstOf(env, declared))
           layer == IF flag # "none" THEN "flag" ELSE IF env # "none" THEN "env" ELSE "profile"
           auth == IF name # "none" THEN file.profiles[name].auth ELSE "api-key"
<1> HIDE DEF file
<1>1. s = SettingsOf(w, file, name)
  BY DEF ResolveSettings, file
<1>2. /\ s = [profile |-> name, declared |-> declared, url |-> url, layer |-> layer, auth |-> auth]
      /\ name # "none" => name \in DOMAIN file.profiles /\ ~AmbiguousVar(name, file)
      /\ url # "none"
  BY <1>1 DEF SettingsOf, Failed, Error
<1>3. env = NonBlank(w.env.url)
  BY DEF EnvLayer
<1>4. /\ w.flag.url \in DOMAIN Urls \cup {"none", "blank"}
      /\ w.env.url \in DOMAIN Urls \cup {"none", "blank"}
      /\ name # "none" => file.profiles[name].url \in DOMAIN Urls \cup {"none", "blank"}
  BY <1>2, LoadedFile DEF IsWorld, file
<1>5. url \in DOMAIN Urls
  BY <1>2, <1>3, <1>4 DEF FirstOf, NonBlank
<1>6. layer = "flag" => Present(w.flag.url)
  BY DEF NonBlank, Present
<1>7. layer = "profile" => url = declared
  BY DEF FirstOf
<1> QED BY <1>2, <1>5, <1>6, <1>7 DEF SettingsAre, file

(* A credential file that was loaded is one of the shape it was written in.  *)
LEMMA StoredEntries ==
  ASSUME NEW w, IsWorld(w), NEW name
  PROVE  StoredEntry(w, name) \in CredentialEntries
<1>1. NoEntry \in CredentialEntries
  BY DEF NoEntry, NoOrigin, CredentialEntries
<1> QED BY <1>1 DEF StoredEntry, IsWorld, IsStore

(* Short sequences put together, and the elements of one.                    *)
LEMMA PairOf ==
  ASSUME NEW S, NEW a \in S, NEW b \in S
  PROVE  <<a>> \o <<b>> = <<a, b>>
<1> DEFINE list == <<a>> \o <<b>>
<1>1. <<a>> \in Seq(S) /\ <<b>> \in Seq(S) /\ <<a, b>> \in Seq(S)
  OBVIOUS
<1>2. list \in Seq(S) /\ Len(list) = 2 /\ list[1] = a /\ list[2] = b
  BY <1>1
<1>3. Len(<<a, b>>) = 2 /\ <<a, b>>[1] = a /\ <<a, b>>[2] = b
  OBVIOUS
<1> HIDE DEF list
<1>4. \A i \in 1..Len(list) : list[i] = <<a, b>>[i]
  BY <1>2, <1>3
<1>5. list = <<a, b>>
  BY <1>1, <1>2, <1>3, <1>4, SeqEqual
<1> QED BY <1>5 DEF list

(* The same for three.                                                      *)
LEMMA TripleOf ==
  ASSUME NEW S, NEW a \in S, NEW b \in S, NEW c \in S
  PROVE  <<a>> \o <<b, c>> = <<a, b, c>>
<1> DEFINE list == <<a>> \o <<b, c>>
<1>1. <<a>> \in Seq(S) /\ <<b, c>> \in Seq(S) /\ <<a, b, c>> \in Seq(S)
  OBVIOUS
<1>2. list \in Seq(S) /\ Len(list) = 3 /\ list[1] = a /\ list[2] = b /\ list[3] = c
  BY <1>1
<1>3. Len(<<a, b, c>>) = 3 /\ <<a, b, c>>[1] = a /\ <<a, b, c>>[2] = b /\ <<a, b, c>>[3] = c
  OBVIOUS
<1> HIDE DEF list
<1>4. \A i \in 1..Len(list) : list[i] = <<a, b, c>>[i]
  BY <1>2, <1>3
<1>5. list = <<a, b, c>>
  BY <1>1, <1>2, <1>3, <1>4, SeqEqual
<1> QED BY <1>5 DEF list

(* A sequence of one, and of none.                                           *)
LEMMA SingleOf ==
  ASSUME NEW S, NEW a \in S
  PROVE  <<a>> \in Seq(S) /\ <<>> \in Seq(S)
OBVIOUS

(* What two and three names in a row are.                                    *)
LEMMA PairItems ==
  ASSUME NEW a, NEW b, NEW list, list = <<a, b>>
  PROVE  /\ Len(list) = 2 /\ list[1] = a
         /\ {list[k] : k \in DOMAIN list} = {a, b}
<1>1. DOMAIN list = {1, 2} /\ Len(list) = 2 /\ list[1] = a /\ list[2] = b
  OBVIOUS
<1> QED BY <1>1

(* The same for three.                                                      *)
LEMMA TripleItems ==
  ASSUME NEW a, NEW b, NEW c, NEW list, list = <<a, b, c>>
  PROVE  /\ Len(list) = 3 /\ list[1] = a
         /\ {list[k] : k \in DOMAIN list} = {a, b, c}
<1>1. DOMAIN list = {1, 2, 3} /\ Len(list) = 3 /\ list[1] = a /\ list[2] = b /\ list[3] = c
  OBVIOUS
<1> QED BY <1>1

(* How many names two and three different ones are.                         *)
LEMMA PairSize ==
  ASSUME NEW a, NEW b, a # b
  PROVE  IsFiniteSet({a, b}) /\ Cardinality({a, b}) = 2
<1>1. Cardinality({a}) = 1 /\ IsFiniteSet({a})
  BY FS_Singleton
<1>2. Cardinality({a} \cup {b}) = Cardinality({a}) + 1 /\ IsFiniteSet({a} \cup {b})
  BY <1>1, FS_AddElement
<1>3. {a} \cup {b} = {a, b}
  OBVIOUS
<1> QED BY <1>1, <1>2, <1>3

(* The same for three.                                                      *)
LEMMA TripleSize ==
  ASSUME NEW a, NEW b, NEW c, a # b, a # c, b # c
  PROVE  Cardinality({a, b, c}) = 3
<1>1. Cardinality({a, b}) = 2 /\ IsFiniteSet({a, b})
  BY PairSize
<1>2. Cardinality({a, b} \cup {c}) = Cardinality({a, b}) + 1
  BY <1>1, FS_AddElement
<1>3. {a, b} \cup {c} = {a, b, c}
  OBVIOUS
<1> QED BY <1>1, <1>2, <1>3

(* The credential in use is listed first, and none twice.                    *)
Sources == {"session", "stored", "environment"}
LEMMA ListedOnce ==
  ASSUME NEW entry, entry.key \in BOOLEAN, NEW method \in Sources
  PROVE  LET listed == Ordered(entry, method)
         IN  /\ listed[1] = method
             /\ Cardinality({listed[k] : k \in DOMAIN listed}) = Len(listed)
<1> DEFINE first == entry.session # NoOrigin /\ method # "session"
           second == entry.key /\ method # "stored"
           listed == Ordered(entry, method)
           items == {listed[k] : k \in DOMAIN listed}
<1>1. listed = <<method>> \o ((IF first THEN <<"session">> ELSE <<>>)
                              \o (IF second THEN <<"stored">> ELSE <<>>))
  BY DEF Ordered, Others
<1>0. "session" \in Sources /\ "stored" \in Sources
  BY DEF Sources
<1>2. /\ <<"session">> \in Seq(Sources) /\ <<"stored">> \in Seq(Sources)
      /\ <<method>> \in Seq(Sources) /\ <<>> \in Seq(Sources)
  BY <1>0, SingleOf
<1> HIDE DEF listed
<1>3. CASE first /\ second
  <2>1. listed = <<method, "session", "stored">>
    BY <1>0, <1>1, <1>3, PairOf, TripleOf
  <2>2. Len(listed) = 3 /\ listed[1] = method /\ items = {method, "session", "stored"}
    BY <2>1, TripleItems
  <2> HIDE DEF items
  <2>4. Cardinality(items) = 3
    BY <1>3, <2>2, TripleSize
  <2> QED BY <2>2, <2>4 DEF items, listed
<1>4. CASE first /\ ~second
  <2>1. listed = <<method, "session">>
    BY <1>1, <1>2, <1>4, <1>0, PairOf, ConcatEmptySeq
  <2>2. Len(listed) = 2 /\ listed[1] = method /\ items = {method, "session"}
    BY <2>1, PairItems
  <2> HIDE DEF items
  <2>4. Cardinality(items) = 2
    BY <1>4, <2>2, PairSize
  <2> QED BY <2>2, <2>4 DEF items, listed
<1>5. CASE ~first /\ second
  <2>1. listed = <<method, "stored">>
    BY <1>1, <1>2, <1>5, <1>0, PairOf, ConcatEmptySeq
  <2>2. Len(listed) = 2 /\ listed[1] = method /\ items = {method, "stored"}
    BY <2>1, PairItems
  <2> HIDE DEF items
  <2>4. Cardinality(items) = 2
    BY <1>5, <2>2, PairSize
  <2> QED BY <2>2, <2>4 DEF items, listed
<1>6. CASE ~first /\ ~second
  <2>1. listed = <<method>>
    BY <1>1, <1>2, <1>6, ConcatEmptySeq
  <2>2. DOMAIN listed = {1} /\ Len(listed) = 1 /\ listed[1] = method
    BY <2>1
  <2>3. items = {method}
    BY <2>1, <2>2
  <2> HIDE DEF items
  <2>4. Cardinality(items) = 1
    BY <2>3, FS_Singleton
  <2> QED BY <2>2, <2>4 DEF items, listed
<1> QED BY <1>3, <1>4, <1>5, <1>6

(* A key of a variable belongs to the one profile that the variable can mean.*)
LEMMA OneOwner ==
  ASSUME NEW file, NEW name, name \in DOMAIN file.profiles, ~AmbiguousVar(name, file),
         VarOf[name] # "none"
  PROVE  {p \in DOMAIN file.profiles : VarOf[p] = VarOf[name]} = {name}
BY DEF AmbiguousVar

(* The gate lets a key of a profile go to the instance that the profile      *)
(* names, unless the command line says otherwise.                            *)
LEMMA GatedOrigin ==
  ASSUME NEW w, NEW file, NEW s, SettingsAre(w, file, s), s.profile # "none",
         OriginOf(s.url) # NoOrigin, ~Failed(CheckCredentialBinding(s))
  PROVE  \/ Present(w.flag.url)
         \/ /\ Present(file.profiles[s.profile].url)
            /\ OriginOf(file.profiles[s.profile].url) = OriginOf(s.url)
<1>1. s.declared = NonBlank(file.profiles[s.profile].url)
  BY DEF SettingsAre
<1>2. CASE s.layer = "flag"
  BY <1>2 DEF SettingsAre
<1>3. CASE s.layer = "profile"
  <2>1. s.url = s.declared /\ s.url # "none"
    BY <1>3, SettingsAssumption DEF SettingsAre
  <2> QED BY <1>1, <2>1, SettingsAssumption DEF NonBlank, Present, SettingsAre
<1>4. CASE s.layer = "env"
  <2>1. s.declared # "none" /\ OriginOf(s.url) = OriginOf(s.declared)
    BY <1>4 DEF CheckCredentialBinding, Failed, Error
  <2> QED BY <1>1, <2>1 DEF NonBlank, Present
<1> QED BY <1>2, <1>3, <1>4 DEF SettingsAre

(* An instance that a command may talk to is one of those that somebody      *)
(* wrote, secure and with an origin.                                         *)
LEMMA UsableInstance ==
  ASSUME NEW w, IsWorld(w), ~Failed(ResolveInstance(w))
  PROVE  LET s == ResolveInstance(w)
         IN  /\ ~Failed(LoadFile(w))
             /\ s = ResolveSettings(w, LoadFile(w))
             /\ SettingsAre(w, LoadFile(w), s)
             /\ IsSecure(s.url)
             /\ OriginOf(s.url) # NoOrigin
<1> DEFINE file == LoadFile(w)
           s == ResolveSettings(w, file)
           usable == UsableOrigin(s.url)
<1>1. ~Failed(file) /\ ResolveInstance(w) = UsableSettings(s)
  BY DEF ResolveInstance, InstanceOf
<1> HIDE DEF file, s
<1>2. ~Failed(s) /\ ~Failed(usable) /\ UsableSettings(s) = s
  <2>1. CASE Failed(s)
    BY <1>1, <2>1 DEF UsableSettings
  <2>2. CASE ~Failed(s) /\ Failed(usable)
    BY <1>1, <2>2 DEF UsableSettings
  <2> QED BY <2>1, <2>2 DEF UsableSettings
<1>3. ValidBaseUrl(s.url) /\ IsSecure(s.url)
  BY <1>2 DEF UsableOrigin, Failed, Error
<1>4. OriginOf(s.url) # NoOrigin
  BY <1>3 DEF OriginOf, NoOrigin
<1>5. SettingsAre(w, file, s)
  BY <1>1, <1>2, SettledSettings DEF file, s
<1> QED BY <1>1, <1>2, <1>3, <1>4, <1>5 DEF file, s

(* What the resolution of a credential finds: a session of the entry, a key  *)
(* of it or one of the environment, each only past the binding and the gate. *)
LEMMA ResolvedCredential ==
  ASSUME NEW w, IsWorld(w), NEW s,
         ~Failed(ResolveCredential(w, s))
  PROVE  LET entry == StoredEntry(w, ProfileKey(s))
             found == ResolveCredential(w, s)
         IN  /\ found.available = Ordered(entry, found.from)
             /\ CheckBinding(entry, OriginOf(s.url))
             /\ \/ /\ found.from = "session" /\ found.owner = ProfileKey(s)
                   /\ entry.session # NoOrigin
                \/ /\ found.from = "stored" /\ found.owner = ProfileKey(s)
                   /\ entry.key
                \/ /\ found.from = "environment" /\ ~Failed(CheckCredentialBinding(s))
                   /\ found.owner = IF s.profile = "none" THEN "" ELSE VarOf[s.profile]
                   /\ found.owner # "none"
<1> DEFINE entry == StoredEntry(w, ProfileKey(s))
           found == ResolveCredential(w, s)
           released == ReleaseCredential(w, s, entry.key)
<1>1. CheckBinding(entry, OriginOf(s.url))
  BY DEF ResolveCredential, Failed, Error
<1>2. CASE entry.session # NoOrigin
  <2>1. found = [from |-> "session", owner |-> ProfileKey(s), available |-> Ordered(entry, "session")]
    BY <1>1, <1>2 DEF ResolveCredential, Failed
  <2> QED BY <1>1, <1>2, <2>1
<1>3. CASE entry.session = NoOrigin
  <2>1. /\ ~Failed(released)
        /\ found = [from |-> released.from, owner |-> released.owner,
                    available |-> Ordered(entry, released.from)]
    <3> HIDE DEF released
    <3>1. released = ReleaseCredential(w, s, entry.key)
      BY DEF released
    <3>2. found = IF Failed(released) THEN released
                  ELSE [from |-> released.from, owner |-> released.owner,
                        available |-> Ordered(entry, released.from)]
      BY <1>1, <1>3, <3>1 DEF ResolveCredential
    <3> QED BY <3>2
  <2>2. ~Failed(CheckCredentialBinding(s))
    BY <2>1 DEF ReleaseCredential
  <2>0. released = ReleaseCredential(w, s, entry.key)
    OBVIOUS
  <2> HIDE DEF released, found
  <2>3. CASE SelectSource(s, entry.key) = "environment"
    <3>1. released = FetchEnvKey(w, s)
      BY <2>0, <2>2, <2>3 DEF ReleaseCredential
    <3> DEFINE suffix == IF s.profile = "none" THEN "" ELSE VarOf[s.profile]
    <3>2. released = [from |-> "environment", owner |-> suffix] /\ suffix # "none"
      BY <2>1, <3>1, FoundEnvKey
    <3>3. suffix = IF s.profile = "none" THEN "" ELSE VarOf[s.profile]
      OBVIOUS
    <3> HIDE DEF suffix
    <3>4. /\ found.from = "environment" /\ found.owner = suffix
          /\ found.available = Ordered(entry, found.from)
      BY <2>1, <3>2
    <3> QED BY <1>1, <2>2, <3>2, <3>3, <3>4 DEF found
  <2>4. CASE SelectSource(s, entry.key) # "environment"
    <3>1. released = FetchStoredKey(s, entry.key)
      BY <2>0, <2>2, <2>4 DEF ReleaseCredential
    <3>2. released = [from |-> "stored", owner |-> ProfileKey(s)] /\ entry.key
      BY <2>1, <3>1, FoundStoredKey
    <3> QED BY <1>1, <2>1, <3>2 DEF found
  <2> QED BY <2>3, <2>4
<1> QED BY <1>2, <1>3

(* A credential that was resolved belongs to the instance it is for.         *)
LEMMA ResolvedBelongs ==
  ASSUME NEW w, IsWorld(w), ~Failed(LoadFile(w)),
         NEW s, SettingsAre(w, LoadFile(w), s), OriginOf(s.url) # NoOrigin,
         ~Failed(ResolveCredential(w, s))
  PROVE  BelongsTo(w, ResolveCredential(w, s), OriginOf(s.url))
<1> DEFINE entry == StoredEntry(w, ProfileKey(s))
           found == ResolveCredential(w, s)
           file == LoadFile(w)
           owners == {p \in DOMAIN file.profiles : VarOf[p] = found.owner}
<1>1. CheckBinding(entry, OriginOf(s.url))
  BY ResolvedCredential
<1>2. entry.key \in BOOLEAN
  BY StoredEntries DEF CredentialEntries
<1>3. CASE found.from = "session"
  <2>1. found.owner = ProfileKey(s) /\ entry.session # NoOrigin
    BY <1>3, ResolvedCredential
  <2>2. entry.session = OriginOf(s.url)
    BY <1>1, <1>2, <2>1 DEF CheckBinding, HasAuthenticator
  <2> QED BY <1>3, <2>1, <2>2 DEF BelongsTo
<1>4. CASE found.from = "stored"
  <2>1. found.owner = ProfileKey(s) /\ entry.key
    BY <1>4, ResolvedCredential
  <2>2. entry.origin = OriginOf(s.url)
    BY <1>1, <1>2, <2>1 DEF CheckBinding, HasAuthenticator
  <2> QED BY <1>4, <2>1, <2>2 DEF BelongsTo
<1>5. CASE found.from = "environment"
  <2>1. /\ ~Failed(CheckCredentialBinding(s))
        /\ found.owner = IF s.profile = "none" THEN "" ELSE VarOf[s.profile]
        /\ found.owner # "none"
    BY <1>5, ResolvedCredential
  <2>2. CASE s.profile = "none"
    <3>1. found.owner = ""
      BY <2>1, <2>2
    <3>2. ResolveProfileName(w, file) = "none"
      BY <2>2 DEF SettingsAre
    <3>3. {w.flag.profile, w.env.profile, file.default} \subseteq {"none", "blank"}
      BY <3>2 DEF ResolveProfileName, FirstOf, NonBlank, EnvLayer
    <3> QED BY <1>5, <3>1, <3>3 DEF BelongsTo
  <2>3. CASE s.profile # "none"
    <3>1. s.profile \in DOMAIN file.profiles /\ ~AmbiguousVar(s.profile, file)
      BY <2>3 DEF SettingsAre
    <3>2. s.profile \in Profiles
      BY <3>1, LoadedFile
    <3>3. found.owner = VarOf[s.profile] /\ found.owner # ""
      BY <2>1, <2>3, <3>2, SettingsAssumption
    <3>4. owners = {s.profile}
      BY <2>1, <3>1, <3>3, OneOwner
    <3>5. Cardinality(owners) = 1
      BY <3>4, FS_Singleton
    <3>6. \/ Present(w.flag.url)
          \/ /\ Present(file.profiles[s.profile].url)
             /\ OriginOf(file.profiles[s.profile].url) = OriginOf(s.url)
      BY <2>1, <2>3, GatedOrigin
    <3> QED BY <1>5, <3>3, <3>4, <3>5, <3>6 DEF BelongsTo, Present
  <2> QED BY <2>2, <2>3
<1> QED BY <1>3, <1>4, <1>5, ResolvedCredential

(* Whatever the command line, the environment, the config file and the       *)
(* credential file say, a credential is sent only to the instance it belongs *)
(* to (resolve_credential, release_token, active_profile).                   *)
THEOREM KeysStayHomeForAll ==
  ASSUME NEW w, IsWorld(w)
  PROVE  KeysStayHome(w)
<1> SUFFICES ASSUME NEW client, client = OpenClient(w), ~Failed(client)
             PROVE  LET listed == client.credential.available
                    IN  /\ \E u \in DOMAIN Urls : IsSecure(u) /\ OriginOf(u) = client.to
                        /\ BelongsTo(w, client.credential, client.to)
                        /\ listed[1] = client.credential.from
                        /\ Cardinality({listed[k] : k \in DOMAIN listed}) = Len(listed)
                        /\ ActiveProfile(w).profile = client.profile
  BY DEF KeysStayHome
<1> DEFINE s == ResolveInstance(w)
           found == ResolveCredential(w, s)
           entry == StoredEntry(w, ProfileKey(s))
<1>1. ~Failed(s) /\ client = ClientWith(s, found)
  <2> HIDE DEF s
  <2>1. client = ClientFor(w, s)
    BY DEF OpenClient, s
  <2>2. CASE Failed(s)
    BY <2>1, <2>2 DEF ClientFor
  <2>3. CASE ~Failed(s) /\ Failed(LoadStore(w))
    BY <2>1, <2>3 DEF ClientFor
  <2>4. CASE ~Failed(s) /\ ~Failed(LoadStore(w))
    BY <2>1, <2>4 DEF ClientFor
  <2> QED BY <2>2, <2>3, <2>4
<1>2. /\ ~Failed(LoadFile(w))
      /\ s = ResolveSettings(w, LoadFile(w))
      /\ SettingsAre(w, LoadFile(w), s)
      /\ IsSecure(s.url)
      /\ OriginOf(s.url) # NoOrigin
  BY <1>1, UsableInstance
<1> HIDE DEF s
<1>3. /\ ~Failed(found)
      /\ client = [to |-> OriginOf(s.url), credential |-> found,
                   profile |-> ProfileKey(s), settings |-> s]
  BY <1>1 DEF ClientWith
<1>4. \E u \in DOMAIN Urls : IsSecure(u) /\ OriginOf(u) = client.to
  BY <1>2, <1>3 DEF SettingsAre
<1>5. BelongsTo(w, client.credential, client.to)
  BY <1>2, <1>3, ResolvedBelongs
<1>6. /\ client.credential.available = Ordered(entry, client.credential.from)
      /\ client.credential.from \in Sources
  <2>1. ~Failed(found) /\ client.credential = found
    BY <1>3
  <2>2. found.available = Ordered(entry, found.from) /\ found.from \in Sources
    BY <2>1, ResolvedCredential DEF Sources
  <2> QED BY <2>1, <2>2
<1>7. entry.key \in BOOLEAN
  BY StoredEntries DEF CredentialEntries
<1>8. ActiveProfile(w).profile = client.profile
  BY <1>2, <1>3 DEF ActiveProfile, SettingsAre, ProfileKey
<1> QED BY <1>4, <1>5, <1>6, <1>7, <1>8, ListedOnce

-----------------------------------------------------------------------------
(* An address and its canonical form: the same as that of another exactly    *)
(* when the two differ in no more than spelling.                            *)
LEMMA SameIssuer ==
  ASSUME NEW a \in Addresses_, NEW b \in Addresses_, b.parses, ~b.extra
  PROVE  CanonicalIssuer(a) = CanonicalIssuer(b) <=> SameAddress(a, b)
<1>1. CanonicalIssuer(b) = [b EXCEPT !.plain = TRUE, !.slashes = IF ParsedSlashes(b) = 0 THEN 0 ELSE ParsedSlashes(b) - 1]
  BY DEF CanonicalIssuer, ParsedSlashes
<1>2. CASE ~a.parses
  <2>1. "error" \in DOMAIN CanonicalIssuer(a) /\ "error" \notin DOMAIN CanonicalIssuer(b)
    BY <1>1, <1>2 DEF CanonicalIssuer, Refusal, Addresses_
  <2> QED BY <1>2, <2>1 DEF SameAddress
<1>3. CASE a.parses
  <2> DEFINE x == CanonicalIssuer(a)
             y == CanonicalIssuer(b)
             slashes(u) == IF u.extra \/ ParsedSlashes(u) = 0 THEN ParsedSlashes(u) ELSE ParsedSlashes(u) - 1
  <2>1. /\ x = [a EXCEPT !.plain = TRUE, !.slashes = slashes(a)]
        /\ y = [b EXCEPT !.plain = TRUE, !.slashes = slashes(b)]
    BY <1>3 DEF CanonicalIssuer
  <2>2. slashes(a) \in Nat /\ slashes(b) \in Nat
    <3>1. a.slashes \in Nat /\ b.slashes \in Nat
      BY DEF Addresses_
    <3>2. ParsedSlashes(a) \in Nat /\ ParsedSlashes(b) \in Nat
      BY <3>1 DEF ParsedSlashes
    <3> QED BY <3>2
  <2>0. /\ slashes(a) = IF a.extra \/ ParsedSlashes(a) = 0 THEN ParsedSlashes(a) ELSE ParsedSlashes(a) - 1
        /\ slashes(b) = IF b.extra \/ ParsedSlashes(b) = 0 THEN ParsedSlashes(b) ELSE ParsedSlashes(b) - 1
    OBVIOUS
  <2> HIDE DEF slashes
  <2>3. x \in Addresses_ /\ y \in Addresses_
    BY <2>1, <2>2 DEF Addresses_
  <2>4. /\ x.parses = TRUE /\ x.scheme = a.scheme /\ x.host = a.host /\ x.tenant = a.tenant
        /\ x.slashes = slashes(a) /\ x.extra = a.extra /\ x.plain = TRUE
        /\ y.parses = TRUE /\ y.scheme = b.scheme /\ y.host = b.host /\ y.tenant = b.tenant
        /\ y.slashes = slashes(b) /\ y.extra = b.extra /\ y.plain = TRUE
    BY <1>3, <2>1, <2>2 DEF Addresses_
  <2> HIDE DEF x, y
  <2>5. x = y <=> /\ a.scheme = b.scheme /\ a.host = b.host /\ a.tenant = b.tenant
                  /\ slashes(a) = slashes(b) /\ a.extra = b.extra
    BY <2>3, <2>4 DEF Addresses_
  <2>6. ASSUME a.extra = b.extra, a.tenant = b.tenant
        PROVE  slashes(a) = slashes(b) <=> a.slashes = b.slashes \/ {a.slashes, b.slashes} \subseteq {0, 1}
    <3>1. a.slashes \in Nat /\ b.slashes \in Nat /\ ~a.extra /\ ~b.extra
      BY <2>6 DEF Addresses_
    <3> DEFINE bare == a.tenant = ""
    <3>2. /\ ParsedSlashes(a) = IF bare /\ a.slashes = 0 THEN 1 ELSE a.slashes
          /\ ParsedSlashes(b) = IF bare /\ b.slashes = 0 THEN 1 ELSE b.slashes
      BY <2>6 DEF ParsedSlashes
    <3>3. /\ slashes(a) = IF a.slashes \in {0, 1} THEN 0 ELSE a.slashes - 1
          /\ slashes(b) = IF b.slashes \in {0, 1} THEN 0 ELSE b.slashes - 1
      <4> HIDE DEF bare, slashes
      <4>1. \A n \in Nat : n \in {0, 1} \/ n > 1
        OBVIOUS
      <4>2. CASE bare
        BY <2>0, <3>1, <3>2, <4>1, <4>2
      <4>3. CASE ~bare
        BY <2>0, <3>1, <3>2, <4>1, <4>3
      <4> QED BY <4>2, <4>3
    <3> HIDE DEF slashes
    <3> QED BY <3>1, <3>3
  <2>7. <<a.scheme, a.host, a.tenant>> = <<b.scheme, b.host, b.tenant>>
          <=> a.scheme = b.scheme /\ a.host = b.host /\ a.tenant = b.tenant
    OBVIOUS
  <2> QED BY <1>3, <2>5, <2>6, <2>7 DEF SameAddress, x, y
<1> QED BY <1>2, <1>3

(* An endpoint is taken exactly when it is usable where it will be used.     *)
LEMMA EndpointTaken ==
  ASSUME NEW u, NEW here
  PROVE  /\ ~IsRefusal(UsableEndpoint(u, here)) <=> StoredEndpointUsable(u, here)
         /\ ~IsRefusal(UsableEndpoint(u, here)) => UsableEndpoint(u, here) = Field_("text", u)
BY DEF UsableEndpoint, IsRefusal, StoredEndpointUsable, Refusal, Field_

(* What is taken of one field of a document.                                 *)
TakenFor(document, here, i) ==
  IF i <= 2 THEN Required(document, Endpoints[i], here) ELSE Optional(document, Endpoints[i], here)
LEMMA FieldTaken ==
  ASSUME NEW document, NEW here, NEW i \in 1 .. 4,
         \A field \in DOMAIN document :
           Has(document, field) => document[field].address \in Addresses_
             /\ document[field] = Field_("text", document[field].address)
  PROVE  LET taken == TakenFor(document, here, i)
             usable == StoredEndpointUsable(document[Endpoints[i]].address, here)
         IN  /\ ~IsRefusal(taken) <=> IF Has(document, Endpoints[i]) THEN usable ELSE i > 2
             /\ ~IsRefusal(taken) /\ taken.is = "text" => StoredEndpointUsable(taken.address, here)
<1> DEFINE field == Endpoints[i]
           taken == TakenFor(document, here, i)
<1>1. CASE Has(document, field)
  <2>1. taken = UsableEndpoint(document[field].address, here)
    <3>1. ~IsRefusal(document[field])
      <4>1. field \in DOMAIN document
        BY <1>1 DEF Has
      <4>2. document[field] = Field_("text", document[field].address)
        BY <1>1, <4>1
      <4> QED BY <4>2 DEF IsRefusal, Field_
    <3> QED BY <1>1, <3>1 DEF TakenFor, Required, RequireStr, Optional
  <2>2. taken = UsableEndpoint(document[field].address, here)
          /\ (~IsRefusal(taken) => taken = Field_("text", document[field].address))
    BY <2>1, EndpointTaken
  <2>3. ~IsRefusal(taken) <=> StoredEndpointUsable(document[field].address, here)
    BY <2>1, EndpointTaken
  <2> HIDE DEF taken
  <2>4. ~IsRefusal(taken) => taken.address = document[field].address
    BY <2>2 DEF Field_
  <2> QED BY <1>1, <2>3, <2>4 DEF taken
<1>2. CASE ~Has(document, field)
  <2>1. taken = IF i <= 2 THEN Refusal("Malformed") ELSE Field_("absent", <<>>)
    BY <1>2 DEF TakenFor, Required, RequireStr, Optional, IsRefusal, Refusal
  <2>2. i <= 2 => IsRefusal(taken)
    BY <2>1 DEF IsRefusal, Refusal
  <2>3. i > 2 => ~IsRefusal(taken) /\ taken.is = "absent"
    BY <2>1 DEF IsRefusal, Field_
  <2> QED BY <1>2, <2>2, <2>3
<1> QED BY <1>1, <1>2

(* What a document yields.                                                   *)
LEMMA Built ==
  ASSUME NEW document, NEW expected, NEW here,
         \A field \in DOMAIN document :
           Has(document, field) => document[field].address \in Addresses_
             /\ document[field] = Field_("text", document[field].address)
  PROVE  LET built == Build(document, expected, here)
             issuer == RequireIssuer(document, expected)
         IN  /\ ~IsRefusal(built) <=> ~IsRefusal(issuer) /\ \A i \in 1 .. 4 : ~IsRefusal(TakenFor(document, here, i))
             /\ ~IsRefusal(built) => \A i \in 1 .. 4 : built.endpoints[i] = TakenFor(document, here, i)
<1> DEFINE built == Build(document, expected, here)
           issuer == RequireIssuer(document, expected)
           bad == {i \in 1 .. 4 : IsRefusal(TakenFor(document, here, i))}
           first == CHOOSE i \in bad : \A j \in bad : i <= j
<1>1. built = IF IsRefusal(issuer) THEN issuer
              ELSE IF bad # {} THEN TakenFor(document, here, first)
              ELSE [issuer |-> issuer.address, endpoints |-> [i \in 1 .. 4 |-> TakenFor(document, here, i)]]
  BY DEF Build, TakenFor
<1>2. bad # {} => first \in bad
  <2>1. ASSUME bad # {} PROVE \E i \in bad : \A j \in bad : i <= j
    <3>1. CASE 1 \in bad
      BY <3>1
    <3>2. CASE 1 \notin bad /\ 2 \in bad
      BY <3>2
    <3>3. CASE 1 \notin bad /\ 2 \notin bad /\ 3 \in bad
      BY <3>3
    <3>4. CASE 1 \notin bad /\ 2 \notin bad /\ 3 \notin bad /\ 4 \in bad
      BY <3>4
    <3>5. 1 \in bad \/ 2 \in bad \/ 3 \in bad \/ 4 \in bad
      BY <2>1
    <3> QED BY <3>1, <3>2, <3>3, <3>4, <3>5
  <2> QED BY <2>1
<1> HIDE DEF issuer, first, built
<1>3. CASE IsRefusal(issuer)
  BY <1>1, <1>3 DEF built, issuer
<1>4. CASE ~IsRefusal(issuer) /\ bad # {}
  <2>1. built = TakenFor(document, here, first) /\ first \in bad
    BY <1>1, <1>2, <1>4
  <2> QED BY <1>4, <2>1 DEF built, issuer
<1>5. CASE ~IsRefusal(issuer) /\ bad = {}
  <2>1. built = [issuer |-> issuer.address, endpoints |-> [i \in 1 .. 4 |-> TakenFor(document, here, i)]]
    BY <1>1, <1>5
  <2>2. ~IsRefusal(built) /\ \A i \in 1 .. 4 : built.endpoints[i] = TakenFor(document, here, i)
    BY <2>1 DEF IsRefusal
  <2> QED BY <1>5, <2>2 DEF built, issuer
<1> QED BY <1>3, <1>4, <1>5

(* A login goes on with a document exactly when it arrived whole and is      *)
(* about this instance, whatever a server answers (metadata.rs discover).    *)
THEOREM DiscoveryStaysHomeForAll ==
  ASSUME NEW base \in Addresses_, ValidAddress(base), NEW response, IsAnswer(response)
  PROVE  DiscoveryStaysHome(base, response)
<1> DEFINE answer == GetJson(response)
           here == PlaceOf(base)
           document == response.document
           found == Discover(base, response)
           expected == CanonicalIssuer(base)
           whole == /\ response.sent = "whole" /\ response.bytes <= MaxResponseBytes
                    /\ response.status = 200 /\ response.text = "JSON"
<1>1. here = <<base.scheme, base.host>> /\ base.parses /\ ~base.extra
  BY DEF PlaceOf, ValidAddress
<1>2. CASE ~SecureAddress(base)
  <2>1. IsRefusal(found)
    BY <1>2 DEF Discover, IsRefusal, Refusal
  <2>2. ~AboutThisInstance(base, document)
    <3> SUFFICES ASSUME AboutThisInstance(base, document) PROVE FALSE
      OBVIOUS
    <3> DEFINE u == document[Endpoints[1]].address
    <3>1. SecureAddress(u) /\ PlaceOf(u) = here
      <4>1. Has(document, Endpoints[1]) /\ StoredEndpointUsable(u, here)
        BY DEF AboutThisInstance
      <4> QED BY <4>1 DEF StoredEndpointUsable
    <3>2. <<u.scheme, u.host>> = <<base.scheme, base.host>>
      BY <1>1, <3>1 DEF PlaceOf, NoPlace
    <3> QED BY <1>1, <1>2, <3>1, <3>2 DEF SecureAddress
  <2> QED BY <2>1, <2>2 DEF DiscoveryStaysHome
<1>3. CASE SecureAddress(base) /\ ~whole
  <2>1. IsRefusal(found)
    <3>1. CASE response.text = "empty" /\ ~IsRefusal(answer)
      <4>1. answer = [document |-> <<>>]
        BY <3>1 DEF GetJson, IsRefusal, Refusal
      <4>2. found = Build(<<>>, expected, here)
        BY <1>3, <3>1, <4>1 DEF Discover
      <4>3. RequireIssuer(<<>>, expected) = Refusal("IssuerMismatch")
        BY DEF RequireIssuer, Has
      <4>4. found = Refusal("IssuerMismatch")
        BY <4>2, <4>3 DEF Build, IsRefusal, Refusal
      <4> QED BY <4>4 DEF IsRefusal, Refusal
    <3>2. CASE IsRefusal(answer)
      BY <1>3, <3>2 DEF Discover
    <3>3. CASE response.text # "empty" /\ ~IsRefusal(answer)
      <4>1. /\ response.sent = "whole" /\ ~(response.bytes > MaxResponseBytes)
            /\ response.status = 200 /\ response.text # "unreadable"
        BY <3>3 DEF GetJson, IsRefusal, Refusal
      <4>2. whole
        BY <3>3, <4>1, DiscoveryAssumption DEF IsAnswer
      <4> QED BY <1>3, <4>2
    <3> QED BY <3>1, <3>2, <3>3
  <2> QED BY <1>3, <2>1 DEF DiscoveryStaysHome
<1>4. CASE SecureAddress(base) /\ whole
  <2>1. answer = [document |-> document]
    BY <1>4, DiscoveryAssumption DEF GetJson, IsAnswer
  <2>2. found = Build(document, expected, here)
    BY <1>4, <2>1 DEF Discover, IsRefusal
  <2>3. \A field \in DOMAIN document :
          Has(document, field) => document[field].address \in Addresses_
            /\ document[field] = Field_("text", document[field].address)
    BY <1>4 DEF IsAnswer
  <2>4. ~IsRefusal(RequireIssuer(document, expected))
          <=> Has(document, "issuer") /\ SameAddress(document["issuer"].address, base)
    <3>1. CASE Has(document, "issuer")
      <4>1. document["issuer"].address \in Addresses_
            /\ document["issuer"] = Field_("text", document["issuer"].address)
        BY <2>3, <3>1 DEF Has
      <4>2. ~IsRefusal(document["issuer"])
        BY <4>1 DEF IsRefusal, Field_
      <4>3. CanonicalIssuer(document["issuer"].address) = expected
              <=> SameAddress(document["issuer"].address, base)
        BY <1>1, <4>1, SameIssuer
      <4>4. IsRefusal(Refusal("IssuerMismatch"))
        BY DEF IsRefusal, Refusal
      <4> QED BY <3>1, <4>2, <4>3, <4>4 DEF RequireIssuer
    <3>2. CASE ~Has(document, "issuer")
      BY <3>2 DEF RequireIssuer, IsRefusal, Refusal
    <3> QED BY <3>1, <3>2
  <2>5. \A i \in 1 .. 4 :
          /\ ~IsRefusal(TakenFor(document, here, i))
               <=> IF Has(document, Endpoints[i])
                   THEN StoredEndpointUsable(document[Endpoints[i]].address, here) ELSE i > 2
          /\ ~IsRefusal(TakenFor(document, here, i)) /\ TakenFor(document, here, i).is = "text"
               => StoredEndpointUsable(TakenFor(document, here, i).address, here)
    BY <2>3, FieldTaken
  <2>6. /\ ~IsRefusal(found) <=> /\ ~IsRefusal(RequireIssuer(document, expected))
                                 /\ \A i \in 1 .. 4 : ~IsRefusal(TakenFor(document, here, i))
        /\ ~IsRefusal(found) => \A i \in 1 .. 4 : found.endpoints[i] = TakenFor(document, here, i)
    BY <2>2, <2>3, Built
  <2>7. AboutThisInstance(base, document) <=>
          /\ Has(document, "issuer") /\ SameAddress(document["issuer"].address, base)
          /\ \A i \in 1 .. 4 : IF Has(document, Endpoints[i])
                              THEN StoredEndpointUsable(document[Endpoints[i]].address, here) ELSE i > 2
    BY DEF AboutThisInstance
  <2>8. ~IsRefusal(found) <=> AboutThisInstance(base, document)
    BY <2>4, <2>5, <2>6, <2>7
  <2>9. ~IsRefusal(found) => \A i \in 1 .. 4 : found.endpoints[i].is = "text" =>
                              StoredEndpointUsable(found.endpoints[i].address, here)
    BY <2>5, <2>6
  <2> QED BY <1>4, <2>8, <2>9 DEF DiscoveryStaysHome
<1> QED BY <1>2, <1>3, <1>4

-----------------------------------------------------------------------------
(* No failure has the code of a success.                                     *)
LEMMA FailuresFail ==
  ASSUME NEW e
  PROVE  ExitCodeOf(e) # Success /\ MapAuthError(e).code = ExitCodeOf(e)
<1>1. \A status : StatusExitCode(status) # Success /\ EndpointExitCode(status) # Success
  BY DEF StatusExitCode, EndpointExitCode, Success, Failure, ApiRequest, Auth, NotFound, Server, RateLimited
<1>2. EngineExitCode(e) # Success /\ OAuthExitCode(e) # Success
  BY <1>1 DEF EngineExitCode, OAuthExitCode, Success, Failure, Usage, Auth, Network, RateLimited
<1>3. ExitCodeOf(e) # Success
  BY <1>2 DEF ExitCodeOf, Success, Usage
<1>4. MapAuthError(e).code = ExitCodeOf(e)
  BY DEF MapAuthError, ExitCodeOf
<1> QED BY <1>3, <1>4

(* An address that nothing would be fetched from is the only failure of a    *)
(* fetch that is the user's own.                                            *)
LEMMA FetchFailures ==
  ASSUME NEW e
  PROVE  FetchExitCode(e) = Usage <=> e.kind = "InvalidUrl"
<1>1. \A status : StatusExitCode(status) # Usage
  BY DEF StatusExitCode, Failure, Usage, ApiRequest, Auth, NotFound, Server
<1> QED BY <1>1 DEF FetchExitCode, Usage, Failure, Network, RateLimited

(* A check is a problem only where a problem is named.                       *)
LEMMA CheckStatus ==
  ASSUME NEW key, NEW status, NEW code, NEW error
  PROVE  /\ Check(key, status).status = status
         /\ Problem(key, code).status = "problem" /\ Problem(key, code).code = code
         /\ ProblemOf(key, error).status = "problem"
         /\ ProblemOf(key, error).code = ExitCodeOf(Wrapped(error))
BY DEF Check, Problem, ProblemOf

(* The first problem of a report gives its code.                             *)
LEMMA FirstProblem ==
  ASSUME NEW report, DOMAIN report = 1 .. 8, NEW k \in 1 .. 8,
         report[k].status = "problem",
         \A j \in 1 .. 8 : j < k => report[j].status # "problem"
  PROVE  Problems(report) # {} /\ ReportExitCode(report) = report[k].code
<1> DEFINE first == CHOOSE i \in Problems(report) : \A other \in Problems(report) : i <= other
<1>1. k \in Problems(report) /\ \A other \in Problems(report) : k <= other
  BY DEF Problems
<1>2. first \in Problems(report) /\ \A other \in Problems(report) : first <= other
  BY <1>1
<1>3. first = k
  BY <1>1, <1>2 DEF Problems
<1> QED BY <1>1, <1>3 DEF ReportExitCode

(* A report without a problem.                                               *)
LEMMA NoProblem ==
  ASSUME NEW report, DOMAIN report = 1 .. 8,
         \A j \in 1 .. 8 : report[j].status # "problem"
  PROVE  Problems(report) = {} /\ ReportExitCode(report) = Success
BY DEF Problems, ReportExitCode

(* The eight checks of a report.                                             *)
LEMMA EightChecks ==
  ASSUME NEW w, NEW chosen
  PROVE  LET report == Examination(w, chosen)
         IN  /\ DOMAIN report = 1 .. 8
             /\ report[1] = Configuration(w) /\ report[2] = InstanceCheck(w)
             /\ report[3] = Credentials(w) /\ report[4] = CredentialCheck(chosen)
             /\ report[5] = Connectivity(w, chosen) /\ report[6] = LocalSpec(w)
             /\ report[7] = OnlineSpec(w) /\ report[8] = SkillCheck(w)
BY DEF Examination

(* The checks that say nothing of a command are never the cause of a code,   *)
(* but for an address of the document host that the user got wrong.          *)
LEMMA SideChecks ==
  ASSUME NEW w, w.offline \in BOOLEAN
  PROVE  /\ LocalSpec(w).status # "problem" /\ SkillCheck(w).status # "problem"
         /\ w.offline \/ w.host.answer # "InvalidUrl" => OnlineSpec(w).status # "problem"
<1>0. \A key, status : Check(key, status).status = status
  BY CheckStatus
<1>1. LocalSpec(w).status # "problem"
  BY <1>0 DEF LocalSpec
<1>2. SkillCheck(w).status # "problem"
  BY <1>0 DEF SkillCheck
<1>3. ASSUME w.offline \/ w.host.answer # "InvalidUrl"
      PROVE  OnlineSpec(w).status # "problem"
  <2>1. CASE w.offline
    BY <1>0, <2>1 DEF OnlineSpec
  <2>2. CASE ~w.offline /\ w.host.answer = "document"
    <3>1. OnlineSpec(w) = CompareSpecs(w)
      BY <2>2 DEF OnlineSpec
    <3> QED BY <1>0, <3>1 DEF CompareSpecs
  <2>3. CASE ~w.offline /\ w.host.answer # "document"
    <3> DEFINE e == FailureOf("fetch", w.host.answer, w.host.status)
    <3>1. e.kind = w.host.answer
      BY DEF FailureOf
    <3>2. OnlineSpec(w) = DocumentUnread(e)
      BY <2>3 DEF OnlineSpec
    <3> HIDE DEF e
    <3>3. FetchExitCode(e) # Usage
      BY <1>3, <2>3, <3>1, FetchFailures
    <3>4. DocumentUnread(e) = Check("online-spec", "warn")
      BY <3>3 DEF DocumentUnread
    <3> QED BY <1>0, <3>2, <3>4
  <2> QED BY <2>1, <2>2, <2>3
<1> QED BY <1>1, <1>2, <1>3

(* A failure of the settings or the store has the code of a usage error.     *)
LEMMA UsageFailures ==
  ASSUME NEW e \in {"ConfigFileUnreadable", "MalformedConfigFile", "CredentialInConfigFile",
                    "NoConfigDir", "UnusableStore", "MissingApiKey"}
  PROVE  ExitCodeOf(Wrapped(e)) = Usage
<1>1. Wrapped(e) = FailureOf("config", e, 0) \/ Wrapped(e) = FailureOf("store", e, 0)
  BY DEF Wrapped, ConfigErrors
<1>2. /\ ExitCodeOf(FailureOf("config", e, 0)) = Usage
      /\ ExitCodeOf(FailureOf("store", e, 0)) = Usage
  BY DEF ExitCodeOf, FailureOf
<1> QED BY <1>1, <1>2

(* A document that would be fetched from no address is a problem.           *)
LEMMA UnreadDocument ==
  ASSUME NEW w, ~w.offline, w.host.answer = "InvalidUrl"
  PROVE  OnlineSpec(w).status = "problem" /\ OnlineSpec(w).code = Usage
<1> DEFINE e == FailureOf("fetch", w.host.answer, w.host.status)
<1>1. e.kind = "InvalidUrl"
  BY DEF FailureOf
<1>2. OnlineSpec(w) = DocumentUnread(e)
  BY DEF OnlineSpec
<1> HIDE DEF e
<1>3. OnlineSpec(w) = Problem("online-spec", Usage)
  BY <1>1, <1>2 DEF DocumentUnread, FetchExitCode
<1> QED BY <1>3, CheckStatus

(* What can be wrong with a config file.                                     *)
FileFaults == {"ConfigFileUnreadable", "MalformedConfigFile", "CredentialInConfigFile"}
LEMMA FileErrors ==
  ASSUME NEW w, Failed(LoadFile(w))
  PROVE  LoadFile(w).error \in FileFaults
<1>1. ASSUME NEW raw, Failed(ParseConfig(raw)) PROVE ParseConfig(raw).error \in FileFaults
  BY <1>1 DEF ParseConfig, Failed, Error, FileFaults
<1>2. ~Failed(NoConfig)
  BY DEF NoConfig, Failed
<1>3. Error("ConfigFileUnreadable").error \in FileFaults
  BY DEF Error, FileFaults
<1> DEFINE found == ReadCapped(w.files[Locate(w).path])
<1>4. \/ LoadFile(w) = NoConfig \/ LoadFile(w) = Error("ConfigFileUnreadable")
      \/ LoadFile(w) = ParseConfig(found)
  BY DEF LoadFile, LoadFrom
<1> HIDE DEF found
<1> QED BY <1>1, <1>2, <1>3, <1>4

(* The check of the credential file finds what a command would stumble over. *)
LEMMA StoreCheck ==
  ASSUME NEW w, IsWorld(w), w.private \in BOOLEAN
  PROVE  /\ Failed(LoadStore(w)) => /\ Credentials(w).status = "problem" /\ Credentials(w).code = Usage
                                   /\ LoadStore(w).error \in {"NoConfigDir", "UnusableStore"}
         /\ ~Failed(LoadStore(w)) => /\ Credentials(w).status # "problem"
                                    /\ w.store.at # "nowhere"
<1> DEFINE health == CredentialHealth(w)
<1>1. /\ health.permissions = Permissions(w)
      /\ health.readable = (Permissions(w) = "missing" \/ ~Failed(LoadStore(w)))
      /\ health.directory = w.private
  BY DEF CredentialHealth
<1>2. /\ \A code : /\ Problem("credentials", code).status = "problem"
                  /\ Problem("credentials", code).code = code
      /\ \A status : Check("credentials", status).status = status
  BY CheckStatus
<1>3. CASE w.store.at = "nowhere"
  <2>1. LoadStore(w) = Error("NoConfigDir") /\ Credentials(w) = Problem("credentials", Usage)
    BY <1>3 DEF LoadStore, Credentials
  <2>2. Failed(Error("NoConfigDir")) /\ Error("NoConfigDir").error = "NoConfigDir"
    BY DEF Failed, Error
  <2> QED BY <1>2, <2>1, <2>2
<1>4. CASE w.store.at # "nowhere" /\ w.store.at \in StoreFaults
  <2>1. LoadStore(w) = Error("UnusableStore")
    BY <1>4 DEF LoadStore
  <2>2. Failed(LoadStore(w)) /\ LoadStore(w).error = "UnusableStore"
    BY <2>1 DEF Failed, Error
  <2>3. Permissions(w) # "missing"
    BY <1>4 DEF Permissions, StoreFaults
  <2>4. Credentials(w) = Grade(health)
    BY <1>4 DEF Credentials
  <2> HIDE DEF health
  <2>5. ~health.readable
    BY <1>1, <2>2, <2>3
  <2>6. Grade(health) = Problem("credentials", Usage)
    BY <2>5 DEF Grade, FileIsUsable
  <2> QED BY <1>2, <2>2, <2>4, <2>6
<1>5. CASE w.store.at # "nowhere" /\ w.store.at \notin StoreFaults
  <2>0. ~Failed(w.store)
    BY DEF IsWorld, IsStore, Failed
  <2>1. ~Failed(LoadStore(w))
    BY <1>5, <2>0 DEF LoadStore
  <2>2. Permissions(w) # "exposed"
    BY <1>5 DEF Permissions, StoreFaults
  <2>3. Credentials(w) = Grade(health)
    BY <1>5 DEF Credentials
  <2> HIDE DEF health
  <2>4. health.readable /\ health.permissions # "exposed"
    BY <1>1, <2>1, <2>2
  <2>5. Grade(health) = Check("credentials", "warn") \/ Grade(health) = Check("credentials", "ok")
    BY <2>4 DEF Grade, FileIsUsable
  <2> QED BY <1>2, <1>5, <2>1, <2>3, <2>5
<1> QED BY <1>3, <1>4, <1>5

(* Among eight checks with a problem one has the first.                      *)
LEMMA SomeFirst ==
  ASSUME NEW S, S \subseteq 1 .. 8, S # {}
  PROVE  \E k \in S : \A j \in 1 .. 8 : j < k => j \notin S
<1>1. CASE 1 \in S
  BY <1>1
<1>2. CASE 1 \notin S /\ 2 \in S
  BY <1>2
<1>3. CASE {1, 2} \cap S = {} /\ 3 \in S
  BY <1>3
<1>4. CASE {1, 2, 3} \cap S = {} /\ 4 \in S
  BY <1>4
<1>5. CASE {1, 2, 3, 4} \cap S = {} /\ 5 \in S
  BY <1>5
<1>6. CASE {1, 2, 3, 4, 5} \cap S = {} /\ 6 \in S
  BY <1>6
<1>7. CASE {1, 2, 3, 4, 5, 6} \cap S = {} /\ 7 \in S
  BY <1>7
<1>8. CASE {1, 2, 3, 4, 5, 6, 7} \cap S = {}
  <2>1. \A k \in 1 .. 8 : k \in {1, 2, 3, 4, 5, 6, 7} \/ k = 8
    OBVIOUS
  <2>2. S = {8}
    BY <1>8, <2>1
  <2> QED BY <2>2
<1> QED BY <1>1, <1>2, <1>3, <1>4, <1>5, <1>6, <1>7, <1>8

(* A report is healthy exactly when its code is that of a success.           *)
LEMMA HealthyIsSuccess ==
  ASSUME NEW report, DOMAIN report = 1 .. 8,
         \A k \in 1 .. 8 : report[k].status = "problem" => report[k].code # Success
  PROVE  Problems(report) = {} <=> ReportExitCode(report) = Success
<1>1. CASE Problems(report) = {}
  BY <1>1 DEF ReportExitCode
<1>2. CASE Problems(report) # {}
  <2>1. PICK k \in Problems(report) : \A j \in 1 .. 8 : j < k => j \notin Problems(report)
    BY <1>2, SomeFirst DEF Problems
  <2>2. k \in 1 .. 8 /\ report[k].status = "problem"
    BY <2>1 DEF Problems
  <2>3. \A j \in 1 .. 8 : j < k => report[j].status # "problem"
    BY <2>1 DEF Problems
  <2>4. ReportExitCode(report) = report[k].code
    BY <2>2, <2>3, FirstProblem
  <2> QED BY <1>2, <2>2, <2>4
<1> QED BY <1>1, <1>2

(* A problem of a report never has the code of a success.                    *)
LEMMA ProblemsFail ==
  ASSUME NEW w, w.offline \in BOOLEAN, NEW chosen, NEW k \in 1 .. 8,
         Examination(w, chosen)[k].status = "problem"
  PROVE  Examination(w, chosen)[k].code # Success
<1> DEFINE report == Examination(w, chosen)
<1>0. Usage # Success
  BY DEF Usage, Success
<1>1. /\ \A key, status : Check(key, status).status = status
      /\ \A key, code : Problem(key, code).code = code
      /\ \A key, error : ProblemOf(key, error).code # Success
  BY CheckStatus, FailuresFail
<1>2. /\ report[1] = Configuration(w) /\ report[2] = InstanceCheck(w)
      /\ report[3] = Credentials(w) /\ report[4] = CredentialCheck(chosen)
      /\ report[5] = Connectivity(w, chosen) /\ report[6] = LocalSpec(w)
      /\ report[7] = OnlineSpec(w) /\ report[8] = SkillCheck(w)
  BY EightChecks
<1> HIDE DEF report
<1>3. Configuration(w).status = "problem" => Configuration(w).code # Success
  BY <1>0, <1>1 DEF Configuration
<1>4. InstanceCheck(w).status = "problem" => InstanceCheck(w).code # Success
  BY <1>1 DEF InstanceCheck, CheckOf
<1>5. Credentials(w).status = "problem" => Credentials(w).code # Success
  BY <1>0, <1>1 DEF Credentials, Grade
<1>6. CredentialCheck(chosen).status = "problem" => CredentialCheck(chosen).code # Success
  BY <1>0, <1>1 DEF CredentialCheck
<1>7. Connectivity(w, chosen).status = "problem" => Connectivity(w, chosen).code # Success
  <2>1. \A outcome : Probe(outcome).status = "problem" => Probe(outcome).code # Success
    BY <1>1, FailuresFail DEF Probe
  <2> QED BY <1>1, <2>1 DEF Connectivity
<1>8. LocalSpec(w).status # "problem" /\ SkillCheck(w).status # "problem"
  BY SideChecks
<1>9. OnlineSpec(w).status = "problem" => OnlineSpec(w).code # Success
  <2>1. \A e : DocumentUnread(e).status = "problem" => DocumentUnread(e).code # Success
    BY <1>0, <1>1 DEF DocumentUnread
  <2>2. CompareSpecs(w).status # "problem"
    BY <1>1 DEF CompareSpecs
  <2> QED BY <1>1, <2>1, <2>2 DEF OnlineSpec
<1>10. report[k].status = "problem"
  BY DEF report
<1>11. k \in {1, 2, 3, 4, 5, 6, 7, 8}
  OBVIOUS
<1>12. report[k].code # Success
  BY <1>2, <1>3, <1>4, <1>5, <1>6, <1>7, <1>8, <1>9, <1>10, <1>11
<1> QED BY <1>12 DEF report

(* What an answer is decoded into says whether it was one.                   *)
LEMMA DecodedAnswer ==
  ASSUME NEW answer \in Heard
  PROVE  Reachable(Decoded(answer)) <=> answer.kind \notin {"Transport", "InvalidRequest"}
<1>1. CASE answer.kind = "ok"
  <2>1. Decoded(answer).ok = TRUE
    BY <1>1 DEF Decoded, Answered
  <2> QED BY <1>1, <2>1 DEF Reachable
<1>2. CASE answer.kind # "ok"
  <2>1. Decoded(answer) = Errored(FailureOf("engine", answer.kind, answer.status))
    BY <1>2 DEF Decoded
  <2>2. Decoded(answer).ok = FALSE /\ Decoded(answer).error.layer = "engine"
          /\ Decoded(answer).error.kind = answer.kind
    BY <2>1 DEF Errored, FailureOf
  <2>3. answer.kind \in UselessAnswers \cup {"Transport", "InvalidRequest", "Api", "RateLimited"}
    BY <1>2 DEF Heard
  <2>4. Reachable(Decoded(answer)) <=> answer.kind \in UselessAnswers \cup {"Api", "RateLimited"}
    BY <2>2 DEF Reachable, InstanceAnswered, ServerAnswered
  <2>5. UselessAnswers \cap {"Transport", "InvalidRequest"} = {}
    BY DEF UselessAnswers
  <2> QED BY <2>3, <2>4, <2>5
<1> QED BY <1>1, <1>2

(* A report says that the instance answered when it did, unless a session   *)
(* was turned away and what came after that failed.                         *)
LEMMA ReachableWhenAnswered ==
  ASSUME NEW w, IsMachine(w), NEW from
  PROVE  Reachable(FetchIdentity(w, from)) <=> SomeAnswer(w, from) /\ ~RefusedThenLost(w, from)
<1> DEFINE refused == Errored(FailureOf("engine", "Api", 401))
           first == w.answers[1]
           second == w.answers[2]
           renewal == Renewal(w)
<1>0. first \in Heard /\ second \in Heard
  BY DEF IsMachine
<1>1. ~renewal.ok => ~Reachable(renewal)
  <2>1. /\ ~Reachable(Errored(FailureOf("engine", "ReauthRequired", 0)))
        /\ ~Reachable(Errored(FailureOf("engine", "CredentialUnavailable", 0)))
    BY DEF Reachable, Errored, FailureOf, InstanceAnswered, ServerAnswered, UselessAnswers
  <2>2. Answered("renewed").ok
    BY DEF Answered
  <2> QED BY <2>1, <2>2 DEF Renewal
<1>2. Reachable(refused)
  BY DEF Reachable, Errored, FailureOf, InstanceAnswered, ServerAnswered
<1>3. \A answer \in Heard : /\ Reachable(Decoded(answer)) <=> answer.kind \notin Unanswered
                            /\ answer.status = 401 => answer.kind \notin Unanswered
  BY DecodedAnswer DEF Heard, Unanswered
<1>4. CASE "auth.info" \notin w.local
  <2>1. FetchIdentity(w, from) = Errored(NoOperation)
    BY <1>4 DEF FetchIdentity
  <2>2. ~Reachable(Errored(NoOperation))
    BY DEF Reachable, Errored, NoOperation, FailureOf, InstanceAnswered
  <2> QED BY <1>4, <2>1, <2>2 DEF SomeAnswer
<1>5. CASE "auth.info" \in w.local
  <2> DEFINE answer == FetchIdentity(w, from)
             early == from = "session" /\ ~w.fresh
  <2>1. answer = IF early /\ ~renewal.ok THEN renewal
                 ELSE IF first.status # 401 THEN Decoded(first)
                 ELSE IF from # "session" THEN refused
                 ELSE IF ~renewal.ok THEN renewal
                 ELSE IF second.status = 401 THEN refused
                 ELSE Decoded(second)
    BY <1>5 DEF FetchIdentity, SendResponse
  <2>2. SomeAnswer(w, from) <=> ~(early /\ ~renewal.ok) /\ first.kind \notin Unanswered
    BY <1>5 DEF SomeAnswer
  <2>3. RefusedThenLost(w, from) <=>
          /\ SomeAnswer(w, from) /\ from = "session" /\ first.status = 401
          /\ ~renewal.ok \/ second.kind \in Unanswered
    BY DEF RefusedThenLost
  <2> HIDE DEF answer, early, renewal, refused, first, second
  <2>4. Reachable(answer) <=> SomeAnswer(w, from) /\ ~RefusedThenLost(w, from)
    BY <1>0, <1>1, <1>2, <1>3, <2>1, <2>2, <2>3
  <2> QED BY <2>4 DEF answer
<1> QED BY <1>4, <1>5

(* The checks before the credential, where the instance is usable.           *)
LEMMA UsableChecks ==
  ASSUME NEW w, IsWorld(w), ~Failed(ResolveInstance(w))
  PROVE  Configuration(w).status # "problem" /\ InstanceCheck(w).status # "problem"
<1>1. ~Failed(LoadFile(w))
  BY UsableInstance
<1>2. \A key, status : Check(key, status).status = status
  BY CheckStatus
<1> QED BY <1>1, <1>2 DEF Configuration, InstanceCheck, CheckOf

(* A command that cannot begin ends with the code that doctor gives.         *)
LEMMA FailedClient ==
  ASSUME NEW w, IsMachine(w), Failed(OpenClient(w))
  PROVE  /\ ReportExitCode(ExamineAll(w)) = CommandExitCode(w)
         /\ Choose(w).is # "approved"
<1> DEFINE instance == ResolveInstance(w)
           chosen == Choose(w)
           report == Examination(w, chosen)
           credential == ResolveCredential(w, instance)
<1>0. IsWorld(w) /\ w.private \in BOOLEAN /\ w.offline \in BOOLEAN
  BY DEF IsMachine
<1>1. CommandExitCode(w) = ExitCodeOf(Wrapped(OpenClient(w).error))
  BY FailuresFail DEF CommandExitCode, ExitCodeWith
<1>2. /\ DOMAIN report = 1 .. 8
      /\ report[1] = Configuration(w) /\ report[2] = InstanceCheck(w)
      /\ report[3] = Credentials(w) /\ report[4] = CredentialCheck(chosen)
      /\ ExamineAll(w) = report
  BY EightChecks DEF ExamineAll
<1>3. OpenClient(w) = ClientFor(w, instance) /\ chosen = Choice(w, instance)
  BY DEF OpenClient, Choose
<1>4. /\ \A key, status : Check(key, status).status = status
      /\ \A key, code : Problem(key, code).status = "problem" /\ Problem(key, code).code = code
      /\ \A key, error : /\ ProblemOf(key, error).status = "problem"
                         /\ ProblemOf(key, error).code = ExitCodeOf(Wrapped(error))
  BY CheckStatus
<1>5. instance = InstanceOf(w, LoadFile(w))
  BY DEF ResolveInstance
<1> HIDE DEF instance, chosen, report
<1>6. CASE Failed(LoadFile(w))
  <2>1. instance = LoadFile(w)
    BY <1>5, <1>6 DEF InstanceOf
  <2>2. OpenClient(w) = LoadFile(w) /\ chosen.is = "unchecked"
    BY <1>3, <1>6, <2>1 DEF ClientFor, Choice
  <2>3. ExitCodeOf(Wrapped(OpenClient(w).error)) = Usage
    BY <1>6, <2>2, FileErrors, UsageFailures DEF FileFaults
  <2>4. report[1].status = "problem" /\ report[1].code = Usage
    BY <1>2, <1>4, <1>6 DEF Configuration
  <2>5. ReportExitCode(report) = report[1].code
    BY <1>2, <2>4, FirstProblem
  <2> QED BY <1>1, <1>2, <2>2, <2>3, <2>4, <2>5 DEF chosen
<1>7. CASE ~Failed(LoadFile(w)) /\ Failed(instance)
  <2>1. OpenClient(w) = instance /\ chosen.is = "unchecked"
    BY <1>3, <1>7 DEF ClientFor, Choice
  <2>2. report[1].status # "problem"
    BY <1>2, <1>4, <1>7 DEF Configuration
  <2>3. InstanceCheck(w) = ProblemOf("instance", instance.error)
    BY <1>7 DEF InstanceCheck, CheckOf, instance
  <2>4. report[2].status = "problem" /\ report[2].code = ExitCodeOf(Wrapped(instance.error))
    BY <1>2, <1>4, <2>3
  <2>5. \A j \in 1 .. 8 : j < 2 => j = 1
    OBVIOUS
  <2>6. ReportExitCode(report) = report[2].code
    BY <1>2, <2>2, <2>4, <2>5, FirstProblem
  <2> QED BY <1>1, <1>2, <2>1, <2>4, <2>6 DEF chosen
<1>8. CASE ~Failed(instance)
  <2>1. report[1].status # "problem" /\ report[2].status # "problem"
    BY <1>0, <1>2, <1>8, UsableChecks DEF instance
  <2>2. CASE Failed(LoadStore(w))
    <3>1. OpenClient(w) = LoadStore(w)
      BY <1>3, <1>8, <2>2 DEF ClientFor
    <3>2. chosen.is # "approved"
      BY <1>3, <1>8, <2>2 DEF Choice, RefusedBy
    <3>3. /\ report[3].status = "problem" /\ report[3].code = Usage
          /\ LoadStore(w).error \in {"NoConfigDir", "UnusableStore"}
      BY <1>0, <1>2, <2>2, StoreCheck
    <3>4. ExitCodeOf(Wrapped(OpenClient(w).error)) = Usage
      BY <3>1, <3>3, UsageFailures
    <3>5. \A j \in 1 .. 8 : j < 3 => j = 1 \/ j = 2
      OBVIOUS
    <3>6. ReportExitCode(report) = report[3].code
      BY <1>2, <2>1, <3>3, <3>5, FirstProblem
    <3> QED BY <1>1, <1>2, <3>2, <3>3, <3>4, <3>6 DEF chosen
  <2>3. CASE ~Failed(LoadStore(w))
    <3>1. report[3].status # "problem" /\ w.store.at # "nowhere"
      BY <1>0, <1>2, <2>3, StoreCheck
    <3>2. OpenClient(w) = ClientWith(instance, credential) /\ chosen = Approval(credential)
      BY <1>3, <1>8, <2>3, <3>1 DEF ClientFor, Choice
    <3> HIDE DEF credential
    <3>3. Failed(credential) /\ OpenClient(w) = credential
      <4>1. CASE Failed(credential)
        BY <3>2, <4>1 DEF ClientWith
      <4>2. CASE ~Failed(credential)
        <5>1. ~Failed(ClientWith(instance, credential))
          BY <4>2 DEF ClientWith, Failed
        <5> QED BY <3>2, <5>1
      <4> QED BY <4>1, <4>2
    <3>4. chosen = IF credential.error = "MissingApiKey" THEN [is |-> "absent"] ELSE RefusedBy(credential)
      BY <3>2, <3>3 DEF Approval
    <3>5. /\ chosen.is # "approved" /\ report[4].status = "problem"
          /\ report[4].code = ExitCodeOf(Wrapped(credential.error))
      <4>1. CASE credential.error = "MissingApiKey"
        <5>1. chosen.is = "absent"
          BY <3>4, <4>1
        <5>2. report[4] = Problem("credential", Usage)
          BY <1>2, <5>1 DEF CredentialCheck
        <5>3. ExitCodeOf(Wrapped(credential.error)) = Usage
          BY <4>1, UsageFailures
        <5> QED BY <1>4, <5>1, <5>2, <5>3
      <4>2. CASE credential.error # "MissingApiKey"
        <5>1. chosen.is = "refused" /\ chosen.error = credential.error
          BY <3>4, <4>2 DEF RefusedBy
        <5>2. report[4] = ProblemOf("credential", credential.error)
          BY <1>2, <5>1 DEF CredentialCheck
        <5> QED BY <1>4, <5>1, <5>2
      <4> QED BY <4>1, <4>2
    <3>6. \A j \in 1 .. 8 : j < 4 => j = 1 \/ j = 2 \/ j = 3
      OBVIOUS
    <3>7. ReportExitCode(report) = report[4].code
      BY <1>2, <2>1, <3>1, <3>5, <3>6, FirstProblem
    <3> QED BY <1>1, <1>2, <3>3, <3>5, <3>7 DEF chosen
  <2> QED BY <2>2, <2>3
<1> QED BY <1>6, <1>7, <1>8

(* A command that begins ends with the code of its request.                  *)
LEMMA OpenedClient ==
  ASSUME NEW w, IsMachine(w), ~Failed(OpenClient(w))
  PROVE  LET from == OpenClient(w).credential.from
             outcome == SendResponse(w, from)
             report == ExamineAll(w)
         IN  /\ Choose(w) = [is |-> "approved", from |-> from]
             /\ CommandExitCode(w) = IF outcome.ok THEN Success ELSE ExitCodeOf(outcome.error)
             /\ DOMAIN report = 1 .. 8
             /\ \A k \in {1, 2, 3, 4, 6, 8} : report[k].status # "problem"
             /\ report[5] = Connectivity(w, [is |-> "approved", from |-> from])
             /\ report[7] = OnlineSpec(w)
             /\ ~Failed(ResolveInstance(w))
<1> DEFINE instance == ResolveInstance(w)
           chosen == Choose(w)
           report == Examination(w, chosen)
           credential == ResolveCredential(w, instance)
           from == OpenClient(w).credential.from
           outcome == SendResponse(w, from)
<1>0. IsWorld(w) /\ w.private \in BOOLEAN /\ w.offline \in BOOLEAN
  BY DEF IsMachine
<1>1. OpenClient(w) = ClientFor(w, instance) /\ chosen = Choice(w, instance)
  BY DEF OpenClient, Choose
<1>2. CommandExitCode(w) = IF outcome.ok THEN Success ELSE ExitCodeOf(outcome.error)
  <2> HIDE DEF outcome
  <2>1. CommandExitCode(w) = IF ~outcome.ok THEN MapAuthError(outcome.error).code ELSE Success
    BY DEF CommandExitCode, ExitCodeWith, outcome
  <2> QED BY <2>1, FailuresFail
<1>3. /\ DOMAIN report = 1 .. 8
      /\ report[1] = Configuration(w) /\ report[2] = InstanceCheck(w)
      /\ report[3] = Credentials(w) /\ report[4] = CredentialCheck(chosen)
      /\ report[5] = Connectivity(w, chosen) /\ report[6] = LocalSpec(w)
      /\ report[7] = OnlineSpec(w) /\ report[8] = SkillCheck(w)
      /\ ExamineAll(w) = report
  BY EightChecks DEF ExamineAll
<1> HIDE DEF instance, chosen, report
<1>4. ~Failed(instance) /\ ~Failed(LoadStore(w)) /\ OpenClient(w) = ClientWith(instance, credential)
  <2> HIDE DEF credential
  <2>1. CASE Failed(instance)
    BY <1>1, <2>1 DEF ClientFor
  <2>2. CASE ~Failed(instance) /\ Failed(LoadStore(w))
    BY <1>1, <2>2 DEF ClientFor
  <2>3. CASE ~Failed(instance) /\ ~Failed(LoadStore(w))
    BY <1>1, <2>3 DEF ClientFor, credential
  <2> QED BY <2>1, <2>2, <2>3
<1>5. report[3].status # "problem" /\ w.store.at # "nowhere"
  BY <1>0, <1>3, <1>4, StoreCheck
<1>6. report[1].status # "problem" /\ report[2].status # "problem"
  BY <1>0, <1>3, <1>4, UsableChecks DEF instance
<1>7. chosen = Approval(credential)
  BY <1>1, <1>4, <1>5 DEF Choice
<1> HIDE DEF credential
<1>8. ~Failed(credential) /\ from = credential.from
  BY <1>4 DEF ClientWith
<1>9. chosen = [is |-> "approved", from |-> from]
  BY <1>7, <1>8 DEF Approval
<1>10. report[4].status # "problem"
  <2>1. chosen.is = "approved"
    BY <1>9
  <2>2. report[4] = Check("credential", "ok")
    BY <1>3, <2>1 DEF CredentialCheck
  <2> QED BY <2>2, CheckStatus
<1>11. report[6].status # "problem" /\ report[8].status # "problem"
  BY <1>0, <1>3, SideChecks
<1> HIDE DEF from, outcome
<1> QED BY <1>2, <1>3, <1>4, <1>5, <1>6, <1>9, <1>10, <1>11 DEF from, outcome, chosen, instance

(* doctor ends with the code to expect, whatever is wrong (report.rs,       *)
(* blocking), and says of the instance what it heard, but for a session that *)
(* was turned away first (checks.rs, probe): of every machine there is.     *)
THEOREM DoctorAgreesForAll ==
  ASSUME NEW w, IsMachine(w)
  PROVE  DoctorAgrees(w)
<1> DEFINE report == ExamineAll(w)
           chosen == Choose(w)
           code == ReportExitCode(report)
           healthy == Problems(report) = {}
           from == OpenClient(w).credential.from
           outcome == SendResponse(w, from)
<1>0. IsWorld(w) /\ w.offline \in BOOLEAN
  BY DEF IsMachine
<1>1. ReportValue(report).healthy = healthy
  BY DEF ReportValue
<1>2. healthy <=> code = Success
  <2>1. DOMAIN report = 1 .. 8 /\ \A k \in 1 .. 8 : report[k].status = "problem" => report[k].code # Success
    BY <1>0, EightChecks, ProblemsFail DEF ExamineAll
  <2> HIDE DEF report
  <2> QED BY <2>1, HealthyIsSuccess
<1>3. Failed(OpenClient(w)) => code = CommandExitCode(w) /\ chosen.is # "approved"
  BY FailedClient
<1>4. ASSUME ~Failed(OpenClient(w)), w.offline
      PROVE  healthy
  <2>1. Connectivity(w, [is |-> "approved", from |-> from]) = Check("connectivity", "skipped")
    BY <1>4 DEF Connectivity
  <2>2. report[5].status # "problem"
    BY <1>4, <2>1, OpenedClient, CheckStatus
  <2>3. report[7].status # "problem"
    <3>1. report[7] = OnlineSpec(w)
      BY <1>4, OpenedClient
    <3>2. OnlineSpec(w).status # "problem"
      <4> HIDE DEF report, outcome, healthy
      <4>1. w.offline \/ w.host.answer # "InvalidUrl"
        BY <1>4
      <4> QED BY <1>0, <4>1, SideChecks
    <3> QED BY <3>1, <3>2
  <2>4. DOMAIN report = 1 .. 8 /\ \A k \in {1, 2, 3, 4, 6, 8} : report[k].status # "problem"
    BY <1>4, OpenedClient
  <2>5. \A k \in 1 .. 8 : k \in {1, 2, 3, 4, 6, 8} \/ k = 5 \/ k = 7
    OBVIOUS
  <2> HIDE DEF report
  <2> QED BY <2>2, <2>3, <2>4, <2>5, NoProblem
<1>5. ASSUME ~Failed(OpenClient(w)), ~w.offline
      PROVE  code = Expected(w, CommandExitCode(w))
  <2> DEFINE identity == FetchIdentity(w, from)
             unread == w.host.answer = "InvalidUrl"
             present == "auth.info" \in w.local
  <2>1. Connectivity(w, [is |-> "approved", from |-> from]) = Probe(identity)
    BY <1>5, OpenedClient DEF Connectivity
  <2>2. /\ report[5] = Probe(identity) /\ report[7] = OnlineSpec(w)
        /\ DOMAIN report = 1 .. 8 /\ \A k \in {1, 2, 3, 4, 6, 8} : report[k].status # "problem"
        /\ CommandExitCode(w) = IF outcome.ok THEN Success ELSE ExitCodeOf(outcome.error)
    BY <1>0, <1>5, <2>1, OpenedClient
  <2>3. /\ ~unread => OnlineSpec(w).status # "problem"
        /\ unread => OnlineSpec(w).status = "problem" /\ OnlineSpec(w).code = Usage
    BY <1>0, <1>5, SideChecks, UnreadDocument
  <2>4. identity = IF present THEN outcome ELSE Errored(NoOperation)
    BY DEF FetchIdentity
  <2>5. Errored(NoOperation).ok = FALSE /\ Errored(NoOperation).error = NoOperation
    BY DEF Errored
  <2>6. ExitCodeOf(outcome.error) # Success
    BY FailuresFail
  <2>7. Expected(w, CommandExitCode(w)) =
          IF ~present THEN ExitCodeOf(NoOperation)
          ELSE IF CommandExitCode(w) # Success THEN CommandExitCode(w)
          ELSE IF unread THEN Usage ELSE Success
    BY <1>5 DEF Expected
  <2>8. \A k \in 1 .. 8 : k \in {1, 2, 3, 4, 6, 8} \/ k = 5 \/ k = 7
    OBVIOUS
  <2> HIDE DEF report, outcome, identity, unread, present, from
  <2>9. CASE ~identity.ok
    <3>1. report[5].status = "problem" /\ report[5].code = ExitCodeOf(identity.error)
      BY <2>2, <2>9, CheckStatus DEF Probe
    <3>2. \A j \in 1 .. 8 : j < 5 => j \in {1, 2, 3, 4, 6, 8}
      OBVIOUS
    <3>3. code = report[5].code
      BY <2>2, <3>1, <3>2, FirstProblem
    <3> QED BY <2>2, <2>4, <2>5, <2>6, <2>7, <2>9, <3>1, <3>3
  <2>10. CASE identity.ok /\ unread
    <3>1. report[5].status # "problem" /\ report[7].status = "problem" /\ report[7].code = Usage
      BY <2>2, <2>3, <2>10, CheckStatus DEF Probe
    <3>2. \A j \in 1 .. 8 : j < 7 => j \in {1, 2, 3, 4, 6, 8} \/ j = 5
      OBVIOUS
    <3>3. code = report[7].code
      BY <2>2, <3>1, <3>2, FirstProblem
    <3> QED BY <2>2, <2>4, <2>5, <2>7, <2>10, <3>1, <3>3
  <2>11. CASE identity.ok /\ ~unread
    <3>1. report[5].status # "problem" /\ report[7].status # "problem"
      BY <2>2, <2>3, <2>11, CheckStatus DEF Probe
    <3>2. code = Success
      BY <2>2, <2>8, <3>1, NoProblem
    <3> QED BY <2>2, <2>4, <2>5, <2>7, <2>11, <3>2
  <2> QED BY <2>9, <2>10, <2>11
<1>6. Reachable(FetchIdentity(w, chosen.from)) <=>
        SomeAnswer(w, chosen.from) /\ ~RefusedThenLost(w, chosen.from)
  BY ReachableWhenAnswered
<1> HIDE DEF report, chosen, code, healthy
<1>7. ReportPredicts(w, report, chosen, CommandExitCode(w))
  <2>1. code = Expected(w, CommandExitCode(w))
    <3>1. Failed(OpenClient(w)) => Expected(w, CommandExitCode(w)) = CommandExitCode(w)
      BY DEF Expected
    <3>2. ~Failed(OpenClient(w)) /\ w.offline => Expected(w, CommandExitCode(w)) = Success
      BY DEF Expected
    <3> QED BY <1>2, <1>3, <1>4, <1>5, <3>1, <3>2
  <2> QED BY <1>1, <1>2, <1>6, <2>1 DEF ReportPredicts, code
<1> QED BY <1>7 DEF DoctorAgrees, report, chosen

-----------------------------------------------------------------------------
(* Which requests of a list were done.                                      *)
DoneOf(sent, answers) == {sent[i] : i \in {j \in 1 .. Len(sent) : answers[j] = "done"}}
LEMMA DoneRequests ==
  ASSUME NEW answers, NEW a, NEW b
  PROVE  /\ DoneOf(<<>>, answers) = {}
         /\ DoneOf(<<a>>, answers) = IF answers[1] = "done" THEN {a} ELSE {}
         /\ DoneOf(<<a, b>>, answers) = (IF answers[1] = "done" THEN {a} ELSE {})
                                        \cup (IF answers[2] = "done" THEN {b} ELSE {})
<1>1. Len(<<>>) = 0 /\ Len(<<a>>) = 1 /\ Len(<<a, b>>) = 2
  OBVIOUS
<1>2. <<a>>[1] = a /\ <<a, b>>[1] = a /\ <<a, b>>[2] = b
  OBVIOUS
<1>3. 1 .. 0 = {} /\ 1 .. 1 = {1} /\ 1 .. 2 = {1, 2}
  OBVIOUS
<1>4. DoneOf(<<>>, answers) = {}
  BY <1>1, <1>3 DEF DoneOf
<1>5. DoneOf(<<a>>, answers) = IF answers[1] = "done" THEN {a} ELSE {}
  BY <1>1, <1>2, <1>3 DEF DoneOf
<1>6. DoneOf(<<a, b>>, answers) = (IF answers[1] = "done" THEN {a} ELSE {}) \cup (IF answers[2] = "done" THEN {b} ELSE {})
  BY <1>1, <1>2, <1>3 DEF DoneOf
<1> QED BY <1>4, <1>5, <1>6

(* What every end of the command says is so.                                *)
Tells(u, args, answers, shows) ==
  LET done == DoneOf(u.sent, answers)
      asked == (IF args.content # "none" THEN {"content"} ELSE {})
               \cup (IF StatusChange(args) THEN {"status"} ELSE {})
  IN  /\ u.out \subseteq done
      /\ u.exit = "ok" => asked # {} /\ done = asked /\ u.out = asked
      /\ u.exit = "partial" <=> shows /\ done = {"content"} /\ asked = {"content", "status"}
      /\ u.exit = "partial" => u.out = {"content"}
      /\ u.exit = "failure" => ~shows /\ done # {} /\ u.out = {}
      /\ u.exit \in {"request", "usage"} => done = {}
      /\ Len(u.sent) = 2 => u.sent[1] = "content" /\ answers[1] = "done"

(* The end after the second request.                                        *)
LEMMA StatusTells ==
  ASSUME NEW args, NEW answers, NEW shows \in BOOLEAN, StatusChange(args),
         args.content # "none" => answers[1] = "done"
  PROVE  Tells(ApplyStatusChange(args, answers, shows), args, answers, shows)
<1> DEFINE u == ApplyStatusChange(args, answers, shows)
           both == <<"content", "status">>
           one == <<"status">>
<1>1. CASE args.content # "none"
  <2>1. Len(both) = 2 /\ both[1] = "content" /\ {both[i] : i \in 1 .. 2} = {"content", "status"}
    <3>1. Len(both) = 2 /\ both[1] = "content" /\ both[2] = "status" /\ 1 .. 2 = {1, 2}
      OBVIOUS
    <3> QED BY <3>1
  <2>2. u = IF answers[2] = "done"
            THEN IF shows THEN UpdateEnds("ok", {"content", "status"}, both) ELSE UpdateEnds("failure", {}, both)
            ELSE IF shows THEN UpdateEnds("partial", {"content"}, both) ELSE UpdateEnds("failure", {}, both)
    BY <1>1, <2>1 DEF ApplyStatusChange
  <2>3. DoneOf(both, answers) = IF answers[2] = "done" THEN {"content", "status"} ELSE {"content"}
    <3>1. DoneOf(both, answers) = {"content"} \cup (IF answers[2] = "done" THEN {"status"} ELSE {})
      BY <1>1, DoneRequests
    <3> HIDE DEF both
    <3> QED BY <3>1
  <2> HIDE DEF both, u
  <2>4. u.sent = both
    BY <2>2 DEF UpdateEnds
  <2>5. u.exit = IF ~shows THEN "failure" ELSE IF answers[2] = "done" THEN "ok" ELSE "partial"
    BY <2>2 DEF UpdateEnds
  <2>6. u.out = IF ~shows THEN {} ELSE IF answers[2] = "done" THEN {"content", "status"} ELSE {"content"}
    BY <2>2 DEF UpdateEnds
  <2> QED BY <1>1, <2>1, <2>3, <2>4, <2>5, <2>6 DEF Tells, u
<1>2. CASE args.content = "none"
  <2>1. Len(one) = 1 /\ one[1] = "status" /\ {one[i] : i \in 1 .. 1} = {"status"}
    OBVIOUS
  <2>2. u = IF answers[1] = "done"
            THEN IF shows THEN UpdateEnds("ok", {"status"}, one) ELSE UpdateEnds("failure", {}, one)
            ELSE UpdateEnds("request", {}, one)
    BY <1>2, <2>1 DEF ApplyStatusChange
  <2>3. DoneOf(one, answers) = IF answers[1] = "done" THEN {"status"} ELSE {}
    BY DoneRequests
  <2> HIDE DEF one, u
  <2>4. u.sent = one
    BY <2>2 DEF UpdateEnds
  <2>5. u.exit = IF answers[1] # "done" THEN "request" ELSE IF shows THEN "ok" ELSE "failure"
    BY <2>2 DEF UpdateEnds
  <2>6. u.out = IF answers[1] = "done" /\ shows THEN {"status"} ELSE {}
    BY <2>2 DEF UpdateEnds
  <2> QED BY <1>2, <2>1, <2>3, <2>4, <2>5, <2>6 DEF Tells, u
<1> QED BY <1>1, <1>2

(* What comments update says was done was done, whatever is answered.        *)
THEOREM UpdateTellsForAll ==
  ASSUME NEW args, NEW answers, NEW shows \in BOOLEAN
  PROVE  UpdateTells(args, answers, shows)
<1> DEFINE u == UpdateComment(args, answers, shows)
           asked == (IF args.content # "none" THEN {"content"} ELSE {})
                    \cup (IF StatusChange(args) THEN {"status"} ELSE {})
<1>1. SUFFICES Tells(u, args, answers, shows)
  BY DEF Tells, UpdateTells, DoneOf
<1>2. Len(<<>>) = 0 /\ Len(<<"content">>) = 1
  OBVIOUS
<1>3. CASE u = UpdateEnds("usage", {}, <<>>)
  <2>1. u.sent = <<>> /\ u.exit = "usage" /\ u.out = {}
    BY <1>3 DEF UpdateEnds
  <2>2. DoneOf(<<>>, answers) = {}
    BY DoneRequests
  <2> HIDE DEF u
  <2> QED BY <1>2, <2>1, <2>2 DEF Tells
<1>4. CASE u = UpdateEnds("request", {}, <<"content">>) /\ answers[1] # "done"
  <2>1. u.sent = <<"content">> /\ u.exit = "request" /\ u.out = {} /\ answers[1] # "done"
    BY <1>4 DEF UpdateEnds
  <2>2. DoneOf(<<"content">>, answers) = {}
    BY <2>1, DoneRequests
  <2> HIDE DEF u
  <2> QED BY <1>2, <2>1, <2>2 DEF Tells
<1>5. CASE u = UpdateEnds("ok", {"content"}, <<"content">>) /\ answers[1] = "done" /\ args.content # "none" /\ ~StatusChange(args)
  <2>1. u.sent = <<"content">> /\ u.exit = "ok" /\ u.out = {"content"}
    BY <1>5 DEF UpdateEnds
  <2>2. asked = {"content"}
    BY <1>5
  <2>3. DoneOf(<<"content">>, answers) = {"content"}
    BY <1>5, DoneRequests
  <2> HIDE DEF u
  <2> QED BY <1>2, <2>1, <2>2, <2>3 DEF Tells
<1>6. CASE u = UpdateEnds("failure", {}, <<"content">>) /\ ~shows /\ answers[1] = "done"
  <2>1. u.sent = <<"content">> /\ u.exit = "failure" /\ u.out = {}
    BY <1>6 DEF UpdateEnds
  <2>2. DoneOf(<<"content">>, answers) = {"content"}
    BY <1>6, DoneRequests
  <2> HIDE DEF u
  <2> QED BY <1>2, <1>6, <2>1, <2>2 DEF Tells
<1>7. CASE u = ApplyStatusChange(args, answers, shows) /\ StatusChange(args) /\ (args.content # "none" => answers[1] = "done")
  BY <1>7, StatusTells
<1>8. \/ u = UpdateEnds("usage", {}, <<>>)
      \/ u = UpdateEnds("request", {}, <<"content">>) /\ answers[1] # "done"
      \/ u = ApplyStatusChange(args, answers, shows) /\ StatusChange(args) /\ (args.content # "none" => answers[1] = "done")
      \/ u = UpdateEnds("ok", {"content"}, <<"content">>) /\ answers[1] = "done" /\ args.content # "none" /\ ~StatusChange(args)
      \/ u = UpdateEnds("failure", {}, <<"content">>) /\ ~shows /\ answers[1] = "done"
  BY DEF UpdateComment
<1> QED BY <1>3, <1>4, <1>5, <1>6, <1>7, <1>8

-----------------------------------------------------------------------------
(* Counting the documents of a collection.                                  *)

Answers_ == [nodes : 0 .. MaxCountedNodes, is : {"exact", "capped", "unrecognized"}]
NodesOf(s) == 1 .. Len(s.below)
Unreadable(s, node) == ~s.document[node] \/ NodesBelow(s, node) = <<0>>
Next_(s, pile) == Front(pile) \o NodesBelow(s, Last(pile))
Ends_(left, how) == [nodes |-> MaxCountedNodes - left, is |-> how]
\* One round of the loop, with the answers that the rest of it would give.
Round(s, left, rest, pile) ==
  IF pile = <<>> THEN Ends_(left, "exact")
  ELSE IF left = 0 THEN Ends_(left, "capped")
  ELSE IF Unreadable(s, Last(pile)) THEN Ends_(left, "unrecognized")
  ELSE rest[Next_(s, pile)]

(* A node that is taken from the pile leaves one of nodes.                  *)
LEMMA NextStack ==
  ASSUME NEW s, IsStructure(s), NEW pile \in Seq(NodesOf(s)), pile # <<>>
  PROVE  /\ Len(pile) \in Nat \ {0} /\ Last(pile) = pile[Len(pile)] /\ Last(pile) \in NodesOf(s)
         /\ Front(pile) \in Seq(NodesOf(s)) /\ Len(Front(pile)) = Len(pile) - 1
         /\ \A i \in 1 .. Len(pile) - 1 : Front(pile)[i] = pile[i]
         /\ ~Unreadable(s, Last(pile)) =>
              NodesBelow(s, Last(pile)) \in Seq(NodesOf(s)) /\ Next_(s, pile) \in Seq(NodesOf(s))
<1> DEFINE n == Len(pile)
           V == NodesOf(s)
<1>1. n \in Nat \ {0} /\ Last(pile) = pile[n] /\ pile \in Seq(V)
  BY DEF Last
<1>2. pile[n] \in V
  BY <1>1
<1>3. Front(pile) = SubSeq(pile, 1, n - 1)
  BY DEF Front
<1>4. /\ SubSeq(pile, 1, n - 1) \in Seq(V) /\ Len(SubSeq(pile, 1, n - 1)) = n - 1
      /\ \A i \in 1 .. n - 1 : SubSeq(pile, 1, n - 1)[i] = pile[i]
  <2>1. \A i \in 1 .. n - 1 : pile[i] \in V
    <3> HIDE DEF V
    <3> QED BY <1>1
  <2>2. 1 \in Int /\ n - 1 \in Int
    BY <1>1
  <2> DEFINE k == n - 1
  <2> HIDE DEF n, V, k
  <2>3. k \in Int /\ \A i \in 1 .. k : pile[i] \in V
    BY <2>1, <2>2 DEF k
  <2>4. /\ SubSeq(pile, 1, k) \in Seq(V) /\ Len(SubSeq(pile, 1, k)) = (IF 1 <= k THEN k - 1 + 1 ELSE 0)
        /\ \A i \in 1 .. k - 1 + 1 : SubSeq(pile, 1, k)[i] = pile[1 + i - 1]
    BY <2>2, <2>3, SubSeqProperties
  <2> QED BY <1>1, <2>4 DEF k
<1>5. ASSUME ~Unreadable(s, pile[n])
      PROVE  NodesBelow(s, pile[n]) \in Seq(V)
  <2>1. pile[n] \in 0 .. Len(s.below) /\ pile[n] # 0
    <3>1. Len(s.below) \in Nat
      BY DEF IsStructure
    <3> QED BY <1>2, <3>1 DEF NodesOf
  <2>2. ListOf(s, pile[n]) = NodesBelow(s, pile[n])
    BY <2>1 DEF ListOf
  <2>3. ListOf(s, pile[n]) = <<0>> \/ ListOf(s, pile[n]) \in Seq(1 .. Len(s.below))
    BY <2>1 DEF IsStructure
  <2> QED BY <1>5, <2>2, <2>3 DEF Unreadable, NodesOf
<1>6. ASSUME NEW a \in Seq(V), NEW b \in Seq(V) PROVE a \o b \in Seq(V)
  <2> HIDE DEF V
  <2> QED OBVIOUS
<1> QED
  <2> HIDE DEF n, V
  <2>1. ~Unreadable(s, Last(pile)) => Next_(s, pile) \in Seq(V)
    BY <1>1, <1>3, <1>4, <1>5, <1>6 DEF Next_
  <2> QED BY <1>1, <1>2, <1>3, <1>4, <1>5, <2>1 DEF n, V

(* The walk is a function of what is left to count and of the pile.         *)
LEMMA WalkRounds ==
  ASSUME NEW s, IsStructure(s), s.roots # << 0 >>
  PROVE  \E W : /\ CountNodes(s) = W[MaxCountedNodes][s.roots]
                /\ \A left \in 0 .. MaxCountedNodes : \A pile \in Seq(NodesOf(s)) :
                     W[left][pile] = Round(s, left, W[left - 1], pile)
<1> DEFINE top == MaxCountedNodes
           V == NodesOf(s)
           S == [Seq(V) -> Answers_]
           b == [pile \in Seq(V) |-> Round(s, 0, <<>>, pile)]
           F == [x \in (1 .. top) \X S |-> [pile \in Seq(V) |-> Round(s, x[1], x[2], pile)]]
           Walks(W) == W = [left \in 0 .. top |-> [pile \in Seq(V) |-> Round(s, left, W[left - 1], pile)]]
           walk == CHOOSE W : Walks(W)
<1>1. top \in Nat \ {0}
  BY CuratedAssumption
<1>2. CountNodes(s) = walk[top][s.roots]
  BY DEF CountNodes, Round, Next_, Unreadable, NodesOf, Ends_
<1>3. b \in S
  <2>1. ASSUME NEW pile \in Seq(V) PROVE Round(s, 0, <<>>, pile) \in Answers_
    BY <1>1 DEF Round, Ends_, Answers_
  <2> HIDE DEF V
  <2> QED BY <2>1
<1>4. F \in [(1 .. top) \X S -> S]
  <2>1. ASSUME NEW left \in 1 .. top, NEW h \in S, NEW pile \in Seq(V)
        PROVE  Round(s, left, h, pile) \in Answers_
    <3>1. CASE pile = <<>> \/ Unreadable(s, Last(pile))
      <4>1. Ends_(left, "exact") \in Answers_ /\ Ends_(left, "unrecognized") \in Answers_ /\ left # 0
        BY <1>1 DEF Ends_, Answers_
      <4> QED BY <3>1, <4>1 DEF Round
    <3>2. CASE pile # <<>> /\ ~Unreadable(s, Last(pile))
      <4>1. Next_(s, pile) \in Seq(V) /\ left # 0
        BY <1>1, <3>2, NextStack
      <4>2. h[Next_(s, pile)] \in Answers_
        <5> HIDE DEF V
        <5> QED BY <4>1
      <4> QED BY <3>2, <4>1, <4>2 DEF Round
    <3> QED BY <3>1, <3>2
  <2> HIDE DEF V, top
  <2>2. ASSUME NEW left \in 1 .. top, NEW h \in S
        PROVE  [pile \in Seq(V) |-> Round(s, left, h, pile)] \in S
    BY <2>1
  <2> HIDE DEF S
  <2> QED BY <2>2
<1>5. PICK g : Iteration(S, 0, 1, top, b, F, g)
  <2> HIDE DEF F, b, S, top
  <2>1. Iterable(S, 0, 1, top, b, F)
    BY <1>1, <1>3, <1>4 DEF Iterable
  <2> QED BY <2>1, Iterates
<1>6. Walks(g)
  <2>1. g \in [0 .. top -> S] /\ g[0] = b /\ \A i \in 1 .. top : g[i] = F[<<i, g[i - 1]>>]
    <3> HIDE DEF F, b, S, top
    <3> QED BY <1>5 DEF Iteration
  <2>2. ASSUME NEW i \in 1 .. top
        PROVE  g[i] = [pile \in Seq(V) |-> Round(s, i, g[i - 1], pile)]
    <3>1. i - 1 \in 0 .. top /\ g[i - 1] \in S
      <4> HIDE DEF S, top, F, b
      <4> QED BY <1>1, <2>1
    <3>2. F[<<i, g[i - 1]>>] = [pile \in Seq(V) |-> Round(s, i, g[i - 1], pile)]
      <4> HIDE DEF S, V, top
      <4> QED BY <3>1
    <3> HIDE DEF F, b, S, V, top
    <3> QED BY <2>1, <3>2
  <2>3. g[0] = [pile \in Seq(V) |-> Round(s, 0, g[0 - 1], pile)]
    <3>1. \A pile \in Seq(V) : Round(s, 0, <<>>, pile) = Round(s, 0, g[0 - 1], pile)
      BY DEF Round
    <3>2. g[0] = [pile \in Seq(V) |-> Round(s, 0, <<>>, pile)]
      <4> HIDE DEF F, S, V, top
      <4> QED BY <2>1
    <3> HIDE DEF F, b, S, V, top
    <3> QED BY <3>1, <3>2
  <2>4. \A i \in 0 .. top : i = 0 \/ i \in 1 .. top
    BY <1>1
  <2>5. \A i \in 0 .. top : g[i] = [pile \in Seq(V) |-> Round(s, i, g[i - 1], pile)]
    <3> HIDE DEF F, b, S, V, top
    <3> QED BY <2>2, <2>3, <2>4
  <2>6. g = [i \in 0 .. top |-> g[i]]
    <3> HIDE DEF F, b, S, V, top
    <3> QED BY <2>1
  <2> HIDE DEF F, b, S, V, top
  <2> QED BY <2>5, <2>6
<1>7. Walks(walk)
  <2> HIDE DEF Walks
  <2> QED BY <1>6
<1> HIDE DEF walk
<1>8. ASSUME NEW left \in 0 .. top, NEW pile \in Seq(V)
      PROVE  walk[left][pile] = Round(s, left, walk[left - 1], pile)
  <2>1. walk[left] = [x \in Seq(V) |-> Round(s, left, walk[left - 1], x)]
    <3> HIDE DEF V, top
    <3> QED BY <1>7
  <2> HIDE DEF V, top, Walks
  <2> QED BY <2>1
<1> HIDE DEF Walks
<1> QED BY <1>2, <1>8

(* The walk has counted some documents, what is in hand is all that is below *)
(* them and not counted, and each is in one place.                           *)
ClosedIn(s, S) ==
  /\ Range(s.roots) \subseteq S
  /\ \A n \in S \ {0} : Range(NodesBelow(s, n)) \subseteq S
Walked(s, counted, pile) ==
  LET seen == counted \cup Range(pile)
  IN  /\ pile \in Seq(NodesOf(s)) /\ counted \subseteq NodesOf(s)
      /\ \A i, j \in 1 .. Len(pile) : pile[i] = pile[j] => i = j
      /\ \A i \in 1 .. Len(pile) : pile[i] \notin counted
      /\ \A n \in counted : ~Unreadable(s, n)
      /\ \A k \in counted \cup {0} : Range(ListOf(s, k)) \subseteq seen
      /\ \A n \in seen : \E k \in counted \cup {0} : n \in Range(ListOf(s, k))
      /\ \A S : ClosedIn(s, S) => seen \subseteq S
\* What is said of a structure is true.
Claimed(s, answer) ==
  /\ answer.is \in {"exact", "capped", "unrecognized"}
  /\ answer.is = "exact" => /\ 0 \notin Documents_(s) /\ \A n \in Documents_(s) : s.document[n]
                           /\ answer.nodes = Cardinality(Documents_(s))
  /\ answer.is = "capped" => answer.nodes = MaxCountedNodes /\ Cardinality(Documents_(s)) > MaxCountedNodes

(* A list of a structure, and what is in it.                                 *)
LEMMA ListIn ==
  ASSUME NEW s, IsStructure(s), NEW k \in 0 .. Len(s.below)
  PROVE  /\ ListOf(s, k) = <<0>> \/ ListOf(s, k) \in Seq(NodesOf(s))
         /\ Len(ListOf(s, k)) \in Nat
         /\ Range(ListOf(s, k)) = {ListOf(s, k)[i] : i \in 1 .. Len(ListOf(s, k))}
<1>1. ListOf(s, k) = <<0>> \/ ListOf(s, k) \in Seq(NodesOf(s))
  BY DEF IsStructure, NodesOf
<1>2. CASE ListOf(s, k) = <<0>>
  BY <1>2 DEF Range
<1>3. CASE ListOf(s, k) \in Seq(NodesOf(s))
  <2> DEFINE t == ListOf(s, k)
             V == NodesOf(s)
  <2>1. t \in Seq(V)
    BY <1>3
  <2> HIDE DEF t, V
  <2>2. Len(t) \in Nat /\ DOMAIN t = 1 .. Len(t)
    BY <2>1
  <2>3. Len(t) \in Nat /\ Range(t) = {t[i] : i \in 1 .. Len(t)}
    BY <2>2 DEF Range
  <2> QED BY <1>1, <2>3 DEF t
<1> QED BY <1>1, <1>2, <1>3

(* What is put together of two lists.                                        *)
IsJoined(a, b, c) ==
  /\ Len(a) \in Nat /\ Len(b) \in Nat /\ Len(c) = Len(a) + Len(b)
  /\ \A i \in 1 .. Len(a) : c[i] = a[i]
  /\ \A i \in 1 .. Len(c) : i \in 1 .. Len(a) \/ (i - Len(a) \in 1 .. Len(b) /\ c[i] = b[i - Len(a)])
  /\ Range(a) = {a[i] : i \in 1 .. Len(a)} /\ Range(b) = {b[i] : i \in 1 .. Len(b)}
  /\ Range(c) = Range(a) \cup Range(b)
LEMMA Joins ==
  ASSUME NEW V, NEW a \in Seq(V), NEW b \in Seq(V)
  PROVE  IsJoined(a, b, a \o b)
<1>1. /\ Len(a) \in Nat /\ Len(b) \in Nat /\ Len(a \o b) = Len(a) + Len(b) /\ a \o b \in Seq(V)
      /\ \A i \in 1 .. Len(a) : (a \o b)[i] = a[i]
      /\ \A i \in 1 .. Len(b) : (a \o b)[Len(a) + i] = b[i]
  OBVIOUS
<1>2. \A i \in 1 .. Len(a) + Len(b) : i \in 1 .. Len(a) \/ (i - Len(a) \in 1 .. Len(b) /\ i = Len(a) + (i - Len(a)))
  BY <1>1
<1>3. ASSUME NEW t \in Seq(V) PROVE Range(t) = {t[i] : i \in 1 .. Len(t)}
  BY DEF Range
<1>4. Range(a \o b) = {(a \o b)[i] : i \in 1 .. Len(a) + Len(b)}
  BY <1>1, <1>3
<1>5. \A i \in 1 .. Len(a) : i \in 1 .. Len(a) + Len(b)
  BY <1>1
<1>6. \A i \in 1 .. Len(b) : Len(a) + i \in 1 .. Len(a) + Len(b)
  BY <1>1
<1>7. Range(a) = {a[i] : i \in 1 .. Len(a)} /\ Range(b) = {b[i] : i \in 1 .. Len(b)}
  BY <1>3
<1>8. Range(a \o b) = Range(a) \cup Range(b)
  <2> DEFINE c == a \o b
             m == Len(a)
             n == Len(b)
  <2>1. \A x \in Range(c) : x \in Range(a) \cup Range(b)
    <3> SUFFICES ASSUME NEW i \in 1 .. m + n PROVE c[i] \in Range(a) \cup Range(b)
      BY <1>4
    <3>1. CASE i \in 1 .. m
      BY <3>1, <1>1, <1>7
    <3>2. CASE i - m \in 1 .. n /\ i = m + (i - m)
      <4>1. c[m + (i - m)] = b[i - m]
        <5> HIDE DEF c, m, n
        <5>1. \A j \in 1 .. n : c[m + j] = b[j]
          BY <1>1 DEF c, m, n
        <5> QED BY <3>2, <5>1
      <4>2. c[i] = b[i - m]
        <5> HIDE DEF c, m
        <5> QED BY <3>2, <4>1
      <4> QED BY <3>2, <4>2, <1>7
    <3> QED BY <1>2, <3>1, <3>2
  <2>2. \A x \in Range(a) : x \in Range(c)
    BY <1>1, <1>4, <1>5, <1>7
  <2>3. \A x \in Range(b) : x \in Range(c)
    BY <1>1, <1>4, <1>6, <1>7
  <2> QED BY <2>1, <2>2, <2>3
<1>9. \A i \in 1 .. Len(a) + Len(b) : i \in 1 .. Len(a) \/ (i - Len(a) \in 1 .. Len(b) /\ (a \o b)[i] = b[i - Len(a)])
  <2> DEFINE c == a \o b
  <2>1. /\ \A j \in 1 .. Len(b) : c[Len(a) + j] = b[j]
        /\ \A i \in 1 .. Len(a) + Len(b) : i \in 1 .. Len(a) \/ (i - Len(a) \in 1 .. Len(b) /\ i = Len(a) + (i - Len(a)))
    BY <1>1, <1>2
  <2> HIDE DEF c
  <2> QED BY <2>1
<1> QED BY <1>1, <1>7, <1>8, <1>9 DEF IsJoined

(* A document of the pile is counted and what is below it is put in hand: it *)
(* is in none of the lists that were seen before.                            *)
LEMMA WalkStep ==
  ASSUME NEW s, IsStructure(s), NEW counted, NEW pile, Walked(s, counted, pile), pile # <<>>,
         ~Unreadable(s, Last(pile))
  PROVE  Last(pile) \notin counted /\ Walked(s, counted \cup {Last(pile)}, Next_(s, pile))
<1> DEFINE n == Len(pile)
           V == NodesOf(s)
           node == Last(pile)
           f == Front(pile)
           b == NodesBelow(s, node)
           seen == counted \cup Range(pile)
<1>1. /\ pile \in Seq(V) /\ n \in Nat \ {0} /\ node = pile[n] /\ node \in V
      /\ f \in Seq(V) /\ Len(f) = n - 1 /\ \A i \in 1 .. n - 1 : f[i] = pile[i]
      /\ b \in Seq(V) /\ Next_(s, pile) = f \o b /\ f \o b \in Seq(V)
  BY NextStack DEF Walked, Next_
<1>2. node # 0 /\ node \in 0 .. Len(s.below) /\ ListOf(s, node) = b /\ Len(s.below) \in Nat
  <2>1. Len(s.below) \in Nat
    BY DEF IsStructure
  <2>2. node \in 1 .. Len(s.below)
    BY <1>1 DEF NodesOf
  <2>3. node # 0 /\ node \in 0 .. Len(s.below)
    <3> HIDE DEF node
    <3> QED BY <2>1, <2>2
  <2> QED BY <2>1, <2>3 DEF ListOf
<1>3. Range(pile) = Range(f) \cup {node}
  <2>1. Range(pile) = {pile[i] : i \in 1 .. n}
    <3>1. DOMAIN pile = 1 .. n
      BY <1>1
    <3> QED BY <3>1 DEF Range
  <2>2. Range(f) = {f[i] : i \in 1 .. n - 1}
    <3>1. DOMAIN f = 1 .. n - 1
      <4> HIDE DEF f, V
      <4> QED BY <1>1
    <3> QED BY <3>1 DEF Range
  <2>3. \A i : i \in 1 .. n <=> i \in 1 .. n - 1 \/ i = n
    BY <1>1
  <2> HIDE DEF n, f, node
  <2> QED BY <1>1, <2>1, <2>2, <2>3
<1>4. node \in Range(pile) /\ node \notin counted
  <2>1. n \in 1 .. Len(pile)
    BY <1>1
  <2> QED BY <1>1, <1>3, <2>1 DEF Walked
<1>5. ASSUME NEW x \in seen PROVE x \notin Range(b)
  <2>1. PICK k \in counted \cup {0} : x \in Range(ListOf(s, k))
    BY DEF Walked
  <2>2. k \in 0 .. Len(s.below) /\ k # node
    BY <1>2, <1>4 DEF Walked, NodesOf
  <2> SUFFICES ASSUME x \in Range(b) PROVE FALSE
    OBVIOUS
  <2>3. PICK i \in 1 .. Len(ListOf(s, k)) : x = ListOf(s, k)[i]
    BY <2>1, <2>2, ListIn
  <2>4. Range(b) = {b[j] : j \in 1 .. Len(b)}
    <3> HIDE DEF node, b
    <3> QED BY <1>2, ListIn
  <2>5. PICK j \in 1 .. Len(b) : x = b[j]
    BY <2>4
  <2>6. x # 0
    <3>1. b[j] \in V
      <4> HIDE DEF b, V
      <4> QED BY <1>1
    <3> QED BY <2>5, <3>1, <1>2 DEF NodesOf
  <2> HIDE DEF node, b
  <2> QED BY <1>2, <2>2, <2>3, <2>5, <2>6 DEF IsStructure
<1> DEFINE q == f \o b
           more == counted \cup {node}
<1>6. /\ Len(f) \in Nat /\ Len(b) \in Nat /\ Len(q) = Len(f) + Len(b)
      /\ \A i \in 1 .. Len(f) : q[i] = f[i]
      /\ \A i \in 1 .. Len(q) : i \in 1 .. Len(f) \/ (i - Len(f) \in 1 .. Len(b) /\ q[i] = b[i - Len(f)])
      /\ Range(q) = Range(f) \cup Range(b)
      /\ \A i \in 1 .. Len(f) : f[i] \in Range(f)
      /\ \A i \in 1 .. Len(b) : b[i] \in Range(b)
  <2> HIDE DEF f, b, V
  <2>1. IsJoined(f, b, q)
    BY <1>1, Joins
  <2> HIDE DEF q
  <2>2. (\A i \in 1 .. Len(f) : f[i] \in Range(f)) /\ (\A i \in 1 .. Len(b) : b[i] \in Range(b))
    BY <2>1 DEF IsJoined
  <2> QED BY <2>1, <2>2 DEF IsJoined
<1>7. \A i \in 1 .. Len(f) : f[i] = pile[i] /\ i \in 1 .. n /\ i # n
  <2> HIDE DEF f, n
  <2> QED BY <1>1
<1>8. \A i, j \in 1 .. n : pile[i] = pile[j] => i = j
  BY DEF Walked
<1>9. ASSUME NEW i \in 1 .. Len(b), NEW j \in 1 .. Len(b), b[i] = b[j] PROVE i = j
  <2>1. b[i] # 0
    <3>1. b[i] \in V
      <4> HIDE DEF b, V
      <4> QED BY <1>1
    <3> QED BY <3>1, <1>2 DEF NodesOf
  <2> HIDE DEF b, node
  <2> QED BY <1>2, <1>9, <2>1 DEF IsStructure
<1> HIDE DEF q, f, b, node, V
<1>10. \A i, j \in 1 .. Len(q) : q[i] = q[j] => i = j
  <2> SUFFICES ASSUME NEW i \in 1 .. Len(q), NEW j \in 1 .. Len(q), q[i] = q[j] PROVE i = j
    OBVIOUS
  <2>1. ASSUME NEW k \in 1 .. Len(f) PROVE q[k] = pile[k] /\ q[k] \in seen /\ k \in 1 .. n
    BY <1>3, <1>6, <1>7
  <2>2. ASSUME NEW k \in 1 .. Len(q), k - Len(f) \in 1 .. Len(b), q[k] = b[k - Len(f)]
        PROVE  q[k] \notin seen
    BY <1>5, <1>6, <2>2
  <2>3. CASE i \in 1 .. Len(f) /\ j \in 1 .. Len(f)
    BY <1>8, <2>1, <2>3
  <2>4. CASE i - Len(f) \in 1 .. Len(b) /\ q[i] = b[i - Len(f)] /\ j - Len(f) \in 1 .. Len(b) /\ q[j] = b[j - Len(f)]
    <3>1. i - Len(f) = j - Len(f)
      BY <1>9, <2>4
    <3> QED BY <1>6, <3>1
  <2> QED BY <1>6, <2>1, <2>2, <2>3, <2>4
<1>11. \A i \in 1 .. Len(q) : q[i] \notin more
  <2> SUFFICES ASSUME NEW i \in 1 .. Len(q) PROVE q[i] \notin more
    OBVIOUS
  <2>1. CASE i \in 1 .. Len(f)
    <3>1. q[i] = pile[i] /\ i \in 1 .. n /\ i # n
      BY <1>6, <1>7, <2>1
    <3>2. n \in 1 .. n
      BY <1>1
    <3>3. pile[i] # node /\ pile[i] \notin counted
      BY <1>1, <1>8, <3>1, <3>2 DEF Walked
    <3> QED BY <3>1, <3>3
  <2>2. CASE i - Len(f) \in 1 .. Len(b) /\ q[i] = b[i - Len(f)]
    <3>1. q[i] \in Range(b)
      BY <1>6, <2>2
    <3> QED BY <1>4, <1>5, <3>1
  <2> QED BY <1>6, <2>1, <2>2
<1>12. more \cup Range(q) = seen \cup Range(b)
  BY <1>3, <1>6
<1>13. /\ \A k \in counted \cup {0} : Range(ListOf(s, k)) \subseteq seen
       /\ \A x \in seen : \E k \in counted \cup {0} : x \in Range(ListOf(s, k))
       /\ \A S : ClosedIn(s, S) => seen \subseteq S
       /\ \A x \in counted : ~Unreadable(s, x)
       /\ counted \subseteq V
  BY DEF Walked, V
<1>14. \A S : ClosedIn(s, S) => Range(b) \subseteq S
  <2> SUFFICES ASSUME NEW S, ClosedIn(s, S) PROVE Range(b) \subseteq S
    OBVIOUS
  <2>1. node \in S \ {0}
    BY <1>2, <1>4, <1>13
  <2> QED BY <2>1 DEF ClosedIn, b
<1>15. ~Unreadable(s, node)
  BY DEF node
<1>16. q \in Seq(V) /\ more \subseteq V
  BY <1>1, <1>13 DEF q
<1>17. Walked(s, more, q)
  <2>1. \A k \in more \cup {0} : Range(ListOf(s, k)) \subseteq more \cup Range(q)
    BY <1>2, <1>12, <1>13
  <2>2. \A x \in more \cup Range(q) : \E k \in more \cup {0} : x \in Range(ListOf(s, k))
    BY <1>2, <1>12, <1>13
  <2>3. \A S : ClosedIn(s, S) => more \cup Range(q) \subseteq S
    BY <1>12, <1>13, <1>14
  <2>4. \A x \in more : ~Unreadable(s, x)
    BY <1>13, <1>15
  <2> HIDE DEF more, seen
  <2> QED BY <1>10, <1>11, <1>16, <2>1, <2>2, <2>3, <2>4 DEF Walked, V
<1> QED BY <1>1, <1>4, <1>17 DEF q, node

(* What is counted or in hand is of the structure, and all of it once        *)
(* nothing is in hand.                                                      *)
LEMMA SeenIsDocuments ==
  ASSUME NEW s, IsStructure(s), NEW counted, NEW pile, Walked(s, counted, pile)
  PROVE  /\ IsFiniteSet(Documents_(s)) /\ counted \cup Range(pile) \subseteq Documents_(s)
         /\ pile = <<>> => Documents_(s) = counted
<1> DEFINE all == 0 .. Len(s.below)
<1>1. Documents_(s) = {n \in all : \A S \in SUBSET all : ClosedIn(s, S) => n \in S}
  BY DEF Documents_, ClosedIn
<1>2. Len(s.below) \in Nat
  BY DEF IsStructure
<1>3. IsFiniteSet(Documents_(s))
  <2>1. IsFiniteSet(all)
    <3>1. 0 \in Int /\ Len(s.below) \in Int
      BY <1>2
    <3> QED BY <3>1, FS_Interval
  <2> QED BY <1>1, <2>1, FS_Subset
<1>4. counted \subseteq all /\ Range(pile) \subseteq all
  <2>1. NodesOf(s) \subseteq all
    BY <1>2 DEF NodesOf
  <2>2. Range(pile) \subseteq NodesOf(s)
    <3> DEFINE V == NodesOf(s)
    <3>1. pile \in Seq(V)
      BY DEF Walked
    <3> HIDE DEF V
    <3>2. Range(pile) \subseteq V
      BY <3>1 DEF Range
    <3> QED BY <3>2 DEF V
  <2> QED BY <2>1, <2>2 DEF Walked
<1>5. counted \cup Range(pile) \subseteq Documents_(s)
  <2>1. \A S : ClosedIn(s, S) => counted \cup Range(pile) \subseteq S
    BY DEF Walked
  <2> HIDE DEF all
  <2> QED BY <1>1, <1>4, <2>1
<1>6. ASSUME pile = <<>> PROVE Documents_(s) \subseteq counted
  <2>1. Range(pile) = {}
    BY <1>6 DEF Range
  <2>2. \A k \in counted \cup {0} : Range(ListOf(s, k)) \subseteq counted
    BY <2>1 DEF Walked
  <2>3. 0 \notin counted
    BY DEF Walked, NodesOf
  <2>4. ClosedIn(s, counted)
    BY <2>2, <2>3 DEF ClosedIn, ListOf
  <2> HIDE DEF all
  <2> QED BY <1>1, <1>4, <2>4
<1>7. pile = <<>> => Range(pile) = {}
  BY DEF Range
<1> QED BY <1>3, <1>5, <1>6

(* The walk starts with the roots.                                           *)
LEMMA WalkStarts ==
  ASSUME NEW s, IsStructure(s), s.roots # << 0 >>
  PROVE  Walked(s, {}, s.roots)
<1> DEFINE r == s.roots
           V == NodesOf(s)
<1>1. 0 \in 0 .. Len(s.below) /\ ListOf(s, 0) = r
  BY DEF IsStructure, ListOf
<1>2. r \in Seq(V)
  BY <1>1, ListIn
<1>3. \A i \in 1 .. Len(r) : r[i] \in V
  <2> HIDE DEF r, V
  <2> QED BY <1>2
<1>4. ASSUME NEW i \in 1 .. Len(r), NEW j \in 1 .. Len(r), r[i] = r[j] PROVE i = j
  <2>1. r[i] # 0
    BY <1>3 DEF NodesOf
  <2> HIDE DEF r
  <2> QED BY <1>1, <1>4, <2>1 DEF IsStructure
<1>5. \A S : ClosedIn(s, S) => Range(r) \subseteq S
  BY DEF ClosedIn
<1> HIDE DEF r
<1>6. /\ \A k \in {} \cup {0} : Range(ListOf(s, k)) \subseteq {} \cup Range(r)
      /\ \A n \in {} \cup Range(r) : \E k \in {} \cup {0} : n \in Range(ListOf(s, k))
  BY <1>1
<1> QED BY <1>2, <1>4, <1>5, <1>6 DEF Walked, r

(* What is said of a structure that was walked is true.                      *)
LEMMA CountIsTrue ==
  ASSUME NEW s, IsStructure(s), s.roots # << 0 >>
  PROVE  Claimed(s, CountNodes(s))
<1> DEFINE top == MaxCountedNodes
<1>1. PICK W : /\ CountNodes(s) = W[top][s.roots]
               /\ \A left \in 0 .. top : \A pile \in Seq(NodesOf(s)) :
                    W[left][pile] = Round(s, left, W[left - 1], pile)
  BY WalkRounds
<1> DEFINE Wrong(left, counted, pile) ==
             /\ Walked(s, counted, pile) /\ IsFiniteSet(counted) /\ Cardinality(counted) = top - left
             /\ ~Claimed(s, W[left][pile])
           bad == {left \in 0 .. top : \E counted, pile : Wrong(left, counted, pile)}
<1>2. top \in Nat \ {0}
  BY CuratedAssumption
<1>3. bad = {}
  <2> SUFFICES ASSUME bad # {} PROVE FALSE
    OBVIOUS
  <2>1. PICK left \in bad : \A m \in bad : left <= m
    <3>1. bad \in SUBSET Nat
      BY <1>2
    <3> HIDE DEF bad
    <3> QED BY <3>1, Least
  <2>2. PICK counted, pile : Wrong(left, counted, pile)
    OBVIOUS
  <2>3. /\ Walked(s, counted, pile) /\ IsFiniteSet(counted) /\ Cardinality(counted) = top - left
        /\ ~Claimed(s, W[left][pile]) /\ left \in 0 .. top
    BY <2>2
  <2> HIDE DEF Wrong
  <2>4. W[left][pile] = Round(s, left, W[left - 1], pile) /\ pile \in Seq(NodesOf(s))
    BY <1>1, <2>3 DEF Walked
  <2>5. /\ IsFiniteSet(Documents_(s)) /\ counted \cup Range(pile) \subseteq Documents_(s)
        /\ pile = <<>> => Documents_(s) = counted
    BY <2>3, SeenIsDocuments
  <2> HIDE DEF bad
  <2>6. CASE pile = <<>>
    <3>1. W[left][pile] = [nodes |-> top - left, is |-> "exact"]
      BY <2>4, <2>6 DEF Round, Ends_
    <3>2. 0 \notin counted /\ \A n \in counted : s.document[n]
      BY <2>3 DEF Walked, NodesOf, Unreadable
    <3> QED BY <2>3, <2>5, <2>6, <3>1, <3>2 DEF Claimed
  <2>7. CASE pile # <<>> /\ left = 0
    <3>1. W[left][pile] = [nodes |-> top - 0, is |-> "capped"]
      BY <2>4, <2>7 DEF Round, Ends_
    <3>2. Last(pile) \in Range(pile) /\ Last(pile) \notin counted
      <4>1. Len(pile) \in 1 .. Len(pile) /\ Last(pile) = pile[Len(pile)] /\ DOMAIN pile = 1 .. Len(pile)
        <5>1. Len(pile) \in Nat \ {0} /\ Last(pile) = pile[Len(pile)]
          BY <2>4, <2>7, NextStack
        <5>2. DOMAIN pile = 1 .. Len(pile)
          BY <2>4
        <5> QED BY <5>1, <5>2
      <4> QED BY <2>3, <4>1 DEF Walked, Range
    <3>3. /\ IsFiniteSet(counted \cup {Last(pile)})
          /\ Cardinality(counted \cup {Last(pile)}) = top + 1
      <4>1. Cardinality(counted) = top
        BY <1>2, <2>3, <2>7
      <4> QED BY <2>3, <3>2, <4>1, FS_AddElement
    <3>4. counted \cup {Last(pile)} \subseteq Documents_(s)
      BY <2>5, <3>2
    <3>5. Cardinality(counted \cup {Last(pile)}) <= Cardinality(Documents_(s))
      BY <2>5, <3>4, FS_Subset
    <3>6. Cardinality(Documents_(s)) \in Nat
      BY <2>5, FS_CardinalityType
    <3>7. Cardinality(Documents_(s)) > top /\ top - 0 = top
      BY <1>2, <3>3, <3>5, <3>6
    <3> QED BY <2>3, <3>1, <3>7 DEF Claimed
  <2>8. CASE pile # <<>> /\ left # 0 /\ Unreadable(s, Last(pile))
    <3>1. W[left][pile] = [nodes |-> top - left, is |-> "unrecognized"]
      BY <2>4, <2>8 DEF Round, Ends_
    <3> QED BY <2>3, <3>1 DEF Claimed
  <2>9. CASE pile # <<>> /\ left # 0 /\ ~Unreadable(s, Last(pile))
    <3>1. W[left][pile] = W[left - 1][Next_(s, pile)]
      BY <2>4, <2>9 DEF Round
    <3>2. Last(pile) \notin counted /\ Walked(s, counted \cup {Last(pile)}, Next_(s, pile))
      BY <2>3, <2>9, WalkStep
    <3>3. /\ IsFiniteSet(counted \cup {Last(pile)})
          /\ Cardinality(counted \cup {Last(pile)}) = top - (left - 1)
      <4>1. /\ IsFiniteSet(counted \cup {Last(pile)})
            /\ Cardinality(counted \cup {Last(pile)}) = (top - left) + 1
        BY <2>3, <3>2, FS_AddElement
      <4> QED BY <1>2, <2>3, <4>1
    <3>4. left - 1 \in 0 .. top /\ left - 1 < left
      BY <1>2, <2>3, <2>9
    <3>5. Wrong(left - 1, counted \cup {Last(pile)}, Next_(s, pile))
      BY <2>3, <3>1, <3>2, <3>3 DEF Wrong
    <3>6. left - 1 \in bad
      BY <3>4, <3>5 DEF bad
    <3>7. left <= left - 1
      BY <2>1, <3>6
    <3> QED BY <2>3, <3>4, <3>7
  <2> QED BY <2>6, <2>7, <2>8, <2>9
<1>4. Walked(s, {}, s.roots)
  BY WalkStarts
<1>5. IsFiniteSet({}) /\ Cardinality({}) = top - top /\ top \in 0 .. top
  BY <1>2, FS_EmptySet
<1>6. Claimed(s, W[top][s.roots])
  <2> SUFFICES ASSUME ~Claimed(s, W[top][s.roots]) PROVE FALSE
    OBVIOUS
  <2>1. Wrong(top, {}, s.roots)
    BY <1>4, <1>5
  <2> HIDE DEF Wrong
  <2>2. top \in bad
    BY <1>5, <2>1
  <2> QED BY <1>3, <2>2
<1> QED BY <1>1, <1>6

(* Whether a row could be looked up and read or not, what is made of it is   *)
(* one of the five outcomes, and what is claimed of a structure is so.      *)
Outcome == {"exact", "capped", "unrecognized", "failed"}
LEMMA CountedIsTrue ==
  ASSUME NEW lookup, {lookup.named, lookup.read} \subseteq BOOLEAN, IsStructure(lookup.structure)
  PROVE  /\ lookup.named => Counted(lookup).is \in Outcome
         /\ ~lookup.named => Counted(lookup).is = "not looked up"
         /\ Counted(lookup).is \in {"exact", "capped"} =>
              lookup.read /\ Claimed(lookup.structure, Counted(lookup))
<1> DEFINE s == lookup.structure
<1> USE DEF Outcome
<1>0. CASE ~lookup.named
  BY <1>0 DEF Counted
<1>1. CASE lookup.named /\ ~lookup.read
  BY <1>1 DEF Counted
<1>2. CASE lookup.named /\ lookup.read /\ s.roots = <<0>>
  BY <1>2 DEF Counted, CountNodes
<1>3. CASE lookup.named /\ lookup.read /\ s.roots # <<0>>
  <2>1. Counted(lookup) = CountNodes(s)
    BY <1>3 DEF Counted
  <2>2. Claimed(s, CountNodes(s))
    BY <1>3, CountIsTrue
  <2> QED BY <1>3, <2>1, <2>2 DEF Claimed
<1> QED BY <1>0, <1>1, <1>2, <1>3

(* A count that reads as exact, or as the most that is counted, is the       *)
(* number of documents of a structure that was read, and every other one is *)
(* marked, and counted in the warning if it has an id, whatever the server  *)
(* sends (collections.rs document_counts, count_nodes).                     *)
THEOREM CountsAreExactForAll ==
  ASSUME NEW lookups, NEW limit, IsLookups(lookups)
  PROVE  CountsAreExact(lookups, limit)
<1> DEFINE rows == 1 .. Len(lookups)
           Is(i) == Counted(lookups[i]).is
           l == ListCollections(lookups, limit)
           counts == [i \in rows |-> Counted(lookups[i])]
           Of(how) == {i \in rows : Is(i) = how}
           Marked(how) == {i \in rows : lookups[i].named /\ l.labels[i].is = how}
<1>1. Len(lookups) \in Nat
  BY DEF IsLookups
<1>2. \A i \in rows : /\ lookups[i].named => Is(i) \in Outcome
                      /\ ~lookups[i].named => Is(i) = "not looked up"
                      /\ Is(i) \in {"exact", "capped"} =>
                           lookups[i].read /\ Claimed(lookups[i].structure, Counted(lookups[i]))
  BY CountedIsTrue DEF IsLookups
<1>3. Len(counts) = Len(lookups) /\ \A i \in rows : counts[i] = Counted(lookups[i])
  BY <1>1
<1>4. /\ \A i \in rows : l.labels[i] = CountLabel(Counted(lookups[i]))
      /\ l.warned.failed = Cardinality(Of("failed"))
      /\ l.warned.unrecognized = Cardinality(Of("unrecognized"))
      /\ l.warned.capped = Cardinality(Of("capped"))
  <2>1. l = [labels |-> [i \in 1 .. Len(counts) |-> CountLabel(counts[i])],
             warned |-> [failed |-> Cardinality({i \in 1 .. Len(counts) : counts[i].is = "failed"}),
                         unrecognized |-> Cardinality({i \in 1 .. Len(counts) : counts[i].is = "unrecognized"}),
                         capped |-> Cardinality({i \in 1 .. Len(counts) : counts[i].is = "capped"})],
             exit |-> ListExit(limit, TRUE)]
    BY DEF ListCollections
  <2>2. \A how : {i \in 1 .. Len(counts) : counts[i].is = how} = Of(how)
    BY <1>3
  <2> HIDE DEF counts, l, Of
  <2> QED BY <1>3, <2>1, <2>2
<1>5. ASSUME NEW i \in rows
      PROVE  /\ lookups[i].named => (l.labels[i].is = Uncounted <=> Is(i) \in {"unrecognized", "failed"})
             /\ ~lookups[i].named => l.labels[i].is = Uncounted /\ Is(i) = "not looked up"
             /\ \A how \in {"exact", "capped"} : l.labels[i].is = how <=> Is(i) = how
             /\ Is(i) \in {"exact", "capped"} => l.labels[i] = Counted(lookups[i])
  <2>1. l.labels[i] = CountLabel(Counted(lookups[i]))
    BY <1>4
  <2> DEFINE c == Counted(lookups[i])
  <2>2. CASE lookups[i].named
    <3>1. c.is \in Outcome
      BY <1>2, <2>2
    <3> HIDE DEF c
    <3>2. /\ CountLabel(c).is = Uncounted <=> c.is \in {"unrecognized", "failed"}
          /\ \A how \in {"exact", "capped"} : CountLabel(c).is = how <=> c.is = how
          /\ c.is \in {"exact", "capped"} => CountLabel(c) = c
      BY <3>1 DEF CountLabel, Uncounted, Outcome
    <3> HIDE DEF l
    <3> QED BY <2>1, <2>2, <3>2 DEF c
  <2>3. CASE ~lookups[i].named
    <3>1. c.is = "not looked up"
      BY <1>2, <2>3
    <3> HIDE DEF c
    <3>2. CountLabel(c).is = Uncounted /\ Uncounted \notin {"exact", "capped"}
      BY <3>1 DEF CountLabel, Uncounted
    <3> HIDE DEF l
    <3> QED BY <2>1, <2>3, <3>1, <3>2 DEF c
  <2> QED BY <2>2, <2>3
<1>6. ASSUME NEW i \in rows, l.labels[i].is # Uncounted
      PROVE  LET all == Documents_(lookups[i].structure)
             IN  /\ lookups[i].named /\ lookups[i].read
                 /\ l.labels[i].is = "exact" =>
                      /\ 0 \notin all /\ \A n \in all : lookups[i].structure.document[n]
                      /\ l.labels[i].nodes = Cardinality(all)
                 /\ l.labels[i].is = "capped" =>
                      l.labels[i].nodes = MaxCountedNodes /\ Cardinality(all) > MaxCountedNodes
  <2>1. Is(i) \in {"exact", "capped"} /\ lookups[i].named
    BY <1>2, <1>5, <1>6 DEF Outcome
  <2>2. l.labels[i] = Counted(lookups[i]) /\ lookups[i].read
        /\ Claimed(lookups[i].structure, Counted(lookups[i]))
    BY <1>2, <1>5, <2>1
  <2> HIDE DEF l
  <2> QED BY <2>1, <2>2 DEF Claimed
<1>7. /\ Marked(Uncounted) = Of("failed") \cup Of("unrecognized") /\ Of("failed") \cap Of("unrecognized") = {}
      /\ Marked("capped") = Of("capped")
  <2> HIDE DEF l, Is
  <2> QED BY <1>5
<1>8. \A how : IsFiniteSet(Of(how)) /\ Cardinality(Of(how)) \in Nat
  <2>1. IsFiniteSet(rows)
    <3>1. 1 \in Int /\ Len(lookups) \in Int
      BY <1>1
    <3> QED BY <3>1, FS_Interval
  <2>2. \A how : Of(how) \subseteq rows
    OBVIOUS
  <2> HIDE DEF rows, Of
  <2> QED BY <2>1, <2>2, FS_Subset, FS_CardinalityType
<1>9. Cardinality(Marked(Uncounted)) = Cardinality(Of("failed")) + Cardinality(Of("unrecognized"))
  <2> HIDE DEF Of, Marked
  <2>1. Cardinality(Of("failed") \cup Of("unrecognized"))
          = Cardinality(Of("failed")) + Cardinality(Of("unrecognized"))
            - Cardinality(Of("failed") \cap Of("unrecognized"))
    BY <1>8, FS_Union
  <2>2. Cardinality(Of("failed") \cap Of("unrecognized")) = 0
    BY <1>7, FS_EmptySet
  <2> QED BY <1>7, <1>8, <2>1, <2>2
<1>10. /\ l.warned.failed + l.warned.unrecognized = Cardinality(Marked(Uncounted))
       /\ l.warned.capped = Cardinality(Marked("capped"))
  <2> HIDE DEF l, Of
  <2> QED BY <1>4, <1>7, <1>9
<1> QED
  <2> HIDE DEF Is
  <2> QED BY <1>6, <1>10 DEF CountsAreExact

-----------------------------------------------------------------------------
(* A comment that was fetched and matches is listed, one that is not is      *)
(* accounted for by a filter that is named, and a listing that ends well is *)
(* all of what was asked for (comments.rs list).                            *)
THEOREM ListTellsForAll ==
  ASSUME NEW comments, comments \in Seq(Range(comments)), NEW limit, NEW args, NEW shows \in BOOLEAN
  PROVE  ListTells(comments, limit, args, shows)
<1> DEFINE all == 1 .. Len(comments)
           matching == {i \in all : Keeps(comments[i], args)}
           kept == Picked(comments, matching)
           dropped == DroppedBy(comments, args)
           l == ListComments(comments, limit, args, shows)
<1>1. Len(comments) \in Nat /\ Len(kept) = Cardinality(matching)
  <2>1. Len(comments) \in Nat /\ matching \in SUBSET (1 .. Len(comments))
    OBVIOUS
  <2> HIDE DEF matching
  <2> QED BY <2>1, PickedFrom
<1>2. dropped.parent \/ dropped.status <=> matching # all
  <2>1. dropped.parent <=> \E i \in all : args.parent # 0 /\ comments[i].parent # args.parent
    BY DEF DroppedBy
  <2>2. dropped.status <=> \E i \in all : /\ args.parent = 0 \/ comments[i].parent = args.parent
                                         /\ ~Keeps(comments[i], args)
    BY DEF DroppedBy
  <2>3. matching # all <=> \E i \in all : ~Keeps(comments[i], args)
    OBVIOUS
  <2>4. \A i \in all : (args.parent # 0 /\ comments[i].parent # args.parent) => ~Keeps(comments[i], args)
    BY DEF Keeps
  <2> HIDE DEF dropped, matching
  <2> QED BY <2>1, <2>2, <2>3, <2>4
<1>3. Cardinality(matching) = Len(comments) <=> matching = all
  <2>1. IsFiniteSet(all) /\ Cardinality(all) = Len(comments)
    <3>1. 1 \in Int /\ Len(comments) \in Int
      BY <1>1
    <3>2. IsFiniteSet(1 .. Len(comments))
          /\ Cardinality(1 .. Len(comments)) = IF 1 > Len(comments) THEN 0 ELSE Len(comments) - 1 + 1
      BY <3>1, FS_Interval
    <3> QED BY <1>1, <3>2
  <2>2. matching \subseteq all
    OBVIOUS
  <2> HIDE DEF all, matching
  <2> QED BY <2>1, <2>2, FS_Subset
<1>4. /\ l.rows = IF shows THEN kept ELSE <<>>
      /\ l.note = IF dropped.parent \/ dropped.status THEN <<Len(kept), Len(comments), dropped>> ELSE <<>>
      /\ l.warned = (limit # "none") /\ l.exit = ListExit(limit, shows)
  BY DEF ListComments
<1>5. l.exit = "ok" => shows /\ limit \in {"none", "MaxItems"}
  <2> HIDE DEF l
  <2> QED BY <1>4 DEF ListExit, Incomplete
<1> QED
  <2> HIDE DEF l, kept, dropped, matching
  <2>1. l.exit = "ok" => Len(l.rows) = Cardinality(matching) /\ limit \in {"none", "MaxItems"}
    BY <1>1, <1>4, <1>5
  <2>2. l.note = <<>> <=> Cardinality(matching) = Len(comments)
    <3>1. <<Len(kept), Len(comments), dropped>> # <<>>
      OBVIOUS
    <3> QED BY <1>2, <1>3, <1>4, <3>1
  <2>3. l.note # <<>> => l.note[3].parent \/ l.note[3].status
    BY <1>4
  <2>4. limit # "none" => l.warned
    BY <1>4
  <2> QED BY <2>1, <2>2, <2>3, <2>4 DEF ListTells, matching, l

-----------------------------------------------------------------------------
(* The outline of a document, and a section that is printed and given back.  *)

(* The headings of a body are finitely many lines of it.                    *)
LEMMA HeadingsFinite ==
  ASSUME NEW body \in Texts, NEW S \in SUBSET Headings(body)
  PROVE  S \in SUBSET Nat /\ IsFiniteSet(S) /\ S \subseteq 1 .. Len(body)
<1>1. Len(body) \in Nat
  BY BodyType
<1>2. S \subseteq 1 .. Len(body)
  BY DEF Headings
<1>3. IsFiniteSet(1 .. Len(body))
  <2>1. 1 \in Int /\ Len(body) \in Int
    BY <1>1
  <2> QED BY <2>1, FS_Interval
<1>4. S \in SUBSET Nat
  BY <1>1, <1>2
<1> QED BY <1>2, <1>3, <1>4, FS_Subset

(* The headings around a heading come in their order, and it is one of them.*)
LEMMA ChainOf ==
  ASSUME NEW body \in Texts, NEW i \in Headings(body)
  PROVE  /\ InItsOrder(Around(body, i), Chain(body, i))
         /\ Len(Chain(body, i)) \in Nat \ {0}
<1>1. Around(body, i) \in SUBSET Headings(body)
  BY DEF Around
<1>2. Around(body, i) \in SUBSET Nat /\ IsFiniteSet(Around(body, i))
  BY <1>1, HeadingsFinite
<1>3. InItsOrder(Around(body, i), Chain(body, i))
  BY <1>2, AscendingOf DEF Chain
<1>4. i \in Around(body, i)
  <2>1. i \in 1 .. Len(body) /\ End(body, i) \in i + 1 .. Len(body) + 1 /\ Len(body) \in Nat
    BY EndIsAfter, BodyType
  <2>2. i <= i /\ i < End(body, i)
    BY <2>1
  <2> QED BY <2>2 DEF Around
<1>5. Len(Chain(body, i)) # 0
  BY <1>3, <1>4 DEF InItsOrder
<1> QED BY <1>3, <1>5 DEF InItsOrder

(* A path of titles that read as themselves is read as those titles.        *)
LEMMA AddressOf ==
  ASSUME NEW titles, Len(titles) \in Nat \ {0}, PlainPath(titles)
  PROVE  ReadAddress(titles) = [k \in 1 .. Len(titles) |-> [level |-> 0, title |-> titles[k]]]
<1> DEFINE n == Len(titles)
           seg(k) == [level |-> 0, title |-> titles[k]]
           parts == [k \in 1 .. n |-> ReadBack(titles[k])]
           V == {seg(k) : k \in 1 .. n}
           upto == [m \in 1 .. n |-> [k \in 1 .. m |-> seg(k)]]
           Joins_(f) == f = [i \in 1 .. n |-> IF i = 1 THEN parts[i] ELSE f[i - 1] \o parts[i]]
           flat == CHOOSE f : Joins_(f)
<1>1. n \in Nat \ {0} /\ Len(parts) = n
  OBVIOUS
<1>2. \A k \in 1 .. n : parts[k] = <<seg(k)>>
  BY DEF PlainPath
<1>3. ReadAddress(titles) = flat[n]
  BY <1>1 DEF ReadAddress, FlattenSeq
<1> HIDE DEF seg
<1>4. ASSUME NEW m \in 2 .. n
      PROVE  [k \in 1 .. m |-> seg(k)] = [k \in 1 .. m - 1 |-> seg(k)] \o <<seg(m)>>
  <2>1. m \in Nat /\ m - 1 \in Nat /\ (\A k \in 1 .. m : seg(k) \in V) /\ \A k \in 1 .. m - 1 : seg(k) \in V
    BY <1>1
  <2> HIDE DEF V, n
  <2>2. [k \in 1 .. m |-> seg(k)] \in Seq(V) /\ [k \in 1 .. m - 1 |-> seg(k)] \in Seq(V) /\ <<seg(m)>> \in Seq(V)
    BY <2>1
  <2> QED BY <2>1, <2>2
<1>5. Joins_(upto)
  <2>1. upto[1] = <<seg(1)>>
    BY <1>1
  <2>2. \A m \in 2 .. n : upto[m] = upto[m - 1] \o <<seg(m)>>
    BY <1>1, <1>4
  <2>3. \A m \in 1 .. n : m = 1 \/ m \in 2 .. n
    BY <1>1
  <2>4. \A m \in 1 .. n : upto[m] = IF m = 1 THEN parts[m] ELSE upto[m - 1] \o parts[m]
    <3> HIDE DEF parts, upto, n
    <3> QED BY <1>2, <2>1, <2>2, <2>3
  <2>5. upto = [m \in 1 .. n |-> upto[m]]
    OBVIOUS
  <2> HIDE DEF upto, parts, n
  <2> QED BY <2>4, <2>5
<1>6. Joins_(flat)
  BY <1>5
<1>7. \A m \in 1 .. n : flat[m] = IF m = 1 THEN parts[m] ELSE flat[m - 1] \o parts[m]
  <2> HIDE DEF flat, parts, n
  <2> QED BY <1>6
<1> DEFINE bad == {m \in 1 .. n : flat[m] # upto[m]}
<1>8. ASSUME bad # {} PROVE FALSE
  <2>1. bad \in SUBSET Nat
    BY <1>1
  <2>2. PICK m \in bad : \A j \in bad : m <= j
    <3> HIDE DEF bad
    <3> QED BY <1>8, <2>1, Least
  <2> HIDE DEF flat, parts
  <2>3. m \in 1 .. n /\ flat[m] # upto[m]
    OBVIOUS
  <2>4. CASE m = 1
    <3>1. upto[1] = <<seg(1)>>
      BY <1>1
    <3> HIDE DEF upto, n
    <3> QED BY <1>2, <1>7, <2>3, <2>4, <3>1
  <2>5. CASE m # 1
    <3>1. m \in 2 .. n /\ m - 1 \in 1 .. n /\ ~(m <= m - 1)
      BY <1>1, <2>3, <2>5
    <3>2. flat[m - 1] = upto[m - 1]
      BY <2>2, <3>1
    <3>3. upto[m] = upto[m - 1] \o <<seg(m)>>
      BY <1>1, <1>4, <3>1
    <3> HIDE DEF upto, n, bad
    <3> QED BY <1>2, <1>7, <2>3, <2>5, <3>2, <3>3
  <2> QED BY <2>4, <2>5
<1>9. flat[n] = upto[n]
  <2>1. n \in 1 .. n
    BY <1>1
  <2> HIDE DEF flat, upto, n
  <2> QED BY <1>8, <2>1
<1>10. upto[n] = [k \in 1 .. n |-> seg(k)]
  BY <1>1
<1> QED BY <1>3, <1>9, <1>10 DEF seg

(* The address of a heading whose titles read as themselves names it.       *)
LEMMA AddressNames ==
  ASSUME NEW body \in Texts, NEW i \in Headings(body), PlainPath(PathOf(body, i))
  PROVE  i \in Resolve(body, ReadAddress(PathOf(body, i)))
<1> DEFINE chain == Chain(body, i)
           n == Len(chain)
           titles == PathOf(body, i)
           address == ReadAddress(titles)
<1>1. n \in Nat \ {0}
  BY ChainOf
<1>2. titles = [k \in 1 .. n |-> body[chain[k]][3]]
  BY DEF PathOf
<1> HIDE DEF chain
<1>3. Len(titles) = n /\ \A k \in 1 .. n : titles[k] = body[chain[k]][3]
  <2> HIDE DEF titles
  <2> QED BY <1>1, <1>2
<1>4. address = [k \in 1 .. n |-> [level |-> 0, title |-> titles[k]]]
  <2>1. Len(titles) \in Nat \ {0}
    BY <1>1, <1>3
  <2> HIDE DEF titles
  <2> QED BY <1>3, <2>1, AddressOf DEF titles
<1>5. Len(address) = n /\ address # <<>> /\ \A k \in 1 .. n : address[k].level = 0 /\ address[k].title = titles[k]
  <2> HIDE DEF address
  <2>1. Len(address) = n
    BY <1>1, <1>4
  <2> QED BY <1>1, <1>4, <2>1
<1>6. Matches(body, i, address, FALSE)
  <2> HIDE DEF address, titles
  <2>1. n - n >= 0 /\ \A k \in 1 .. n : n - n + k = k
    BY <1>1
  <2> QED BY <1>3, <1>5, <2>1 DEF Matches, Same, chain
<1>7. i \in Hits(body, address, FALSE)
  <2> HIDE DEF address
  <2> QED BY <1>5, <1>6 DEF Hits
<1> QED
  <2> HIDE DEF address
  <2>1. i \in Resolve(body, address)
    BY <1>7 DEF Resolve
  <2> QED BY <2>1 DEF address

(* A text and the blank lines that were taken off its end are the text.     *)
LEMMA PutBack ==
  ASSUME NEW body \in Texts, NEW i \in Headings(body)
  PROVE  NewSection(body, i, SectionText(body, i)) = SectionText(body, i)
<1> DEFINE text == SectionText(body, i)
           n == Trailing(text)
           rest == Len(text) - n
           blanks == [k \in 1 .. n |-> Blank]
           end == SubSeq(text, rest + 1, Len(text))
<1>1. text \in Texts
  <2>1. Len(body) \in Nat /\ i \in 1 .. Len(body) /\ End(body, i) \in i + 1 .. Len(body) + 1
    BY BodyType, EndIsAfter
  <2>2. i \in Nat \ {0} /\ End(body, i) - 1 \in Nat /\ End(body, i) - 1 <= Len(body)
    BY <2>1
  <2> QED BY <2>2, PartOf DEF SectionText
<1> HIDE DEF text
<1>2. Len(text) \in Nat /\ n \in 0 .. Len(text) /\ IsBlank(end)
  BY <1>1, BodyType, TrailingOf
<1>3. rest \in Nat /\ rest + 1 \in Nat \ {0} /\ rest <= Len(text)
  BY <1>2
<1>4. end \in Texts /\ Len(end) = n
  <2>1. end \in Texts /\ Len(end) = IF rest + 1 <= Len(text) THEN Len(text) - (rest + 1) + 1 ELSE 0
    BY <1>1, <1>2, <1>3, PartOf
  <2> HIDE DEF n
  <2> QED BY <1>2, <2>1
<1>5. blanks \in Texts /\ Len(blanks) = n
  <2> HIDE DEF n
  <2> QED BY <1>2, PlainLines DEF Texts
<1>6. end = blanks
  <2>1. \A k \in 1 .. n : end[k] = Blank /\ blanks[k] = Blank
    <3> HIDE DEF end, n
    <3> QED BY <1>2, <1>4 DEF IsBlank
  <2> HIDE DEF end, blanks, n
  <2> QED BY <1>4, <1>5, <2>1, SameLines
<1>7. SubSeq(text, 1, rest) \o end = SubSeq(text, 1, Len(text))
  <2> DEFINE k == rest + 1
  <2>1. 1 \in Nat \ {0} /\ k \in Nat \ {0} /\ 1 <= k /\ k <= Len(text) + 1 /\ k - 1 = rest /\ Len(text) <= Len(text)
    BY <1>2, <1>3
  <2> HIDE DEF k, n
  <2>2. SubSeq(text, 1, k - 1) \o SubSeq(text, k, Len(text)) = SubSeq(text, 1, Len(text))
    BY <1>1, <1>2, <2>1, Adjacent
  <2> QED BY <2>1, <2>2 DEF k
<1>8. SubSeq(text, 1, Len(text)) = text
  <2>1. text \in Seq(BodyLines)
    BY <1>1 DEF Texts
  <2> QED BY <2>1
<1>9. NewSection(body, i, text) = SubSeq(text, 1, rest) \o blanks
  BY DEF NewSection, Trimmed, text
<1> QED
  <2> HIDE DEF end, blanks, rest
  <2>1. NewSection(body, i, text) = text
    BY <1>6, <1>7, <1>8, <1>9
  <2> QED BY <2>1 DEF text

(* A section that is given back as it is leaves the body as it is.          *)
LEMMA GivenBackIsSame ==
  ASSUME NEW body \in Texts, NEW i \in Headings(body)
  PROVE  GivenBackAt(body, i, SectionText(body, i)) = body
<1> DEFINE text == SectionText(body, i)
           end == End(body, i)
           edit == EditOf(body, i, text)
<1>1. Len(body) \in Nat /\ i \in 1 .. Len(body) /\ end \in i + 1 .. Len(body) + 1
  BY BodyType, EndIsAfter
<1>2. text \in Texts /\ text = SubSeq(body, i, end - 1)
  <2>1. i \in Nat \ {0} /\ end - 1 \in Nat /\ end - 1 <= Len(body)
    BY <1>1
  <2> QED BY <2>1, PartOf DEF SectionText
<1>3. WithSection(body, i, text) = body
  <2> HIDE DEF end
  <2>1. SubSeq(body, i, end - 1) \o SubSeq(body, end, Len(body)) = SubSeq(body, i, Len(body))
    <3>1. i \in Nat \ {0} /\ end \in Nat \ {0} /\ i <= end /\ end <= Len(body) + 1 /\ Len(body) <= Len(body)
      BY <1>1
    <3> QED BY <1>1, <3>1, Adjacent
  <2>2. SubSeq(body, 1, i - 1) \o SubSeq(body, i, Len(body)) = SubSeq(body, 1, Len(body))
    <3>1. 1 \in Nat \ {0} /\ i \in Nat \ {0} /\ 1 <= i /\ i <= Len(body) + 1
      BY <1>1
    <3> QED BY <1>1, <3>1, Adjacent
  <2>3. SubSeq(body, 1, Len(body)) = body
    <3>1. body \in Seq(BodyLines)
      BY DEF Texts
    <3> QED BY <3>1
  <2>4. SubSeq(body, 1, i - 1) \in Texts /\ SubSeq(body, end, Len(body)) \in Texts
    <3>1. i - 1 \in Nat /\ i - 1 <= Len(body) /\ 1 \in Nat \ {0} /\ end \in Nat \ {0}
      BY <1>1
    <3> QED BY <1>1, <3>1, PartOf
  <2>5. Associative(SubSeq(body, 1, i - 1), text, SubSeq(body, end, Len(body)))
    BY <1>2, <2>4, Associates
  <2> HIDE DEF text
  <2>6. SubSeq(body, 1, i - 1) \o text \o SubSeq(body, end, Len(body))
          = SubSeq(body, 1, i - 1) \o (text \o SubSeq(body, end, Len(body)))
    BY <2>5 DEF Associative
  <2>7. SubSeq(body, 1, i - 1) \o text \o SubSeq(body, end, Len(body)) = body
    BY <1>2, <2>1, <2>2, <2>3, <2>6
  <2> QED BY <2>7 DEF WithSection, end
<1>4. NewSection(body, i, text) = text
  BY PutBack
<1>5. /\ edit.mode \in {"replace", "patch"}
      /\ edit.mode = "replace" => edit.text = body
      /\ edit.mode = "patch" => /\ Occurrences(body, edit.find) # {}
                               /\ \A at \in Occurrences(body, edit.find) : Applied(body, edit, at) = body
  <2> HIDE DEF text
  <2> QED BY <1>2, <1>3, MarkdownAssumption, EditReplaces
<1>6. GivenBackAt(body, i, text) = Made(body, edit)
  BY <1>4 DEF GivenBackAt
<1> HIDE DEF edit, text
<1>7. Made(body, edit) = body
  BY <1>5 DEF Made
<1> QED BY <1>6, <1>7 DEF text

(* The entries of an outline are the headings, in their order.              *)
LEMMA OutlineOf ==
  ASSUME NEW body \in Texts
  PROVE  LET outline == Outline(body)
         IN  /\ Len(outline) \in Nat
             /\ \A k \in 1 .. Len(outline) :
                  /\ outline[k].line \in Headings(body)
                  /\ outline[k].path = PathOf(body, outline[k].line)
                  /\ outline[k].size = End(body, outline[k].line) - outline[k].line
             /\ \A j, k \in 1 .. Len(outline) : j < k => outline[j].line < outline[k].line
<1> DEFINE n == Cardinality(Headings(body))
           lines == Ascending(Headings(body))
           outline == Outline(body)
<1>1. InItsOrder(Headings(body), lines)
  BY HeadingsFinite, AscendingOf
<1>2. outline = [k \in 1 .. n |-> [line |-> lines[k], path |-> PathOf(body, lines[k]),
                                  size |-> End(body, lines[k]) - lines[k]]]
  BY DEF Outline
<1> HIDE DEF outline, lines, n
<1>3. n \in Nat /\ (\A k \in 1 .. n : lines[k] \in Headings(body))
      /\ \A j, k \in 1 .. n : j < k => lines[j] < lines[k]
  BY <1>1 DEF InItsOrder, n
<1>4. Len(outline) = n
      /\ \A k \in 1 .. n : /\ outline[k].line = lines[k] /\ outline[k].path = PathOf(body, lines[k])
                           /\ outline[k].size = End(body, lines[k]) - lines[k]
  BY <1>2, <1>3
<1> QED BY <1>3, <1>4 DEF outline

(* A section that begins in another is deeper, and ends in it.              *)
LEMMA SectionsNest ==
  ASSUME NEW body \in Texts, NEW i \in Headings(body), NEW k \in Headings(body), i < k, k < End(body, i)
  PROVE  End(body, k) <= End(body, i) /\ body[k][2] > body[i][2]
<1> DEFINE following(h) == {j \in Headings(body) : j > h /\ body[j][2] <= body[h][2]}
<1>1. /\ Len(body) \in Nat /\ \A h \in Headings(body) : h \in Nat /\ body[h][2] \in Nat
      /\ \A h \in Headings(body) : End(body, h) \in Nat /\ End(body, h) <= Len(body) + 1
  <2>1. Len(body) \in Nat /\ \A h \in 1 .. Len(body) : body[h] \in BodyLines
    BY BodyType
  <2>2. \A line \in BodyLines : line[2] \in Nat
    BY DEF BodyLines
  <2>3. \A h \in Headings(body) : h \in 1 .. Len(body) /\ End(body, h) \in h + 1 .. Len(body) + 1
    BY EndIsAfter
  <2> QED BY <2>1, <2>2, <2>3
<1>2. ASSUME NEW h \in Headings(body)
      PROVE  IF following(h) = {} THEN End(body, h) = Len(body) + 1
             ELSE End(body, h) \in following(h) /\ \A j \in following(h) : End(body, h) <= j
  <2>1. following(h) \in SUBSET Nat
    BY <1>1
  <2>2. following(h) # {} => \E j \in following(h) : \A m \in following(h) : j <= m
    <3> HIDE DEF following
    <3> QED BY <2>1, Least
  <2>3. End(body, h) = IF following(h) = {} THEN Len(body) + 1
                       ELSE CHOOSE j \in following(h) : \A m \in following(h) : j <= m
    BY DEF End
  <2> HIDE DEF following
  <2> QED BY <2>2, <2>3
<1>3. body[k][2] > body[i][2]
  <2> SUFFICES ASSUME body[k][2] <= body[i][2] PROVE FALSE
    BY <1>1
  <2>1. k \in following(i)
    BY <1>1
  <2>2. End(body, i) <= k
    <3> HIDE DEF following
    <3> QED BY <1>2, <2>1
  <2> QED BY <1>1, <2>2
<1>4. CASE following(i) = {}
  <2>1. End(body, i) = Len(body) + 1
    <3> HIDE DEF following
    <3> QED BY <1>2, <1>4
  <2> QED BY <1>1, <1>3, <2>1
<1>5. CASE following(i) # {}
  <2>1. End(body, i) \in following(i)
    <3> HIDE DEF following
    <3> QED BY <1>2, <1>5
  <2>2. End(body, i) \in following(k)
    <3>1. body[End(body, i)][2] <= body[i][2] /\ End(body, i) \in Headings(body)
      BY <2>1
    <3>2. body[End(body, i)][2] <= body[k][2]
      BY <1>1, <1>3, <3>1
    <3> QED BY <1>1, <3>1, <3>2
  <2>3. End(body, k) <= End(body, i)
    <3> HIDE DEF following
    <3> QED BY <1>2, <2>2
  <2> QED BY <1>3, <2>3
<1> QED BY <1>4, <1>5

(* An address that the outline of a document prints, of titles that read as  *)
(* themselves, prints its own section or is refused as ambiguous; sections  *)
(* overlap only where one lies in the other; and a section that is printed  *)
(* and given back as it is leaves the document as it was: of every document *)
(* (docs/view.rs, section/).                                                *)
THEOREM OutlineIsUsableForAll ==
  ASSUME NEW body \in Seq(BodyLines)
  PROVE  OutlineIsUsable(body)
<1> DEFINE outline == Outline(body)
<1>0. body \in Texts
  BY DEF Texts
<1>1. /\ Len(outline) \in Nat
      /\ \A k \in 1 .. Len(outline) :
           /\ outline[k].line \in Headings(body)
           /\ outline[k].path = PathOf(body, outline[k].line)
           /\ outline[k].size = End(body, outline[k].line) - outline[k].line
      /\ \A j, k \in 1 .. Len(outline) : j < k => outline[j].line < outline[k].line
  BY <1>0, OutlineOf
<1>2. ASSUME NEW i \in Headings(body)
      PROVE  /\ End(body, i) \in Nat /\ i \in Nat /\ i + (End(body, i) - i) = End(body, i)
             /\ SubSeq(body, i, i + (End(body, i) - i) - 1) = SectionText(body, i)
  <2>1. i \in 1 .. Len(body) /\ End(body, i) \in i + 1 .. Len(body) + 1 /\ Len(body) \in Nat
    BY <1>0, EndIsAfter, BodyType
  <2>2. i \in Nat /\ End(body, i) \in Nat
    BY <2>1
  <2>3. i + (End(body, i) - i) = End(body, i)
    BY <2>2
  <2> QED BY <2>2, <2>3 DEF SectionText
<1>3. ASSUME NEW address
      PROVE  LET found == Resolve(body, address)
                 printed_ == PrintSection(body, address)
             IN  /\ Cardinality(found) # 1 => printed_ = <<>>
                 /\ Cardinality(found) = 1 =>
                      \E c \in Headings(body) :
                        /\ found = {c} /\ printed_ = <<SectionText(body, c)>>
                        /\ GivenBack(body, address, printed_[1]) = body
  <2> DEFINE found == Resolve(body, address)
  <2>1. IsFiniteSet(found) /\ found \subseteq Headings(body)
    BY <1>0, ResolveType, HeadingsFinite
  <2>2. CASE Cardinality(found) # 1
    BY <2>2 DEF PrintSection, PrintFound
  <2>3. CASE Cardinality(found) = 1
    <3>1. PICK c : found = {c}
      <4> HIDE DEF found
      <4> QED BY <2>1, <2>3, FS_Singleton
    <3>2. c \in Headings(body) /\ (CHOOSE j \in found : TRUE) = c
      <4> HIDE DEF found
      <4> QED BY <2>1, <3>1
    <3>3. PrintSection(body, address) = <<SectionText(body, c)>>
      BY <2>3, <3>2 DEF PrintSection, PrintFound
    <3>4. GivenBack(body, address, SectionText(body, c)) = GivenBackAt(body, c, SectionText(body, c))
      BY <3>2 DEF GivenBack
    <3>5. GivenBackAt(body, c, SectionText(body, c)) = body
      BY <1>0, <3>2, GivenBackIsSame
    <3>6. PrintSection(body, address)[1] = SectionText(body, c)
      BY <3>3
    <3> QED BY <2>3, <3>1, <3>2, <3>3, <3>4, <3>5, <3>6
  <2> QED BY <2>2, <2>3
<1>4. ASSUME NEW k \in 1 .. Len(outline)
      PROVE  LET address == ReadAddress(outline[k].path)
             IN  AddressIsUsable(body, outline[k], address, PrintSection(body, address))
  <2> DEFINE entry == outline[k]
             i == entry.line
             address == ReadAddress(entry.path)
             printed_ == PrintSection(body, address)
  <2>1. i \in Headings(body) /\ entry.path = PathOf(body, i) /\ entry.size = End(body, i) - i
    BY <1>1
  <2>2. SubSeq(body, i, i + entry.size - 1) = SectionText(body, i)
    BY <1>2, <2>1
  <2>3. PlainPath(entry.path) => i \in Resolve(body, address)
    BY <1>0, <2>1, AddressNames
  <2>4. CASE Cardinality(Resolve(body, address)) # 1
    <3>1. printed_ = <<>>
      BY <1>3, <2>4
    <3>2. Resolve(body, address) # {i}
      BY <2>4, FS_Singleton
    <3> HIDE DEF outline, printed_
    <3> QED BY <2>3, <3>1, <3>2 DEF AddressIsUsable, printed_
  <2>5. CASE Cardinality(Resolve(body, address)) = 1
    <3>1. PICK c \in Headings(body) :
            /\ Resolve(body, address) = {c} /\ printed_ = <<SectionText(body, c)>>
            /\ GivenBack(body, address, printed_[1]) = body
      BY <1>3, <2>5
    <3>2. PlainPath(entry.path) => Resolve(body, address) = {i} /\ printed_ = <<SectionText(body, i)>>
      BY <2>3, <3>1
    <3> HIDE DEF outline, printed_
    <3> QED BY <2>2, <2>3, <3>1, <3>2 DEF AddressIsUsable, printed_
  <2> QED BY <2>4, <2>5
<1>5. ASSUME NEW j \in 1 .. Len(outline), NEW k \in 1 .. Len(outline), j < k
      PROVE  LET end == outline[j].line + outline[j].size
             IN  \/ outline[k].line >= end
                 \/ /\ outline[k].line + outline[k].size <= end
                    /\ body[outline[k].line][2] > body[outline[j].line][2]
  <2> DEFINE i == outline[j].line
             h == outline[k].line
  <2>1. i \in Headings(body) /\ h \in Headings(body) /\ i < h
        /\ outline[j].size = End(body, i) - i /\ outline[k].size = End(body, h) - h
    BY <1>1, <1>5
  <2>2. i + outline[j].size = End(body, i) /\ h + outline[k].size = End(body, h)
        /\ i \in Nat /\ h \in Nat /\ End(body, i) \in Nat
    BY <1>2, <2>1
  <2> HIDE DEF outline
  <2>3. h >= End(body, i) \/ h < End(body, i)
    BY <2>2
  <2>4. h < End(body, i) => End(body, h) <= End(body, i) /\ body[h][2] > body[i][2]
    BY <1>0, <2>1, SectionsNest
  <2> QED BY <2>2, <2>3, <2>4
<1> HIDE DEF outline
<1> QED
  <2>1. OutlineIsUsable(body)
    BY <1>4, <1>5 DEF OutlineIsUsable, outline
  <2> QED BY <2>1

-----------------------------------------------------------------------------
(* How far a command that shows a document has got, and what was written.    *)
ShowInv ==
  /\ show.stage \in ShowStages /\ show.exit \in Ends
  /\ {show.interactive, show.warned, printed.whole} \subseteq BOOLEAN
  /\ show = [stage |-> show.stage, text |-> show.text, interactive |-> show.interactive,
             sent |-> show.sent, exit |-> show.exit, warned |-> show.warned]
  /\ pager = [state |-> pager.state, read |-> pager.read]
  /\ pager.state \in {"none", "running", "quit", "failed"}
  /\ printed = [what |-> printed.what, whole |-> printed.whole]
  /\ printed.what \in {"nothing", "verbatim", "display"}
  /\ show.stage = "done" <=> show.exit # "none"
  /\ show.stage # "done" => printed.what = "nothing" /\ ~printed.whole
  /\ show.stage \in {"idle", "spawn"} => pager.state = "none"
  /\ show.stage \in {"feed", "wait"} => pager.state # "none"
  /\ show.stage = "print" => pager.state \in {"none", "failed"}
  /\ show.stage = "done" =>
       IF printed.what = "nothing" THEN pager.state = "quit" /\ show.exit = "success" /\ ~printed.whole
       ELSE pager.state \in {"none", "failed"}
  /\ show.exit = "failure" => ~printed.whole
  /\ ~show.interactive => show.stage \notin {"spawn", "feed", "wait"} /\ pager.state = "none" /\ printed.what # "display"
  /\ show.stage \in {"print", "done"} /\ pager.state = "failed" => show.warned

(* A command that shows a document starts so.                                *)
LEMMA ShowInitInv == ShowInit => ShowInv
BY DEF ShowInit, ShowInv, ShowStages, Ends

(* Each step of it keeps it.                                                *)
LEMMA ShowNextInv == ShowInv /\ [ShowNext]_showVars => ShowInv'
<1> SUFFICES ASSUME ShowInv, [ShowNext]_showVars PROVE ShowInv'
  OBVIOUS
<1> USE DEF ShowStages, Ends
<1>1. ASSUME NEW text, NEW screen, NEW interactive \in BOOLEAN, NEW named \in BOOLEAN,
             Show(text, screen, interactive, named)
      PROVE  ShowInv'
  <2> DEFINE paged == interactive /\ named /\ ExceedsScreen(ForDisplay(text), screen)
  <2>1. /\ show.stage = "idle" /\ UNCHANGED <<pager, pipe, printed>>
        /\ show' = [stage |-> IF paged THEN "spawn" ELSE "print", text |-> text, interactive |-> interactive,
                    sent |-> show.sent, exit |-> show.exit, warned |-> show.warned]
    BY <1>1 DEF Show, ShowInv
  <2>2. paged => interactive
    OBVIOUS
  <2> HIDE DEF paged
  <2>3. CASE paged
    BY <2>1, <2>2, <2>3 DEF ShowInv
  <2>4. CASE ~paged
    BY <2>1, <2>2, <2>4 DEF ShowInv
  <2> QED BY <2>3, <2>4
<1>2. ASSUME NEW outcome \in {"whole", "unread", "error"}, WriteData(outcome) PROVE ShowInv'
  BY <1>2 DEF WriteData, ShowInv
<1>3. ASSUME NEW started \in BOOLEAN, Spawn(started) PROVE ShowInv'
  BY <1>3 DEF Spawn, FallBack, ShowInv
<1>4. CASE Feed
  <2>1. /\ show.stage = "feed" /\ UNCHANGED <<pager, printed>>
        /\ \/ show' = [show EXCEPT !.stage = "wait"]
           \/ show' = [show EXCEPT !.sent = @ + 1]
    BY <1>4 DEF Feed
  <2> QED BY <2>1 DEF ShowInv
<1>5. CASE Wait
  BY <1>5 DEF Wait, FallBack, ShowInv
<1>6. CASE PagerReads
  BY <1>6 DEF PagerReads, ShowInv
<1>7. ASSUME NEW state \in {"quit", "failed"}, PagerEnds(state) PROVE ShowInv'
  BY <1>7 DEF PagerEnds, ShowInv
<1>8. CASE UNCHANGED showVars
  BY <1>8 DEF showVars, ShowInv
<1> QED BY <1>1, <1>2, <1>3, <1>4, <1>5, <1>6, <1>7, <1>8 DEF ShowNext

(* What a person is shown is shown.                                         *)
LEMMA ShowInvShows == ShowInv => DocumentIsShown
BY DEF ShowInv, DocumentIsShown, ShowStages, Ends

(* No document is lost behind an exit of 0 (pager.rs write, run).            *)
THEOREM ShowsTheDocument == ShowSpec => []DocumentIsShown
<1>1. ShowSpec => []ShowInv
  BY ShowInitInv, ShowNextInv, PTL DEF ShowSpec
<1> QED BY <1>1, ShowInvShows, PTL

(* What is prepared for a terminal is a text.                                *)
LEMMA PutType ==
  ASSUME NEW out \in Seq(Characters), NEW c \in Characters
  PROVE  PutForDisplay(out, c) \in Seq(Characters)
<1>1. ASSUME NEW d \in Characters PROVE Append(out, d) \in Seq(Characters)
  OBVIOUS
<1>2. Column(out) \in Nat
  <2> DEFINE ends == {0} \cup {i \in 1 .. Len(out) : out[i] = "newline"}
             k == LineStart(out)
  <2>1. Len(out) \in Nat
    OBVIOUS
  <2>2. ends \in SUBSET (0 .. Len(out)) /\ ends # {}
    BY <2>1
  <2>3. \E i \in ends : \A j \in ends : j <= i
    <3> HIDE DEF ends
    <3> QED BY <2>1, <2>2, Greatest
  <2>4. k \in ends
    <3>1. k = CHOOSE i \in ends : \A j \in ends : j <= i
      BY DEF LineStart
    <3> HIDE DEF ends, k
    <3> QED BY <2>3, <3>1
  <2> HIDE DEF k
  <2>5. k \in 0 .. Len(out)
    BY <2>2, <2>4
  <2>6. SubSeq(out, k + 1, Len(out)) \in Seq(Characters)
    BY <2>1, <2>5
  <2> QED BY <2>6, ColumnsType DEF Column, k
<1>3. TabWidth - (Column(out) % TabWidth) \in Nat
  BY <1>2, ShowAssumption
<1>4. out \o [i \in 1 .. TabWidth - (Column(out) % TabWidth) |-> "space"] \in Seq(Characters)
  <2> DEFINE k == TabWidth - (Column(out) % TabWidth)
  <2>1. k \in Nat
    BY <1>3
  <2> HIDE DEF k
  <2>2. ASSUME NEW d \in Characters PROVE [i \in 1 .. k |-> d] \in Seq(Characters)
    BY <2>1
  <2>3. [i \in 1 .. k |-> "space"] \in Seq(Characters)
    <3>1. "space" \in Characters
      BY DEF Characters
    <3> QED BY <2>2, <3>1
  <2>4. out \o [i \in 1 .. k |-> "space"] \in Seq(Characters)
    BY <2>3
  <2> QED BY <2>4 DEF k
<1>5. Append(out, "replacement") \in Seq(Characters) /\ Append(out, c) \in Seq(Characters)
  <2>1. "replacement" \in Characters
    BY DEF Characters
  <2> QED BY <1>1, <2>1
<1> QED BY <1>4, <1>5 DEF PutForDisplay

(* So is all that a terminal is given.                                       *)
LEMMA DisplayType ==
  ASSUME NEW text \in Seq(Characters)
  PROVE  ForDisplay(text) \in Seq(Characters)
<1> DEFINE top == Len(text)
           S == Seq(Characters)
           F == [x \in (1 .. top) \X S |-> PutForDisplay(x[2], text[x[1]])]
           Puts(f) == f = [i \in 0 .. top |-> IF i = 0 THEN <<>> ELSE PutForDisplay(f[i - 1], text[i])]
           put == CHOOSE f : Puts(f)
           out == put[top]
<1>1. top \in Nat /\ \A i \in 1 .. top : text[i] \in Characters
  OBVIOUS
<1>2. ForDisplay(text) = IF out = <<>> \/ Last(out) = "newline" THEN out ELSE Append(out, "newline")
  BY DEF ForDisplay
<1>3. PICK g : Iteration(S, 0, 1, top, <<>>, F, g)
  <2>1. F \in [(1 .. top) \X S -> S]
    <3> HIDE DEF top, S
    <3>1. \A i \in 1 .. top : \A s \in S : PutForDisplay(s, text[i]) \in S
      BY <1>1, PutType DEF S
    <3> QED BY <3>1
  <2>2. <<>> \in S
    OBVIOUS
  <2> HIDE DEF F, top, S
  <2>3. Iterable(S, 0, 1, top, <<>>, F)
    BY <1>1, <2>1, <2>2 DEF Iterable
  <2> QED BY <2>3, Iterates
<1>4. Puts(g)
  <2> HIDE DEF F, top, S
  <2>1. g \in [0 .. top -> S] /\ g[0] = <<>> /\ \A i \in 1 .. top : g[i] = F[<<i, g[i - 1]>>]
    BY <1>3 DEF Iteration
  <2>2. ASSUME NEW i \in 1 .. top PROVE g[i] = PutForDisplay(g[i - 1], text[i])
    <3>1. i - 1 \in 0 .. top /\ g[i - 1] \in S
      BY <1>1, <2>1
    <3>2. F[<<i, g[i - 1]>>] = PutForDisplay(g[i - 1], text[i])
      BY <3>1 DEF F
    <3> QED BY <2>1, <3>2
  <2>3. \A i \in 0 .. top : i = 0 \/ i \in 1 .. top
    BY <1>1
  <2>4. \A i \in 0 .. top : g[i] = IF i = 0 THEN <<>> ELSE PutForDisplay(g[i - 1], text[i])
    BY <2>1, <2>2, <2>3
  <2>5. g = [i \in 0 .. top |-> g[i]]
    BY <2>1
  <2> QED BY <2>4, <2>5
<1>5. Puts(put)
  <2> HIDE DEF Puts
  <2> QED BY <1>4
<1> HIDE DEF put
<1>6. put[0] = <<>> /\ \A i \in 1 .. top : put[i] = PutForDisplay(put[i - 1], text[i])
  <2> HIDE DEF top
  <2>1. 0 \in 0 .. top /\ \A i \in 1 .. top : i \in 0 .. top /\ i # 0
    BY <1>1
  <2>2. \A i \in 0 .. top : put[i] = IF i = 0 THEN <<>> ELSE PutForDisplay(put[i - 1], text[i])
    BY <1>5
  <2> HIDE DEF Puts
  <2> QED BY <2>1, <2>2
<1> DEFINE bad == {i \in 0 .. top : put[i] \notin S}
<1>7. bad = {}
  <2> SUFFICES ASSUME bad # {} PROVE FALSE
    OBVIOUS
  <2>1. PICK n \in bad : \A k \in bad : n <= k
    <3>1. bad \in SUBSET Nat
      OBVIOUS
    <3> HIDE DEF bad
    <3> QED BY <3>1, Least
  <2>2. <<>> \in S
    OBVIOUS
  <2> HIDE DEF top
  <2>3. n # 0 /\ n \in 1 .. top /\ n - 1 \in 0 .. top /\ n - 1 \notin bad
    <3> HIDE DEF S
    <3> QED BY <1>1, <1>6, <2>1, <2>2
  <2>4. put[n - 1] \in S /\ put[n] = PutForDisplay(put[n - 1], text[n]) /\ text[n] \in Characters
    BY <1>1, <1>6, <2>3
  <2>5. put[n] \in S
    BY <2>4, PutType
  <2> QED BY <2>1, <2>5
<1>8. out \in S
  <2> HIDE DEF top, S
  <2>1. top \in 0 .. top
    BY <1>1
  <2> QED BY <1>7, <2>1
<1> HIDE DEF out
<1>9. Append(out, "newline") \in S
  <2>1. ASSUME NEW o \in Seq(Characters), NEW d \in Characters PROVE Append(o, d) \in Seq(Characters)
    OBVIOUS
  <2>2. "newline" \in Characters
    BY DEF Characters
  <2> QED BY <1>8, <2>1, <2>2
<1> QED BY <1>2, <1>8, <1>9

(* A text that is shown has a length on the terminal.                        *)
LEMMA DisplayLength ==
  ASSUME NEW text \in ShownTexts \cup {<<>>}
  PROVE  Len(ForDisplay(text)) \in Nat
<1>1. text \in Seq(Characters)
  <2>1. <<>> \in Seq(Characters)
    OBVIOUS
  <2> QED BY <2>1, ShowAssumption
<1>2. ForDisplay(text) \in Seq(Characters)
  BY <1>1, DisplayType
<1> QED BY <1>2
(* What a pager has been sent is part of the text, and what it has read and  *)
(* what is still before it in the pipe are together what it has been sent.   *)
FedSoFar ==
  /\ show.text \in ShownTexts \cup {<<>>}
  /\ show.sent \in 0 .. Len(ForDisplay(show.text))
  /\ show.stage = "idle" => show.sent = 0
  /\ pager.read \in Nat /\ pipe \in 0 .. PipeSize /\ pager.read + pipe = show.sent

ShowFed == ShowInv /\ FedSoFar

(* A command that shows a document starts with nothing sent.                 *)
LEMMA ShowFedInit == ShowInit => ShowFed
<1> SUFFICES ASSUME ShowInit PROVE ShowFed
  OBVIOUS
<1>1. show.text = <<>> /\ show.sent = 0 /\ pager.read = 0 /\ pipe = 0
  BY DEF ShowInit
<1>2. Len(ForDisplay(<<>>)) \in Nat
  BY DisplayLength
<1>3. 0 \in 0 .. Len(ForDisplay(<<>>)) /\ 0 \in 0 .. PipeSize
  BY <1>2, ShowAssumption
<1> QED BY <1>1, <1>3, ShowInitInv DEF ShowFed, FedSoFar

(* Each step sends, reads, or leaves it as it is.                            *)
LEMMA ShowFedNext == ShowFed /\ [ShowNext]_showVars => ShowFed'
<1> SUFFICES ASSUME ShowFed, [ShowNext]_showVars PROVE FedSoFar'
  BY ShowNextInv DEF ShowFed
<1>0. /\ ShowInv /\ FedSoFar
      /\ Len(ForDisplay(show.text)) \in Nat /\ PipeSize \in Nat
  BY DisplayLength, ShowAssumption DEF ShowFed, FedSoFar
<1>a. ASSUME show'.text = show.text, show'.sent = show.sent, show'.stage # "idle" \/ show' = show,
             pager'.read = pager.read, pipe' = pipe
      PROVE  FedSoFar'
  BY <1>0, <1>a DEF FedSoFar
<1>1. ASSUME NEW text \in ShownTexts, NEW screen, NEW interactive, NEW named,
             Show(text, screen, interactive, named)
      PROVE  FedSoFar'
  <2>1. /\ show.stage = "idle" /\ UNCHANGED <<pager, pipe>>
        /\ show'.text = text /\ show'.sent = show.sent /\ show'.stage # "idle"
    BY <1>0, <1>1 DEF Show, ShowInv
  <2>2. show'.text \in ShownTexts \cup {<<>>} /\ Len(ForDisplay(text)) \in Nat
    BY <2>1, DisplayLength
  <2>3. show.sent = 0 /\ 0 \in 0 .. Len(ForDisplay(text))
    BY <1>0, <2>1, <2>2 DEF FedSoFar
  <2> QED BY <1>0, <2>1, <2>2, <2>3 DEF FedSoFar
<1>2. ASSUME NEW outcome, WriteData(outcome) PROVE FedSoFar'
  BY <1>0, <1>2, <1>a DEF WriteData, ShowInv
<1>3. ASSUME NEW started, Spawn(started) PROVE FedSoFar'
  BY <1>0, <1>3, <1>a DEF Spawn, FallBack, ShowInv
<1>4. CASE Feed
  <2>1. CASE pager.state # "running" \/ show.sent = Len(ForDisplay(show.text))
    <3>1. show' = [show EXCEPT !.stage = "wait"] /\ UNCHANGED <<pager, pipe>>
      BY <1>4, <2>1 DEF Feed
    <3> QED BY <1>0, <3>1, <1>a DEF ShowInv
  <2>2. CASE ~(pager.state # "running" \/ show.sent = Len(ForDisplay(show.text)))
    <3>1. /\ pipe < PipeSize /\ pipe' = pipe + 1 /\ pager' = pager
          /\ show' = [show EXCEPT !.sent = @ + 1] /\ show.stage = "feed"
      BY <1>4, <2>2 DEF Feed
    <3>2. show'.text = show.text /\ show'.sent = show.sent + 1 /\ show'.stage = "feed"
      BY <1>0, <3>1 DEF ShowInv
    <3> QED BY <1>0, <2>2, <3>1, <3>2 DEF FedSoFar
  <2> QED BY <2>1, <2>2
<1>5. CASE Wait
  BY <1>0, <1>5, <1>a DEF Wait, FallBack, ShowInv
<1>6. CASE PagerReads
  <2>1. pipe > 0 /\ pipe' = pipe - 1 /\ pager'.read = pager.read + 1 /\ show' = show
    BY <1>0, <1>6 DEF PagerReads, ShowInv
  <2> QED BY <1>0, <2>1 DEF FedSoFar
<1>7. ASSUME NEW state, PagerEnds(state) PROVE FedSoFar'
  BY <1>0, <1>7, <1>a DEF PagerEnds, ShowInv
<1>8. CASE UNCHANGED showVars
  BY <1>0, <1>8, <1>a DEF showVars
<1> QED BY <1>1, <1>2, <1>3, <1>4, <1>5, <1>6, <1>7, <1>8 DEF ShowNext

(* Then nothing is read that was not sent.                                   *)
LEMMA ShowFedTypes == ShowFed => ShowTypeOK
<1> SUFFICES ASSUME ShowFed PROVE ShowTypeOK
  OBVIOUS
<1>1. Len(ForDisplay(show.text)) \in Nat /\ PipeSize \in Nat
  BY DisplayLength, ShowAssumption DEF ShowFed, FedSoFar
<1>2. pager.read \in 0 .. show.sent /\ pipe <= show.sent
  BY <1>1 DEF ShowFed, FedSoFar
<1> QED BY <1>2 DEF ShowFed, FedSoFar, ShowInv, ShowTypeOK

(* The feeding of a pager and what is written are of their types, and no     *)
(* more is read or waits in the pipe than was sent (pager.rs feed).          *)
THEOREM ShowTypes == ShowSpec => []ShowTypeOK
<1>1. ShowSpec => []ShowFed
  BY ShowFedInit, ShowFedNext, PTL DEF ShowSpec
<1> QED BY <1>1, ShowFedTypes, PTL

-----------------------------------------------------------------------------
(* What a command reads is one of the things that there are to be read, and  *)
(* legible.                                                                 *)
QuestionInv ==
  \/ question = Unasked
  \/ /\ question.kind \in Readable /\ question.is \in Questions(question.kind)

(* A command starts without a question.                                      *)
LEMMA QuestionInitInv == Init => QuestionInv
BY DEF Init, QuestionInv

(* Every step of a machine leaves the question as it is.                     *)
LEMMA QuestionNextInv == QuestionInv /\ [Next]_commandVars => QuestionInv'
<1> SUFFICES ASSUME QuestionInv, [Next]_commandVars PROVE QuestionInv'
  OBVIOUS
<1>1. CASE Ask
  <2>0. PICK kind \in Readable : \E is \in Questions(kind) : question' = [kind |-> kind, is |-> is]
    BY <1>1 DEF Ask
  <2>1. PICK is \in Questions(kind) : question' = [kind |-> kind, is |-> is]
    BY <2>0
  <2>2. question'.kind = kind /\ question'.is = is
    BY <2>1
  <2> QED BY <2>2 DEF QuestionInv
<1>2. CASE UNCHANGED question
  BY <1>2 DEF QuestionInv
<1>3. Ask \/ UNCHANGED question
  BY DEF Next, RunMachine, RunExport, RunUpdate, RunSpecSync, RunLogin, RunInstall, RunFetchDocument,
         RunShowDocument, RunRequests, commandVars
<1> QED BY <1>1, <1>2, <1>3

(* The steps of a machine are taken only by the command that runs it, so the *)
(* program does with the variables of each what that machine does.           *)
LEMMA MachineStepsOnly ==
  [Next]_commandVars =>
    /\ [ExportNext]_exportVars /\ [UpdateNext]_updateVars /\ [SpecCacheNext]_specVars
    /\ [LoopbackNext]_loopbackVars /\ [SkillNext]_skillVars /\ [FetchNext]_fetchVars
    /\ [ShowNext]_showVars /\ [ThrottleNext]_throttleVars
BY DEF Next, RunMachine, Ask, RunExport, RunUpdate, RunSpecSync, RunLogin, RunInstall, RunFetchDocument,
       RunShowDocument, RunRequests, commandVars

(* What the program does, seen by one of its machines.                       *)
LEMMA ProgramRuns ==
  Spec => /\ ExportSpec /\ UpdateSpec /\ SpecCacheSpec /\ LoopbackSpec
          /\ SkillSpec /\ DocumentFetchSpec /\ ShowSpec /\ ThrottleSpec
<1>1. Init => /\ ExportInit /\ UpdateInit /\ SpecCacheInit /\ LoopbackInit
              /\ SkillInit /\ FetchInit /\ ShowInit /\ ThrottleInit
  BY DEF Init
<1> QED
  BY <1>1, MachineStepsOnly, PTL DEF Spec, ExportSpec, UpdateSpec, SpecCacheSpec, LoopbackSpec,
     SkillSpec, DocumentFetchSpec, ShowSpec, ThrottleSpec

(* What is asked is legible.                                                 *)
LEMMA AskedIsLegible ==
  ASSUME QuestionInv, NEW kind, kind # "none", Asked(kind)
  PROVE  Legible(kind, question.is)
<1>1. question # Unasked
  BY DEF Asked, Unasked
<1> QED BY <1>1, QuestionsAssumption DEF QuestionInv, Asked

(* Whatever the files, the environment and the instances say, a credential   *)
(* is sent only to the instance that it was given for, and a login goes on   *)
(* only where the instance is itself (resolve_credential, release_token,     *)
(* discover).                                                               *)
THEOREM CredentialsAtHome == Spec => []CredentialsStayHome
<1>1. Spec => []QuestionInv
  BY QuestionInitInv, QuestionNextInv, PTL DEF Spec
<1>2. QuestionInv => CredentialsStayHome
  <2> SUFFICES ASSUME QuestionInv PROVE CredentialsStayHome
    OBVIOUS
  <2>1. ASSUME Asked("settings") PROVE KeysStayHome(question.is)
    <3>1. Legible("settings", question.is)
      BY <2>1, AskedIsLegible
    <3>2. IsWorld(question.is)
      BY <3>1 DEF Legible
    <3> QED BY <3>2, KeysStayHomeForAll
  <2>2. ASSUME Asked("discovery") PROVE DiscoveryStaysHome(question.is.base, question.is.response)
    <3>1. Legible("discovery", question.is)
      BY <2>2, AskedIsLegible
    <3>2. /\ question.is.base \in Addresses_ /\ ValidAddress(question.is.base)
          /\ IsAnswer(question.is.response)
      BY <3>1 DEF Legible
    <3> QED BY <3>2, DiscoveryStaysHomeForAll
  <2>3. ASSUME Asked("server text") PROVE FragmentsStayHidden(question.is.raw, question.is.secrets)
    <3>1. Legible("server text", question.is)
      BY <2>3, AskedIsLegible
    <3>2. question.is.raw \in Seq(Nat) /\ question.is.secrets \in Seq(Seq(Nat))
      BY <3>1 DEF Legible
    <3> QED BY <3>2, FragmentsStayHiddenForAll
  <2> QED BY <2>1, <2>2, <2>3 DEF CredentialsStayHome
<1> QED BY <1>1, <1>2, PTL

(* How a command ends is what happened: doctor predicts the commands, what is*)
(* said to be done is done, lists, counts, outlines and tables tell what     *)
(* there is, and a document is shown or the command fails (doctor/mod.rs,   *)
(* comments.rs, collections.rs, docs/view.rs, render.rs, pager.rs).         *)
THEOREM ReportsAgree == Spec => []ReportAgrees
<1>1. Spec => []QuestionInv
  BY QuestionInitInv, QuestionNextInv, PTL DEF Spec
<1>2. Spec => []DocumentIsShown
  BY ProgramRuns, ShowsTheDocument, PTL
<1>3. QuestionInv /\ DocumentIsShown => ReportAgrees
  <2> SUFFICES ASSUME QuestionInv, DocumentIsShown PROVE ReportAgrees
    OBVIOUS
  <2>1. ASSUME Asked("doctor") PROVE DoctorAgrees(question.is)
    <3>1. Legible("doctor", question.is)
      BY <2>1, AskedIsLegible
    <3>2. IsMachine(question.is)
      BY <3>1 DEF Legible
    <3> QED BY <3>2, DoctorAgreesForAll
  <2>2. ASSUME Asked("comment update")
        PROVE  UpdateTells(question.is.args, question.is.answers, question.is.shows)
    <3>1. Legible("comment update", question.is)
      BY <2>2, AskedIsLegible
    <3>2. question.is.shows \in BOOLEAN
      BY <3>1 DEF Legible
    <3> QED BY <3>2, UpdateTellsForAll
  <2>3. ASSUME Asked("comments")
        PROVE  ListTells(question.is.rows, question.is.cut, question.is.args, question.is.shows)
    <3>1. Legible("comments", question.is)
      BY <2>3, AskedIsLegible
    <3>2. question.is.rows \in Seq(Range(question.is.rows)) /\ question.is.shows \in BOOLEAN
      BY <3>1 DEF Legible
    <3> QED BY <3>2, ListTellsForAll
  <2>4. ASSUME Asked("collections") PROVE CountsAreExact(question.is.lookups, question.is.cut)
    <3>1. Legible("collections", question.is)
      BY <2>4, AskedIsLegible
    <3>2. IsLookups(question.is.lookups)
      BY <3>1 DEF Legible
    <3> QED BY <3>2, CountsAreExactForAll
  <2>5. ASSUME Asked("view") PROVE OutlineIsUsable(question.is)
    <3>1. Legible("view", question.is)
      BY <2>5, AskedIsLegible
    <3>2. question.is \in Seq(BodyLines)
      BY <3>1 DEF Legible
    <3> QED BY <3>2, OutlineIsUsableForAll
  <2>6. ASSUME Asked("rows") PROVE TableTells(question.is.rows, question.is.schema, question.is.nested)
    <3>1. Legible("rows", question.is)
      BY <2>6, AskedIsLegible
    <3>2. IsRows(question.is.rows) /\ IsRowSchema(question.is.schema)
      BY <3>1 DEF Legible
    <3> QED BY <3>2, TablesTellForAll
  <2> QED BY <2>1, <2>2, <2>3, <2>4, <2>5, <2>6 DEF ReportAgrees
<1> QED BY <1>1, <1>2, <1>3, PTL

(* One command runs, what it reads is of a kind that is read, and each       *)
(* machine stays within its types.                                          *)
THEOREM CommandsTypes == Spec => []CommandsTypeOK
<1> DEFINE One == command \in Machines \cup {"none", "read"}
<1>1. Init => One
  BY DEF Init
<1>2. One /\ [Next]_commandVars => One'
  BY DEF Next, RunMachine, Ask, RunExport, RunUpdate, RunSpecSync, RunLogin, RunInstall, RunFetchDocument,
         RunShowDocument, RunRequests, commandVars
<1>3. QuestionInv => question.kind \in Readable \cup {"none"}
  BY DEF QuestionInv, Unasked
<1>4. Spec => []One /\ []QuestionInv
  <2> HIDE DEF One
  <2> QED BY <1>1, <1>2, QuestionInitInv, QuestionNextInv, PTL DEF Spec
<1>5. Spec => [](/\ ExportTypeOK /\ UpdateTypeOK /\ SpecTypeOK /\ LoopbackTypeOK
                 /\ SkillTypeOK /\ FetchTypeOK /\ ShowTypeOK /\ ThrottleTypeOK)
  BY ProgramRuns, ExportTypes, UpdateTypeCorrect, CacheTypes, LoopbackTypes, SkillTypes, FetchTypes,
     ShowTypes, ThrottleTypes, PTL
<1>6. /\ One /\ question.kind \in Readable \cup {"none"}
      /\ ExportTypeOK /\ UpdateTypeOK /\ SpecTypeOK /\ LoopbackTypeOK
      /\ SkillTypeOK /\ FetchTypeOK /\ ShowTypeOK /\ ThrottleTypeOK
      => CommandsTypeOK
  BY DEF CommandsTypeOK
<1> HIDE DEF One
<1> QED BY <1>3, <1>4, <1>5, <1>6, PTL

(* What was proved of each machine holds of the program that runs it:        *)
(* exports are durable, complete and replace nothing of others; updates lose *)
(* no line of others and stay in their section; no table of another build or *)
(* document is used, and a sync takes effect; a login takes only its own     *)
(* code; an install says what it did; a document comes from where it may;    *)
(* and requests keep to the rate.                                           *)
THEOREM ProgramKeepsItsWord ==
  Spec => /\ [](/\ ExportIsDurable /\ ExportIsComplete /\ SpecCacheIsSound /\ LoopbackIsSound
                /\ InstallIsHonest /\ FetchHonest /\ RateIsKept /\ DocumentIsShown)
          /\ NothingClobbered /\ UpdateIsSafe /\ OnlyTheSection /\ SyncTakesEffect
BY ProgramRuns, ExportDurability, ExportCompleteness, CacheSoundness, LoopbackSoundness, SkillSoundness,
   FetchKeepsItsWord, KeepsTheRate, ShowsTheDocument, ExportClobbersNothing, UpdateSafety, SectionSafety,
   SyncIsTrue, PTL
=============================================================================

------------------------------ MODULE MCCommands ------------------------------
(* One instance of every machine of Commands, and what its readers read.    *)
EXTENDS CommandTables

(* docs export.  The letter "b" is one that only the file system takes to   *)
(* be "a"; titles 1 and 4 have the same stem but for the suffix.            *)
MCStem(t) == CASE t = 1 -> <<"a">> [] t = 2 -> <<"b">> [] t = 3 -> <<"a", 2>> [] t = 4 -> <<"a", 0>>
MCKey(l) == l
MCFold(l) == IF l = "b" THEN "a" ELSE l
Row(id, title, parent) == [id |-> id, title |-> title, parent |-> parent]
MCCollections ==
  {<<Row(1, 1, 0), Row(2, 1, 0), Row(3, 3, 1)>>, <<Row(1, 1, 0), Row(2, 2, 0), Row(3, 3, 0)>>,
   <<Row(1, 1, 0), Row(2, 1, 1), Row(3, 1, 2), Row(4, 2, 3)>>,
   <<Row(1, 1, 2), Row(0, 1, 0), Row(2, 1, 1), Row(1, 1, 2)>>}

(* docs update.                                                             *)
Segment(level, title) == [level |-> level, title |-> title]
MCBodies == {<<Text(1), Heading(1, 1), Text(1), Heading(2, 1 + Upper), Text(1), Heading(1, 2), Text(1)>>}
MCTexts == {<<Heading(1, 1), Text(2)>>, <<Blank>>}
MCAddresses == {<<Segment(0, 1)>>, <<Segment(2, 1)>>}
MCForeign == {Text(9), Heading(1, 1)}

(* spec sync: two builds, and a document that does not compile.             *)
MCVersions == [p \in {1, 2} |-> p]
MCUsable(doc) == doc # 3

(* fetch                                                                    *)
Url(scheme, host, userinfo) == [scheme |-> scheme, host |-> host, userinfo |-> userinfo]
MCUrls == {Url("http", "a", FALSE), Url("http", "b", FALSE), Url("http", "b", TRUE), Url("ftp", "a", FALSE)}

(* show                                                                     *)
MCTextsShown ==
  {<<>>, <<"letter">>, <<"letter", "newline", "tab", "letter">>,
   <<"control", "letter", "letter", "letter">>, <<"letter", "return", "newline", "newline", "wide">>}
MCScreens == {[columns |-> 2, rows |-> 3], [columns |-> 3, rows |-> 2]}

-----------------------------------------------------------------------------
(* Rows: cells of one character, and of the four limits.                    *)
Cells ==
  {<<>>} \cup {<<c>> : c \in {"letter", "wide", "mark", "control", "direction", "invisible", "joiner"}}
  \cup {<<"control", "mark">>, <<"letter", "mark", "mark", "mark", "mark">>, <<"wide", "wide">>,
        <<"letter", "letter", "letter", "letter">>, <<"invisible", "joiner">>, <<"letter", "direction">>,
        <<"letter", "mark", "mark", "mark", "letter", "mark">>, <<"space", "control", "space", "space">>}
Shown(name, format, scalar, nullable, readOnly) ==
  [name |-> name, format |-> format, scalar |-> scalar, nullable |-> nullable,
   readOnly |-> readOnly, string |-> TRUE]
RowSchemas ==
  {<<>>, <<Shown("title", "", TRUE, TRUE, FALSE), Shown("id", "date-time", TRUE, FALSE, TRUE),
           Shown("aId", "uuid", TRUE, FALSE, TRUE)>>}
  \cup {<<Shown("id", "", s, FALSE, FALSE), Shown("title", f, TRUE, n, r)>> :
          s, n, r \in BOOLEAN, f \in {"", "uuid"}}
RowLists ==
  {[rows |-> <<[id |-> a, title |-> <<>>], [title |-> b, aId |-> <<"letter">>]>>,
    schema |-> s, nested |-> n] : a, b \in Cells, s \in RowSchemas, n \in {{}, {"id"}}}

-----------------------------------------------------------------------------
(* Tables and the bytes of a cache, which may lose one, gain one or hold a  *)
(* length that is off by one.                                               *)
Op(name, own, text, params, fields) ==
  [name |-> name, own |-> own, shown |-> TRUE, text |-> text, params |-> params, fields |-> fields]
Ops ==
  {Op(n, o, t, p, f) : n \in 0 .. 2, o \in BOOLEAN, t, p \in {0, 2},
     f \in {<<>>, <<Field(0, "object", FALSE), Field(1, "value", FALSE)>>, <<Field(1, "value", TRUE)>>}}
GoodOps == {op \in Ops : op.name # 0 /\ op.own}
OpLists == {<<op>> : op \in Ops} \cup {<<>>} \cup (GoodOps \X GoodOps)
           \cup [1 .. 3 -> {op \in GoodOps : op.text = 0 /\ op.params = 0}]
Tables == {[meta |-> m, ops |-> ops] : m \in {1, 3}, ops \in OpLists}
Clean(t) == Framed(t.meta, <<>>) \o <<Length(Len(t.ops))>>
            \o FlattenSeq([i \in 1 .. Len(t.ops) |-> Framed(RecordBytes(t.ops[i]), <<t.ops[i]>>)])
Spoiled(body, at) ==
  {RemoveAt(body, at), [body EXCEPT ![at].bytes = @ + 1]}
Changes == [how : {"kept", "longer"}, at : {1}] \cup [how : {"removed", "stretched"}, at : 1 .. 5]
Damaged(body, c) ==
  CASE c.how = "longer" -> Append(body, Length(1))
    [] c.how = "removed" /\ c.at <= Len(body) -> RemoveAt(body, c.at)
    [] c.how = "stretched" /\ c.at <= Len(body) -> [body EXCEPT ![c.at].bytes = @ + 1]
    [] OTHER -> body
CacheBodies == {Damaged(Clean(t), c) : t \in Tables, c \in Changes}
FieldLists ==
  UNION {[1 .. n -> {Field(d, k, o) : d \in 0 .. 3, k \in {"object", "value"}, o \in BOOLEAN}] : n \in 0 .. 3}

-----------------------------------------------------------------------------
(* Descriptions: two models that refer to each other, in every shape one    *)
(* level deep.                                                              *)
Ref(name) == [Plain EXCEPT !.ref = name]
Leaves == {[Plain EXCEPT !.type = "string"], Ref("A"), Ref("B"), [Plain EXCEPT !.type = "object"],
           [Plain EXCEPT !.union = TRUE], Ref("gone")}
Objects(schemas) ==
  {[Plain EXCEPT !.props = <<[name |-> n, is |-> x]>>] : n \in {"x", "y"}, x \in schemas}
  \cup {[Plain EXCEPT !.props = <<[name |-> "x", is |-> x], [name |-> "y", is |-> y]>>] : x, y \in schemas}
Arrays(schemas) == {[Plain EXCEPT !.type = "array", !.items = <<x>>] : x \in schemas}
AllOfs(schemas, others) == {[Plain EXCEPT !.allOf = <<x, y>>] : x \in schemas, y \in others}
AModels == Leaves \cup Objects(Leaves) \cup Arrays(Leaves) \cup AllOfs(Leaves, Leaves \cup Objects({Ref("B")}))
           \cup Objects(Arrays({Ref("A")}))
BModels == Leaves \cup Arrays(Leaves)
           \cup {[Plain EXCEPT !.props = <<[name |-> "y", is |-> x]>>] : x \in Leaves}
           \cup {[Plain EXCEPT !.props = <<[name |-> "x", is |-> x]>>] : x \in AllOfs(Leaves, Leaves)}
Models == {[A |-> a, B |-> b] : a \in AModels, b \in BModels}
Schemas == {[models |-> m, schema |-> Ref("A")] : m \in Models}

Enveloped == [Plain EXCEPT !.props = <<[name |-> "data", is |-> [Plain EXCEPT !.type = "array", !.items = <<Ref("A")>>]]>>]
Path(slashes, name, safe, post) == [slashes |-> slashes, name |-> name, safe |-> safe, post |-> post]
Post(content, schema, response, shown, bodyless) ==
  [content |-> content, schema |-> schema, response |-> response, shown |-> shown, bodyless |-> bodyless]
Posts == {Post(c, <<s>>, r, sh, b) :
            c \in {<<>>, <<"multipart", "json">>, <<"multipart">>}, s \in {Ref("A")},
            r \in {<<>>, <<Enveloped>>, <<Ref("A")>>}, sh, b \in BOOLEAN}
Other == Path(1, 2, TRUE, <<Post(<<>>, <<>>, <<>>, TRUE, TRUE)>>)
PathSets == {{Path(1, n, TRUE, <<p>>), Other} : n \in 0 .. 2, p \in Posts}
            \cup {{Path(s, 1, x, <<p>>), Path(1, 3, TRUE, <<>>)} : s \in 0 .. 2, x \in BOOLEAN, p \in {q \in Posts : q.bodyless}}
TopLevel(key, cost, valid) == [key |-> key, cost |-> cost, valid |-> valid]
KeyLists == {<<TopLevel("paths", c, v), TopLevel(k, 2, TRUE)>> : c \in {1, 2}, v \in BOOLEAN, k \in {"components", "tags"}}
SmallModels ==
  {[A |-> a, B |-> b] : a \in AllOfs({Ref("B")}, Objects({Ref("B")})) \cup Objects({Ref("A"), Ref("B")}),
                        b \in {Ref("gone"), [Plain EXCEPT !.props = <<[name |-> "y", is |-> Ref("A")]>>]}}
Descriptions ==
  {[models |-> m, envelope |-> e, paths |-> p, keys |-> <<>>, trailing |-> FALSE] :
     m \in SmallModels, e \in {"", "data"}, p \in PathSets}
  \cup {[models |-> m, envelope |-> "data", paths |-> {Other}, keys |-> k, trailing |-> t] :
          m \in SmallModels, k \in KeyLists, t \in BOOLEAN}
-----------------------------------------------------------------------------
(* Settings: the layers a value may come from, and what an instance entry   *)
(* of the credential file was stored for.                                   *)
MCProfiles == {"default", "my-work", "my.work"}
MCVarOf == [p \in MCProfiles |-> IF p = "default" THEN "DEFAULT" ELSE "MY_WORK"]
Parsed(scheme, host, extra) == [parses |-> TRUE, scheme |-> scheme, host |-> host, extra |-> extra]
MCAddressesOf ==
  [u \in {"bad", "a", "a/", "b", "plain"} |->
     CASE u = "bad" -> Parsed("https", "a", TRUE) [] u \in {"a", "a/"} -> Parsed("https", "a", FALSE)
       [] u = "b" -> Parsed("http", "127.0.0.1", FALSE) [] OTHER -> Parsed("http", "a", FALSE)]
A == <<"https", "a">>
B == <<"http", "127.0.0.1">>
Profile(url, auth) == [url |-> url, auth |-> auth]
CredentialOf(origin, key, session) == [origin |-> origin, key |-> key, session |-> session]
Absent == Profile("absent", "api-key")
ProfileTables ==
  {[p \in {q \in MCProfiles : c[q].url # "absent"} |-> c[p]] :
     c \in {[p \in MCProfiles |-> CASE p = "my-work" -> x [] p = "my.work" -> y [] OTHER -> z] :
       x \in {Absent} \cup {Profile(u, a) : u \in {"blank", "bad", "a", "b"}, a \in {"api-key", "oauth"}},
       y \in {Absent, Profile("a", "api-key")}, z \in {Absent, Profile("none", "api-key")}}}
Kept == {NoEntry, CredentialOf(A, TRUE, <<>>), CredentialOf(<<>>, TRUE, <<>>), CredentialOf(A, TRUE, A), CredentialOf(B, TRUE, A)}
Found(at, bytes, text, default, profiles) ==
  [at |-> at, bytes |-> bytes, text |-> text, default |-> default, profiles |-> profiles]
Keys(profile, general) == "MY_WORK" :> profile @@ "" :> general
Arranged(flag, env, home, files, e) ==
  [flag |-> flag, env |-> env, home |-> home, files |-> files,
   store |-> [at |-> "file", entries |-> "my-work" :> e @@ "default" :> e]]
Flag(profile, url, config) == [profile |-> profile, url |-> url, config |-> config]
Env(profile, url, config, keys) == [profile |-> profile, url |-> url, config |-> config, keys |-> keys]
Place == "the default place"
ConfigFiles ==
  {f \in {Found("file", 1, "good", d, t) : d \in {"none", "my-work"}, t \in ProfileTables} :
     f.default \in DOMAIN f.profiles \cup {"none"}}
Layers ==
  {Arranged(Flag(fp, fu, "none"), Env(ep, eu, "none", Keys(k, g)), TRUE, Place :> f, e) :
     f \in ConfigFiles, fp \in {"none", "my-work"}, ep \in {"blank", "my.work"},
     fu \in {"none", "b"}, eu \in {"none", "a/"}, k \in {"blank", "key"},
     g \in {"none", "key"}, e \in Kept}
ConfigPlaces ==
  {Arranged(Flag("none", "none", fc), Env("none", eu, ec, Keys("key", g)), home,
          "f" :> Found(at, bytes, text, "my-work", "my-work" :> Profile("a", "api-key"))
          @@ Place :> Found(dat, 1, "good", "none", "my-work" :> Profile("a", "api-key")), NoEntry) :
     fc, ec \in {"none", "blank", "f"}, home \in BOOLEAN, at \in {"nothing", "unreadable", "file"}, bytes \in {1, 2},
     text \in {"good", "not the schema", "with a secret", "with a nameless profile"},
     dat \in {"nothing", "file"}, g \in {"none", "key"}, eu \in {"none", "a"}}

-----------------------------------------------------------------------------
(* doctor: the settings, the store, the exchange with the instance, and the *)
(* rest of what it looks at.                                                *)
DoctorSettings ==
  {[flag |-> Flag(p, u, "none"), env |-> Env("none", "none", "none", k), home |-> TRUE,
    files |-> Place :> Found(at, 1, "good", "none", "my-work" :> Profile("a", "api-key"))] :
     p \in {"none", "my-work"}, u \in {"none", "a", "bad", "plain"}, k \in {<<>>, "" :> "key"},
     at \in {"file", "unreadable"}}
DoctorStores ==
  {[at |-> "file", entries |-> "my-work" :> e @@ "default" :> e] :
     e \in {NoEntry, CredentialOf(A, TRUE, <<>>), CredentialOf(A, FALSE, A), CredentialOf(<<"https", "b">>, TRUE, <<>>)}}
  \cup {[at |-> x, entries |-> <<>>] : x \in StoreFaults \cup {"nothing", "nowhere"}}
Replied(kind, status) == [kind |-> kind, status |-> status]
FirstAnswers ==
  {Replied("ok", 200), Replied("Transport", 0), Replied("RateLimited", 0), Replied("InvalidResponse", 0),
   Replied("InvalidRequest", 0)} \cup {Replied("Api", status) : status \in {401, 404, 503}}
Exchanges ==
  {[fresh |-> f, answers |-> <<x, y>>, renewal |-> r] :
     f \in BOOLEAN, x \in FirstAnswers, y \in {Replied("ok", 200), Replied("Api", 401), Replied("Api", 403), Replied("Transport", 0)},
     r \in {"ok", "rejected", "unavailable"}}
Served(answer, status, names, deprecated) ==
  [answer |-> answer, status |-> status, names |-> names, deprecated |-> deprecated]
Rest(private, cache, local, host, skills, offline) ==
  [private |-> private, cache |-> cache, local |-> local, host |-> host, skills |-> skills, offline |-> offline]
Rests ==
  {Rest(p, c, l, h, s, o) :
     p, o \in BOOLEAN, c \in {"good", "damaged"}, l \in {{"auth.info"}, {}},
     h \in {Served("document", 0, {"auth.info", "x"}, {"auth.info"}), Served("Transport", 0, {}, {}),
             Served("Status", 404, {}, {}), Served("InvalidUrl", 0, {}, {})},
     s \in {{}, {[is |-> "foreign", version |-> "none", current |-> FALSE]},
             {[is |-> "ours", version |-> "this", current |-> TRUE]}}}
Healthy == Rest(TRUE, "good", {"auth.info"}, Served("document", 0, {"auth.info"}, {}), {}, FALSE)
Accepted == CHOOSE x \in Exchanges : x.fresh /\ x.answers[1].kind = "ok"
Diagnosed(s, t, x, r) ==
  [flag |-> s.flag, env |-> s.env, home |-> s.home, files |-> s.files, store |-> t,
   fresh |-> x.fresh, answers |-> x.answers, renewal |-> x.renewal, private |-> r.private,
   cache |-> r.cache, local |-> r.local, host |-> r.host, skills |-> r.skills, offline |-> r.offline]
Simple == {x \in Exchanges : x.renewal = "ok" /\ x.answers[2].kind = "ok"}
Diagnoses ==
  {Diagnosed(s, t, x, Healthy) : s \in DoctorSettings, t \in DoctorStores, x \in Simple}
OtherChecks ==
  {Diagnosed(s, t, Accepted, r) :
     s \in {z \in DoctorSettings : z.flag.url # "bad" /\ z.files[Place].at = "file"},
     t \in {z \in DoctorStores : z.at = "exposed" \/ z.at = "file"}, r \in Rests}
Refusals ==
  {Diagnosed(s, t, x, r) :
     s \in {z \in DoctorSettings : z.flag.profile = "my-work" /\ z.flag.url = "a"},
     t \in {z \in DoctorStores : z.at = "file"}, x \in Exchanges,
     r \in {Healthy, [Healthy EXCEPT !.private = FALSE, !.offline = TRUE],
             [Healthy EXCEPT !.cache = "damaged", !.host = Served("Status", 404, {}, {})]}}

-----------------------------------------------------------------------------
(* otl api: one operation with a required word, a nullable object and a     *)
(* number, paged or not, and the lines that name it.                        *)
Whole3(p, facets) == IF facets THEN [p EXCEPT !.min = <<-3>>, !.max = <<5>>] ELSE p
CallParams ==
  {<<Param("id", "string", r, FALSE), Param("query", "json", j, TRUE), Whole3(Param("limit", t, FALSE, FALSE), f),
     Param("offset", "integer", FALSE, FALSE)>> : r, j, f \in BOOLEAN, t \in {"integer", "number"}}
  \cup {<<>>, <<[Param("id", "string", TRUE, FALSE) EXCEPT !.enum = {Word("a")}], Param("on", "boolean", FALSE, TRUE)>>,
         <<[Param("id", "string", TRUE, FALSE) EXCEPT !.format = "uuid"]>>}
CallTables ==
  {"x" :> OpOf("json", p, Len(p) < 2) : p \in CallParams}
  \cup {"x" :> OpOf(m, p, FALSE) : m \in {"raw only", "unsupported"}, p \in {q \in CallParams : Len(q) < 2}}
Arg(key, is) == [key |-> key, is |-> is]
CallNumbers == {Whole(n) : n \in {-17, -5, -3, 0, 3, 4, 5, 7, 8, 15, 16}} \cup {Half(n) : n \in {-2, 1, 2, 5}}
CallArgs ==
  {<<>>, <<Arg("", Word("x"))>>, <<Arg("", Word("x")), Arg("id", Word("a"))>>}
  \cup {<<Arg(k, Word(w))>> : k \in {"id", "query", "on", "gone"}, w \in {"a", "null", "true", "uuid"}}
  \cup {<<Arg("id", Word("a")), Arg(k, v)>> : k \in {"limit", "offset"}, v \in CallNumbers}
  \cup {<<Arg("id", Word("a")), Arg("id", Word("b"))>>, <<Arg("query", Word("null")), Arg("id", Word("a"))>>}
CallLines ==
  {[Line(o, a, b, l) EXCEPT !.help = h \/ o = ""] : o \in {"", "list", "describe", "x", "gone"}, a \in CallArgs,
     b \in {"none", "json", "not json"}, l \in {0, 2}, h \in BOOLEAN}
  \cup {[Line("x", a, b, 0) EXCEPT !.noValidate = v, !.showMessage = TRUE] :
           a \in CallArgs, b \in {"none", "json"}, v \in BOOLEAN}
CallQuestions ==
  {[line |-> l, table |-> t] : l \in {n \in CallLines : n.operation = "x" /\ ~n.help /\ n.body # "not json"}, t \in CallTables}
  \cup {[line |-> l, table |-> "x" :> OpOf("json", <<>>, FALSE)] : l \in CallLines}

-----------------------------------------------------------------------------
(* Discovery: an instance, an answer about it, and one that is not quite.   *)
Bases == {Address("https", "a", t, n) : t \in {"", "t"}, n \in 0 .. 2}
         \cup {[Address("https", "a", "", 0) EXCEPT !.plain = FALSE], Address("http", "127.0.0.1", "", 0),
               Address("http", "a", "", 0)}
AbsentField == Field_("absent", <<>>)
Told(u) == Field_("text", u)
Variants(u) ==
  {Told([u EXCEPT !.slashes = n]) : n \in 0 .. 2} \cup {Told([u EXCEPT !.plain = ~@]), Told([u EXCEPT !.extra = TRUE]),
   Told([u EXCEPT !.host = "b"]), Told([u EXCEPT !.scheme = "http"]), Told([u EXCEPT !.scheme = "ftp"]),
   Told([u EXCEPT !.parses = FALSE]), Told([u EXCEPT !.tenant = "u"]), AbsentField, Field_("blank", <<>>), Field_("not text", <<>>)}
DocumentOf(base) == "issuer" :> Told(base) @@ [i \in {Endpoints[k] : k \in 1 .. 4} |-> Told(Address(base.scheme, base.host, "t", 0))]
AsJson(document) == [sent |-> "whole", bytes |-> 1, status |-> 200, text |-> "JSON", document |-> document]
DiscoveryAnswers(base) ==
  LET d == DocumentOf(base)
      Altered(field) == {[d EXCEPT ![field] = v] : v \in Variants(d[field].address)}
      documents == {d} \cup UNION {Altered(field) : field \in DOMAIN d}
                   \cup {[d EXCEPT !["token_endpoint"] = v, !["revocation_endpoint"] = w] :
                            v, w \in Variants(Address(base.scheme, base.host, "t", 0))}
  IN  {AsJson(x) : x \in documents}
      \cup {[AsJson(d) EXCEPT !.sent = s, !.bytes = b, !.status = c, !.text = t] :
               s \in {"whole", "cut off"}, b \in 1 .. 2, c \in {200, 302, 404}, t \in {"JSON", "unreadable", "empty"}}
DiscoveryQuestions ==
  UNION {{[base |-> b, response |-> r] : r \in DiscoveryAnswers(b)} : b \in Bases}

-----------------------------------------------------------------------------
(* Lists of comments and collections, and the requests of comments update.  *)
Comment(parent, resolved) == [parent |-> parent, resolved |-> resolved]
CommentLists == UNION {[1 .. n -> {Comment(p, r) : p \in 0 .. 2, r \in BOOLEAN}] : n \in 0 .. 2}
CommentQuestions ==
  {[rows |-> l, cut |-> c, args |-> [parent |-> p, status |-> s], shows |-> w] :
     l \in CommentLists, c \in Cuts, p \in 0 .. 1, s \in {"any", "resolved", "unresolved"}, w \in BOOLEAN}
CommentUpdates ==
  {[args |-> [content |-> c, status |-> s], answers |-> <<x, y>>, shows |-> w] :
     c \in {"none", "text", "data", "unreadable"}, s \in {"none", "resolve", "unresolve"},
     x, y \in {"done", "refused", "lost"}, w \in BOOLEAN}
Structures ==
  {[roots |-> r, below |-> <<a, b, <<>>>>, document |-> d] :
     r \in {<<>>, <<0>>, <<1>>, <<1, 2>>, <<1, 2, 3>>}, a \in {<<>>, <<0>>, <<2>>, <<3>>, <<2, 3>>},
     b \in {<<>>, <<0>>, <<3>>}, d \in [1 .. 3 -> BOOLEAN]}
\* No node is at two places.
Trees ==
  {s \in Structures : LET lists == <<s.roots>> \o s.below
                      IN  \A i, j \in 1 .. 4 : i # j => Range(lists[i]) \cap Range(lists[j]) \subseteq {0}}
Lookup(named, read, structure) == [named |-> named, read |-> read, structure |-> structure]
AnyTree == CHOOSE t \in Trees : TRUE
CollectionQuestions ==
  {[lookups |-> <<Lookup(TRUE, TRUE, t), Lookup(n, r, AnyTree)>>, cut |-> c] :
     t \in Trees, n, r \in BOOLEAN, c \in {"none", "PageLimit"}}

-----------------------------------------------------------------------------
(* docs view: title 3 reads as titles 1 and 2, title 0 as none, and title 51 *)
(* as a first level.                                                        *)
MCJoined == 3 :> <<1, 2>> @@ 0 :> <<>>
ViewLines == {Text(1), Blank, Fence, Heading(1, 1), Heading(1, 2), Heading(2, 1), Heading(2, 2), Heading(2, 1 + Upper)}
ViewBodies ==
  UNION {[1 .. n -> ViewLines] : n \in 0 .. 3}
  \cup {<<Heading(1, 1), x, y, z>> : x, y, z \in ViewLines}
  \cup {<<Heading(1, t), x, Heading(l, u), y>> : t, u \in {0, 1, 2, 3, 51}, l \in 1 .. 2, x, y \in {Text(1), Heading(2, 2)}}

-----------------------------------------------------------------------------
(* Texts of a server, and the secrets of a request that was replayed.        *)
ServerTexts ==
  LET Long == {1, 2, 3, 11, Gap, Hidden}
      Short == Long \cup {4, Mark, Escape_, Lossy}
      Secrets == {<<<<1, 2, 3>>>>, <<<<1, Mark, 2>>>>, <<<<1, 2>>, <<2, 3, 1>>>>, <<<<4>>, <<1, 4, 2>>>>, <<<<4, Mark>>>>, <<<<>>>>}
  IN  {[raw |-> r, secrets |-> s] :
         r \in UNION {[1 .. n -> Short] : n \in 0 .. 2} \cup [1 .. 3 -> Long]
                \cup [1 .. 3 -> {1, Mark, 4, Hidden, Lossy}], s \in Secrets}

-----------------------------------------------------------------------------
MCQuestions(kind) ==
  CASE kind = "rows" -> RowLists
    [] kind = "table" -> Tables
    [] kind = "body" -> CacheBodies
    [] kind = "fields" -> FieldLists
    [] kind = "schema" -> Schemas
    [] kind = "description" -> Descriptions
    [] kind = "settings" -> Layers \cup ConfigPlaces
    [] kind = "call" -> CallQuestions
    [] kind = "discovery" -> DiscoveryQuestions
    [] kind = "comments" -> CommentQuestions
    [] kind = "comment update" -> CommentUpdates
    [] kind = "collections" -> CollectionQuestions
    [] kind = "view" -> ViewBodies
    [] kind = "server text" -> ServerTexts
    [] kind = "doctor" -> Diagnoses \cup OtherChecks \cup Refusals
=============================================================================

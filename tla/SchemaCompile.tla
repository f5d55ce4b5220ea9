------------------------------ MODULE SchemaCompile ------------------------------
(***************************************************************************)
(* The compiler of an API description into a table of operations           *)
(* (crates/speccompile): the parse under a budget, the flat list of the    *)
(* parameters of a request, and the list, in pre-order, of the fields of   *)
(* an answer.  The description is not trusted: references may be dangling  *)
(* and models recursive, and everything is bounded by MaxSchemaDepth.      *)
(* Pure: no state.                                                         *)
(*                                                                         *)
(* A schema is a record: whether it is a union (oneOf, anyOf), the model   *)
(* it refers to, if any, its type, its allOf branches, the schema of its   *)
(* items (none or one), its properties in order, the names it requires,    *)
(* and whether it is nullable.  Models is the map of component schemas.    *)
(***************************************************************************)
EXTENDS SpecTable

CONSTANT
  MaxParsed  \* MAX_PARSED_BYTES, in the unit of the costs below

Plain == [union |-> FALSE, ref |-> "", type |-> "none", allOf |-> <<>>, items |-> <<>>,
          props |-> <<>>, required |-> {}, nullable |-> FALSE]
Scalars == {"string", "integer", "boolean", "number"}

\* resolve_ref: only to a model of the same description.
Resolves(models, ref) == ref \in DOMAIN models

-----------------------------------------------------------------------------
(* facets: through references and allOf, never into a union.                *)
RECURSIVE Facets(_, _, _, _)
Facets(models, schema, depth, found) ==
  LET own == [found EXCEPT !.nullable = @ \/ schema.nullable]
      referred == IF schema.ref = "" THEN own
                  ELSE IF Resolves(models, schema.ref)
                  THEN Facets(models, models[schema.ref], depth + 1, own)
                  ELSE [own EXCEPT !.ok = FALSE]
  IN  IF ~found.ok THEN found
      ELSE IF depth > MaxSchemaDepth THEN [found EXCEPT !.ok = FALSE]
      ELSE FoldLeft(LAMBDA f, branch : Facets(models, branch, depth + 1, f),
                    referred, schema.allOf)

NoFacets == [ok |-> TRUE, nullable |-> FALSE]

(* The first branch whose answer is not the default: a wrapper around a     *)
(* scalar is that scalar, one around an object that object.                 *)
FirstAnswer(answers, default) ==
  LET telling == {i \in 1 .. Len(answers) : answers[i] # default}
  IN  IF telling = {} THEN default
      ELSE answers[CHOOSE i \in telling : \A j \in telling : i <= j]

(* param_type: "error" stands for a document that cannot be compiled.       *)
RECURSIVE ParamType(_, _, _)
ParamType(models, schema, depth) ==
  IF depth > MaxSchemaDepth THEN "error"
  ELSE IF schema.union THEN "json"
  ELSE IF schema.ref # ""
  THEN IF Resolves(models, schema.ref) THEN ParamType(models, models[schema.ref], depth + 1)
       ELSE "error"
  ELSE IF schema.allOf # <<>>
  THEN FirstAnswer([i \in 1 .. Len(schema.allOf) |->
                      ParamType(models, schema.allOf[i], depth + 1)], "json")
  ELSE IF schema.type \in Scalars THEN schema.type ELSE "json"

\* field_container
RECURSIVE FieldContainer(_, _, _)
FieldContainer(models, schema, depth) ==
  IF depth > MaxSchemaDepth THEN "error"
  ELSE IF schema.union THEN "union"
  ELSE IF schema.ref # ""
  THEN IF Resolves(models, schema.ref) THEN FieldContainer(models, models[schema.ref], depth + 1)
       ELSE "error"
  ELSE IF schema.type = "array" THEN "array"
  ELSE IF schema.type = "object" \/ schema.props # <<>> THEN "object"
  ELSE FirstAnswer([i \in 1 .. Len(schema.allOf) |->
                      FieldContainer(models, schema.allOf[i], depth + 1)], "none")

-----------------------------------------------------------------------------
(* Walk::collect: the parameters of a request, of every allOf branch, the   *)
(* first definition of a name.                                              *)
RECURSIVE CollectParams(_, _, _, _)
CollectParams(models, schema, depth, walk) ==
  LET here == [walk EXCEPT !.union = @ \/ schema.union]
      branched == FoldLeft(LAMBDA w, branch : CollectParams(models, branch, depth + 1, w),
                           here, schema.allOf)
      Param(w, prop) ==
        LET facets == Facets(models, prop.is, 0, NoFacets)
            type == ParamType(models, prop.is, depth)
        IN  IF prop.name \in {w.params[i].name : i \in 1 .. Len(w.params)} THEN w
            ELSE [w EXCEPT !.ok = @ /\ facets.ok /\ type # "error",
                           !.params = Append(@, [name |-> prop.name, type |-> type,
                                                 nullable |-> facets.nullable])]
  IN  IF ~walk.ok THEN walk
      ELSE IF depth > MaxSchemaDepth THEN [walk EXCEPT !.ok = FALSE]
      ELSE IF schema.ref # ""
      THEN IF Resolves(models, schema.ref)
           THEN CollectParams(models, models[schema.ref], depth + 1, here)
           ELSE [walk EXCEPT !.ok = FALSE]
      ELSE FoldLeft(Param, [branched EXCEPT !.required = @ \cup schema.required], schema.props)

(* extract_params: what is required is settled after the whole walk.        *)
Marked(walk) ==
  [ok |-> walk.ok, union |-> walk.union,
   params |-> [i \in 1 .. Len(walk.params) |->
                 [param |-> walk.params[i], required |-> walk.params[i].name \in walk.required]]]
ExtractParams(models, schema) ==
  Marked(CollectParams(models, schema, 0,
                       [ok |-> TRUE, union |-> FALSE, params |-> <<>>, required |-> {}]))

-----------------------------------------------------------------------------
(* declares_properties: with a guard of its own against cycles, [answer,    *)
(* visited], the answer "error" if the nesting is too deep.                 *)
RECURSIVE DeclaresProperties(_, _, _, _)
DeclaresProperties(models, schema, depth, visited) ==
  LET Branch(probe, branch) ==
        IF probe.answer # "no" THEN probe
        ELSE DeclaresProperties(models, branch, depth + 1, probe.visited)
  IN  IF depth > MaxSchemaDepth THEN [answer |-> "error", visited |-> visited]
      ELSE IF schema.ref # ""
      THEN IF schema.ref \in visited THEN [answer |-> "no", visited |-> visited]
           ELSE IF Resolves(models, schema.ref)
           THEN DeclaresProperties(models, models[schema.ref], depth + 1, visited \cup {schema.ref})
           ELSE [answer |-> "error", visited |-> visited]
      ELSE IF schema.type = "array" /\ schema.items # <<>>
      THEN DeclaresProperties(models, schema.items[1], depth + 1, visited)
      ELSE IF schema.props # <<>> THEN [answer |-> "yes", visited |-> visited]
      ELSE FoldLeft(Branch, [answer |-> "no", visited |-> visited], schema.allOf)

RECURSIVE CollectFields(_, _, _, _, _)

(* collect_children: one level down, or, at the limit, only whether there   *)
(* is something left out.  `seen` is the property's own.                    *)
CollectChildren_Open(models, prop, level, kind, walk) ==
  LET below == CollectFields(models, prop, 0, level + 1, [walk EXCEPT !.seen = {}])
      declares == DeclaresProperties(models, prop, 0, walk.open).answer
  IN  IF level < MaxSchemaDepth THEN [below EXCEPT !.seen = walk.seen]
      ELSE IF kind \notin Container THEN [walk EXCEPT !.cut = FALSE]
      ELSE [walk EXCEPT !.ok = @ /\ declares # "error", !.cut = declares = "yes"]

CollectChildren(models, prop, level, kind, walk) ==
  LET below == CollectFields(models, prop, 0, level + 1, [walk EXCEPT !.seen = {}])
      declares == DeclaresProperties(models, prop, 0, {}).answer
  IN  IF level < MaxSchemaDepth THEN [below EXCEPT !.seen = walk.seen]
      ELSE IF kind \notin Container THEN [walk EXCEPT !.cut = FALSE]
      ELSE [walk EXCEPT !.ok = @ /\ declares # "error", !.cut = declares = "yes"]

(* collect_properties: each property, and everything below it, in order.    *)
(* (`is` is kept for the properties below only.)                            *)
CollectProperties(models, schema, level, walk) ==
  LET Emit(w, prop) ==
        LET facets == Facets(models, prop.is, 0, NoFacets)
            kind == FieldContainer(models, prop.is, 0)
            type == ParamType(models, prop.is, 0)
            at == Len(w.out) + 1
            named == [w EXCEPT !.seen = @ \cup {prop.name},
                               !.out = Append(@, [name |-> prop.name, type |-> type,
                                                  nullable |-> facets.nullable,
                                                  depth |-> level, kind |-> kind,
                                                  omitted |-> FALSE, is |-> prop.is])]
            below == CollectChildren(models, prop.is, level, kind, named)
        IN  IF ~w.ok \/ prop.name \in w.seen THEN w
            ELSE IF ~facets.ok \/ kind = "error" \/ type = "error" THEN [w EXCEPT !.ok = FALSE]
            ELSE IF ~below.ok THEN below
            ELSE [below EXCEPT !.out[at].omitted = below.cut]
  IN  FoldLeft(Emit, walk, schema.props)

(* collect_fields, collect_ref_fields, collect_all_of, collect_item_fields: *)
(* a model that is open on this branch is not entered again, and the walk   *)
(* says that it was cut.                                                    *)
CollectFields(models, schema, depth, level, walk) ==
  LET whole == [walk EXCEPT !.cut = FALSE]
      Branch(w, branch) ==
        LET then == CollectFields(models, branch, depth + 1, level, w)
        IN  [then EXCEPT !.cut = @ \/ w.cut]
      branched == FoldLeft(Branch, whole, schema.allOf)
      entered == CollectFields(models, models[schema.ref], depth + 1, level,
                               [walk EXCEPT !.open = @ \cup {schema.ref}])
  IN  IF ~walk.ok THEN walk
      ELSE IF depth > MaxSchemaDepth THEN [walk EXCEPT !.ok = FALSE]
      ELSE IF schema.union THEN whole
      ELSE IF schema.ref \in walk.open THEN [walk EXCEPT !.cut = TRUE]
      ELSE IF schema.ref # ""
      THEN IF Resolves(models, schema.ref) THEN [entered EXCEPT !.open = walk.open]
           ELSE [walk EXCEPT !.ok = FALSE]
      ELSE IF schema.type = "array"
      THEN IF schema.items = <<>> THEN whole
           ELSE CollectFields(models, schema.items[1], depth + 1, level, walk)
      ELSE [CollectProperties(models, schema, level, branched) EXCEPT !.cut = branched.cut]

(* unwrap_array and response_item_schema: to the payload under its envelope,*)
(* if there is one, and to one item of it if it is an array.                *)
RECURSIVE UnwrapArray(_, _, _)
UnwrapArray(models, schema, depth) ==
  IF depth > MaxSchemaDepth \/ (schema.ref # "" /\ ~Resolves(models, schema.ref))
  THEN [ok |-> FALSE, is |-> <<>>]
  ELSE IF schema.ref # "" THEN UnwrapArray(models, models[schema.ref], depth + 1)
  ELSE [ok |-> TRUE, is |-> IF schema.type = "array" /\ schema.items # <<>>
                            THEN schema.items ELSE <<schema>>]

RECURSIVE ResponseItem(_, _, _, _)
ResponseItem(models, schema, envelope, depth) ==
  LET inside == {i \in 1 .. Len(schema.props) : schema.props[i].name = envelope}
  IN  IF depth > MaxSchemaDepth \/ (schema.ref # "" /\ ~Resolves(models, schema.ref))
      THEN [ok |-> FALSE, is |-> <<>>]
      ELSE IF schema.ref # "" THEN ResponseItem(models, models[schema.ref], envelope, depth + 1)
      ELSE IF envelope = "" THEN UnwrapArray(models, schema, depth)
      ELSE IF inside = {} THEN [ok |-> TRUE, is |-> <<>>]
      ELSE UnwrapArray(models, schema.props[CHOOSE i \in inside : TRUE].is, depth)

(* extract_response_fields: no field where no schema is given.              *)
ItemFields(models, item) ==
  LET none == [ok |-> item.ok, cut |-> FALSE, out |-> <<>>, seen |-> {}, open |-> {}]
  IN  IF ~item.ok \/ item.is = <<>> THEN none
      ELSE CollectFields(models, item.is[1], 0, 0, none)
ResponseFields(models, response, envelope) ==
  ItemFields(models, IF response = <<>> THEN [ok |-> TRUE, is |-> <<>>]
                     ELSE ResponseItem(models, response[1], envelope, 0))

-----------------------------------------------------------------------------
(* A path of the description is the slashes it starts with, the name behind *)
(* them and whether the characters are allowed.  An operation is what its   *)
(* POST says: the content types of its body, in order, the schema of a JSON *)
(* one, the schema of its answer, and whether its text can be shown.        *)

\* request_body and body_kind: JSON wherever it stands, or the first type.
RequestBody(post) ==
  IF post.content = <<>> THEN "" ELSE IF "json" \in Range(post.content) THEN "json"
  ELSE Head(post.content)
BodyKind(type, union) ==
  IF type \notin {"", "json"} THEN "unsupported" ELSE IF union THEN "raw" ELSE "key_value"

\* check_identifiers, check_path: the path is the prefix, one slash and the name.
SafeIdentifiers(path) == path.name # 0 /\ path.safe /\ path.slashes = 1

(* compile_op                                                               *)
Operation(path, post, body, answer) ==
  [ok |-> /\ body.ok /\ answer.ok
          /\ post.bodyless \/ post.content # <<>>
          /\ SafeIdentifiers(path) /\ post.shown
          /\ FieldsNest(answer.out),
   name |-> path.name, body |-> BodyKind(RequestBody(post), body.union),
   params |-> body.params, fields |-> answer.out]
CompileOp(models, envelope, path, post) ==
  Operation(path, post,
            IF RequestBody(post) = "json" /\ post.schema # <<>> THEN ExtractParams(models, post.schema[1])
            ELSE [ok |-> TRUE, union |-> FALSE, params |-> <<>>],
            ResponseFields(models, post.response, envelope))

(* compile: every path with a POST, in the order of the names, and no name  *)
(* twice; <<>> for a description that is refused.                           *)
InOrder(ops) ==
  LET order == SetToSortSeq(DOMAIN ops, LAMBDA p, q : p.name < q.name)
  IN  IF \/ DOMAIN ops = {}
         \/ \E p \in DOMAIN ops : ~ops[p].ok
         \/ \E p, q \in DOMAIN ops : p # q /\ p.name = q.name
      THEN <<>>
      ELSE [i \in 1 .. Len(order) |-> ops[order[i]]]
CompileDocument(models, envelope, paths) ==
  InOrder([p \in {q \in paths : q.post # <<>>} |-> CompileOp(models, envelope, p, p.post[1])])

(* document::parse: the keys of a description in order, each with what its  *)
(* value costs and whether it is well formed.  Only what the compiler reads *)
(* is charged, as it is built; a document that is too large is told from    *)
(* one that is not JSON.                                                    *)
ParseDocument(keys, trailing) ==
  LET Read(r, k) ==
        LET cost == IF k.key \in {"paths", "components"} THEN k.cost ELSE 0
        IN  IF r.outcome # "ok" THEN r
            ELSE IF r.spent + cost > MaxParsed THEN [r EXCEPT !.outcome = "too_large"]
            ELSE IF ~k.valid THEN [r EXCEPT !.outcome = "not_json"]
            ELSE [r EXCEPT !.spent = @ + cost]
      read == FoldLeft(Read, [outcome |-> "ok", spent |-> 0], keys)
  IN  IF read.outcome = "ok" /\ trailing THEN "not_json" ELSE read.outcome

(* compile_json: the keys are parsed before anything is compiled.           *)
CompileJson(models, envelope, paths, keys, trailing) ==
  IF ParseDocument(keys, trailing) = "ok" THEN CompileDocument(models, envelope, paths) ELSE <<>>

-----------------------------------------------------------------------------
(* What a schema declares, without a walk: the parts it is composed of.     *)
RECURSIVE Parts(_, _, _)
Parts(models, schema, visited) ==
  IF schema.union \/ schema.ref \in visited THEN {}
  ELSE IF schema.ref # "" THEN Parts(models, models[schema.ref], visited \cup {schema.ref})
  ELSE IF schema.type = "array"
  THEN UNION {Parts(models, schema.items[i], visited) : i \in 1 .. Len(schema.items)}
  ELSE {schema} \cup UNION {Parts(models, schema.allOf[i], visited) : i \in 1 .. Len(schema.allOf)}
Declared(models, schema) ==
  UNION {{part.props[i].name : i \in 1 .. Len(part.props)} : part \in Parts(models, schema, {})}

\* The properties listed for the i-th field: one level down, up to its end.
Listed(fields, i) ==
  {fields[j].name : j \in {k \in i + 1 .. Len(fields) :
     /\ fields[k].depth = fields[i].depth + 1
     /\ \A between \in i + 1 .. k : fields[between].depth > fields[i].depth}}

(* An answer is never denied a path it has: in every operation that is      *)
(* compiled the list names exactly the properties a field declares, or the  *)
(* field says that some are left out, however recursive the models are.     *)
(* (A union lists none, by design.)                                         *)
NoneDenied(models, fields) ==
  \A i \in 1 .. Len(fields) :
    /\ Listed(fields, i) \subseteq Declared(models, fields[i].is)
    /\ fields[i].kind \in Container /\ ~fields[i].omitted =>
         Listed(fields, i) = Declared(models, fields[i].is)
PathsAreNotDenied(models, schema) ==
  \A walk \in {ResponseFields(models, <<schema>>, "")} :
    walk.ok /\ FieldsNest(walk.out) => NoneDenied(models, walk.out)

(* The rule response.rs says it keeps: what the walk lists is a tree, each  *)
(* field under a container, so that nothing the walk accepts is refused for *)
(* its own list.                                                            *)
WalkListsATree(models, schema) ==
  \A walk \in {ResponseFields(models, <<schema>>, "")} : walk.ok => FieldsNest(walk.out)

(* Every table the compiler returns is one the reader of the cache accepts  *)
(* again: each operation with a name of its own, under its own endpoint, its*)
(* fields a tree; and its parameters are those its body declares, each once.*)
CompiledIsReadable(models, envelope, paths, keys, trailing) ==
  LET As(op) == [name |-> op.name, text |-> 1, params |-> Len(op.params), fields |-> op.fields,
                 own |-> \E p \in paths : p.name = op.name /\ p.slashes = 1 /\ p.safe,
                 shown |-> \A p \in paths : p.name = op.name => \A i \in 1 .. Len(p.post) : p.post[i].shown]
  IN  \A ops \in {CompileJson(models, envelope, paths, keys, trailing)} : ops # <<>> =>
        /\ ValidTable([i \in 1 .. Len(ops) |-> As(ops[i])])
        /\ Len(ops) = Cardinality({p \in paths : p.post # <<>>})
        /\ \A i \in 1 .. Len(ops), j, k \in 1 .. Len(ops) :
             LET names == [n \in 1 .. Len(ops[i].params) |-> ops[i].params[n].param.name]
             IN  /\ IsInjective(names)
                 /\ j < k => ops[j].name < ops[k].name
================================================================================

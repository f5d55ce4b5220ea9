------------------------------ MODULE CommandTables ------------------------------
(***************************************************************************)
(* The tables of operations that the commands of Commands are answered from:*)
(* what a description compiles to, and what is stored of it.                *)
(***************************************************************************)
EXTENDS Commands, SchemaCompile

(* Tables of operations (speccompile/, spec/bounded.rs): what is stored is  *)
(* what is loaded, what is loaded could have been stored, an answer is never*)
(* denied a path it has, what is compiled can be read again, and a request  *)
(* made from a table (commands/api/, body.rs, scalar.rs) says what the      *)
(* command line says.                                                       *)
TablesAreSound ==
  /\ Asked("table") => StoredLoads(question.is.meta, question.is.ops)
  /\ Asked("body") => LoadedIsStorable(question.is)
  /\ Asked("fields") => NestingIsATree(question.is)
  /\ Asked("schema") => PathsAreNotDenied(question.is.models, question.is.schema)
  /\ Asked("description") => CompiledIsReadable(question.is.models, question.is.envelope,
                                question.is.paths, question.is.keys, question.is.trailing)
  /\ Asked("call") => CallSaysTheLine(question.is.line, question.is.table)

(* schema/response.rs:10-16 says that every rule it maintains is checked    *)
(* again: so what its walk lists has to pass that check.                    *)
WalkPassesItsCheck == Asked("schema") => WalkListsATree(question.is.models, question.is.schema)
=============================================================================

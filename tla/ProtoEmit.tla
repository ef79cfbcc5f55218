------------------------------ MODULE ProtoEmit ------------------------------
(***************************************************************************)
(* The emitter, src/libasn1print/asn1protooutput.c: proto_print_msg and   *)
(* the printers it calls, as operators from the proto model to what they  *)
(* write.  Written text is abstracted to records: an enum is its entries  *)
(* (name, value), a message its numbered fields and oneofs.  Names stay   *)
(* the model's names; the casing applied on the way out is NameRewriter's, *)
(* except in the prologue, whose package and import paths are spelled out *)
(* byte by byte from the source file name.                                *)
(***************************************************************************)
EXTENDS Integers, Sequences, FiniteSets, NameRewriter

\* proto_print_single_enum: when no entry has index 0, the entry
\* "<ENUM>_UNDEFINED = 0" comes first; each entry is then written with its
\* index, or, when that is negative, with the running counter index++ that
\* counts the entries without index seen so far.
AutoZero == "UNDEFINED"

EntryValue(defs, k) ==
  IF defs[k].index < 0
  THEN Cardinality({j \in 1..k - 1 : defs[j].index < 0})
  ELSE defs[k].index

EmitEnum(en) ==
  LET hasEnumZero == \E k \in DOMAIN en.defs : en.defs[k].index = 0
      auto == IF hasEnumZero THEN <<>> ELSE <<[name |-> AutoZero, value |-> 0]>>
  IN  [name |-> en.name, uniq |-> en.uniq,
       entries |-> auto \o [k \in DOMAIN en.defs |->
                              [name |-> en.defs[k].name,
                               value |-> EntryValue(en.defs, k)]]]

\* print_entries: the i-th field is written "<type> <name> = i+1 [rules];".
EmitEntries(fields) ==
  [k \in DOMAIN fields |-> [num |-> k, repeated |-> fields[k].repeated,
                            type |-> fields[k].type, name |-> fields[k].name,
                            rules |-> fields[k].rules]]

\* proto_print_single_msg and proto_print_single_oneof: the fields, then
\* each oneof block with its own fields, numbered by print_entries.
EmitMessage(m) ==
  [name |-> m.name, uniq |-> m.uniq,
   fields |-> EmitEntries(m.fields),
   oneofs |-> [k \in DOMAIN m.oneofs |->
                 [name |-> m.oneofs[k].name,
                  fields |-> EmitEntries(m.oneofs[k].fields)]]]

-----------------------------------------------------------------------------
(* The prologue of proto_print_msg.  The header comment lines and OIDs    *)
(* are left out; the package and import lines are kept.                    *)

\* proto_remove_rel_path (outside src, spec section 4.7): leading "./"
\* and "../" segments are stripped.
RECURSIVE RemoveRelPath(_)
RemoveRelPath(s) ==
  CASE Len(s) >= 2 /\ SubSeq(s, 1, 2) = <<".", "/">>      -> RemoveRelPath(SubSeq(s, 3, Len(s)))
    [] Len(s) >= 3 /\ SubSeq(s, 1, 3) = <<".", ".", "/">> -> RemoveRelPath(SubSeq(s, 4, Len(s)))
    [] OTHER                                              -> s

\* srcNoRelPath: the source file name snake-cased, then stripped of its
\* relative path; "pkg" goes before it when it does not start with a
\* lowercase letter.  The package line is "package <id>.v1;".
PackageId(src) ==
  LET srcNoRelPath == RemoveRelPath(ToSnakeCase(src, "LOWER"))
  IN  IF StartNotLcLetter(srcNoRelPath) THEN <<"p", "k", "g">> \o srcNoRelPath
      ELSE srcNoRelPath

\* An import line "import \"<dir>/v1/<file>.proto\";" is the pair
\* <<dir, file>>: the importing module's package id and the imported
\* module's name through toLowercaseDup.
ImportPath(src, imp) == <<PackageId(src), ToLowercase(imp)>>

Validate == <<"v", "a", "l", "i", "d", "a", "t", "e">>
ValidateImport == <<Validate, Validate>>

\* proto_print_msg: the package line, one import line per import of the
\* module, the validate import, then every enum, then every message, in
\* model order.
Prologue(src, imports) ==
  [package |-> PackageId(src),
   imports |-> [k \in DOMAIN imports |-> ImportPath(src, imports[k])] \o <<ValidateImport>>]
EmitModule(prologue, enums, messages) ==
  [package  |-> prologue.package,
   imports  |-> prologue.imports,
   enums    |-> [k \in DOMAIN enums |-> EmitEnum(enums[k])],
   messages |-> [k \in DOMAIN messages |-> EmitMessage(messages[k])]]
=============================================================================

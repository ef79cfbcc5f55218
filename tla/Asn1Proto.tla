------------------------------ MODULE Asn1Proto ------------------------------
(***************************************************************************)
(* The translator end to end: the lowering pass of ProtoLower over the    *)
(* whole module, then one emission pass of ProtoEmit over the proto model *)
(* it built (the driver calls proto_print_msg once lowering is done).     *)
(* The properties relate the ASN.1 input to the emitted proto.            *)
(***************************************************************************)
EXTENDS ProtoLower, ProtoEmit

CONSTANTS
  SrcFileName,   \* proto_module->srcfilename, set by the driver
  Imports        \* proto_module->import: the imported module names, in order

VARIABLES
  emitted,       \* proto_print_msg has run
  output         \* what it wrote (package, imports, enums and messages)

vars == <<lowerVars, emitted, output>>

\* The package and imports, which depend only on the driver's inputs.
ModulePrologue == Prologue(SrcFileName, Imports)

NoOutput == [package |-> <<>>, imports |-> <<>>, enums |-> <<>>, messages |-> <<>>]

Init ==
  /\ LowerInit
  /\ emitted = FALSE
  /\ output = NoOutput

\* Lowering is over once every call has returned; the module is emitted.
Emit ==
  /\ todo = <<>>
  /\ ~emitted
  /\ emitted' = TRUE
  /\ output' = EmitModule(ModulePrologue, enums, messages)
  /\ UNCHANGED lowerVars

Next ==
  \/ LowerNext /\ UNCHANGED <<emitted, output>>
  \/ Emit

Spec == Init /\ [][Next]_vars

\* The translator is one sequential loop over the definitions: a step that
\* can be taken is taken.
FairSpec == Spec /\ WF_vars(Next)

-----------------------------------------------------------------------------
\* Every definition a call is made for: the module's and their clones.
Definitions == UNION {{defs[k]} \cup Range(defs[k].specs) : k \in DOMAIN defs}

\* The definition an emitted message or enum was lowered from.
SourceOf(x) == CHOOSE e \in Definitions : e.id = x.name /\ e.uniq = x.uniq

MemberNamed(e, name) == CHOOSE k \in DOMAIN e.members : e.members[k].id = name

-----------------------------------------------------------------------------
(* Properties of the lowering.                                             *)

\* The refinement mapping: the module Translator answers is the module
\* being lowered, its answers are what asn1print_expr_proto returned to
\* the driver, and it has written the module once proto_print_msg ran.
Promise == INSTANCE Translator WITH module <- defs, answers <- rets, written <- emitted

-----------------------------------------------------------------------------
(* Properties of the emitted module.                                      *)

\* Every ENUMERATED item with a non-negative value is emitted with that
\* value (proto_process_enumerated keeps it, proto_print_single_enum prints
\* it), whatever negative items and auto-inserted zero surround it.
EnumValuesPreserved ==
  emitted =>
    \A k \in DOMAIN output.enums :
      LET en  == output.enums[k]
          src == SourceOf(en)
      IN  \A j \in DOMAIN src.members :
            LET se == src.members[j] IN
            se.type = "UNIVERVAL" /\ se.value >= 0 =>
              \E i \in DOMAIN en.entries :
                en.entries[i].name = se.id /\ en.entries[i].value = se.value

\* A field is written "repeated" only when it comes from a SEQUENCE OF:
\* the lowered type itself is a SEQUENCE OF, or the member is (spec,
\* section 3).
RepeatedOnlyFromSequenceOf ==
  emitted =>
    \A k \in DOMAIN output.messages :
      LET m == output.messages[k] IN
      \A i \in DOMAIN m.fields :
        m.fields[i].repeated =>
          LET src == SourceOf(m) IN
          \/ src.type = "SEQUENCE OF"
          \/ /\ src.type \in Constructed
             /\ src.members[MemberNamed(src, m.fields[i].name)].type = "SEQUENCE OF"

\* The module written is proto3 that protoc accepts as far as labels go:
\* a field of a oneof carries no label, so proto_print_single_oneof never
\* writes "repeated" before one (proto3 language guide; spec section 1
\* makes proto3 the target).
OneofFieldsUnlabelled ==
  emitted =>
    \A k \in DOMAIN output.messages :
      \A o \in Range(output.messages[k].oneofs) :
        \A i \in DOMAIN o.fields : ~o.fields[i].repeated

\* The message of a CHOICE has no field of its own and exactly one oneof,
\* named after the CHOICE, that holds one field per alternative in order
\* (spec, section 3).
ChoiceIsSingleOneof ==
  emitted =>
    \A k \in DOMAIN output.messages :
      LET m   == output.messages[k]
          src == SourceOf(m)
          alts == SelectSeq(src.members,
                    LAMBDA se : se.type \notin {"UNIVERVAL", "EXTENSIBLE"})
      IN  src.type = "CHOICE" =>
            /\ m.fields = <<>>
            /\ Len(m.oneofs) = 1
            /\ m.oneofs[1].name = src.id
            /\ [i \in DOMAIN m.oneofs[1].fields |-> m.oneofs[1].fields[i].name]
                 = [i \in DOMAIN alts |-> alts[i].id]

\* Every emitted enum starts with the value 0, as proto3 requires, and no
\* other entry has the value 0 (spec, section 8).
EnumZeroFirstAndUnique ==
  emitted =>
    \A k \in DOMAIN output.enums :
      LET en == output.enums[k] IN
      /\ en.entries[1].value = 0
      /\ \A i \in DOMAIN en.entries : i > 1 => en.entries[i].value # 0

\* Every line the lowering writes to stdout is a proto comment, so the
\* output stays a proto file (spec, section 7: "// ERROR ..."), and every
\* named definition that the spec does not list as ignored (CLASS
\* definitions and non-INTEGER value sets) ends up as a message or enum,
\* or as such a line (spec, sections 4.4 and 7).
EveryDefinitionReported ==
  emitted =>
    /\ \A k \in DOMAIN stdout : stdout[k].comment
    /\ \A e \in Definitions :
         /\ e.id # NoId
         /\ e.specs = <<>>
         /\ e.type # "CLASSDEF"
         /\ ~(e.meta = "VALUESET" /\ e.type # "INTEGER")
         => \/ \E k \in DOMAIN output.messages : output.messages[k].name = e.id
            \/ \E k \in DOMAIN output.enums : output.enums[k].name = e.id
            \/ \E k \in DOMAIN stdout : stdout[k].def = e.id

\* A proto identifier: a letter, then letters, digits and underscores.
IsProtoIdent(s) ==
  /\ Len(s) > 0
  /\ IsLower(s[1]) \/ IsUpper(s[1])
  /\ \A k \in DOMAIN s : IsLower(s[k]) \/ IsUpper(s[k]) \/ s[k] \in Digits \cup {"_"}

\* The prologue proto_print_msg writes is valid proto3 as spec sections
\* 4.6, 6 and 8 describe it: the package "<id>.v1" is a proto package
\* name, each import path appears exactly once, and the validate import
\* comes last.
PrologueIsValidProto ==
  emitted =>
    /\ IsProtoIdent(output.package)
    /\ IsInjective(output.imports)
    /\ Last(output.imports) = ValidateImport

\* The 64-bit value of an int: the pair [hi, lo] of ProtoLower's Int32Of.
Int64Of(x) == [hi |-> 0, lo |-> x]

\* Every field keeps the domain of what it was lowered from: the
\* int32.const rule of a constant states the ASN.1 value, and a member of
\* a character-string type becomes a string field, as a top-level
\* IA5String, BMPString, UTF8String or TeletexString type does.
FieldsKeepSourceDomain ==
  emitted =>
    \A k \in DOMAIN output.messages :
      LET m   == output.messages[k]
          src == SourceOf(m)
      IN  /\ \A i \in DOMAIN m.fields :
               /\ m.fields[i].rules.kind = "int32.const"
               /\ m.fields[i].name = "value"
               => Int64Of(m.fields[i].rules.val) = src.int
          /\ src.type \in {"SEQUENCE", "CHOICE"} =>
               \A se \in Range(src.members) :
                 se.type \in {"IA5String", "BMPString", "UTF8String", "TeletexString"} =>
                   \A f \in Range(m.fields) \cup UNION {Range(o.fields) : o \in Range(m.oneofs)} :
                     f.name = se.id => f.type = "string"
=============================================================================

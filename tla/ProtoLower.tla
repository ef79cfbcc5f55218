----------------------------- MODULE ProtoLower -----------------------------
(***************************************************************************)
(* The lowering of an ASN.1 module into the proto model,                  *)
(* src/libasn1print/asn1printproto.c: asn1print_expr_proto and what it    *)
(* calls (proto_process_enumerated, proto_process_children,               *)
(* asn1extract_columns, proto_extract_params).                            *)
(*                                                                         *)
(* The driver calls asn1print_expr_proto once per definition of the       *)
(* module, in order; a parameterized definition recurses into its         *)
(* specialization clones and stops at the first clone that fails.  todo   *)
(* holds the calls still to make, clones first; each action is one branch *)
(* of the function's if/else-if dispatch applied to the call at its head, *)
(* and appends what that branch builds to messages, enums or stdout.      *)
(*                                                                         *)
(* Data is abstracted to what the dispatch reads: names are model values  *)
(* or strings, a comment is the kind of its template.  A constraint tree *)
(* is ConstraintPrinter's, and a rule's text is what proto_constraint_print*)
(* returned for it.                                                        *)
(***************************************************************************)
EXTENDS Integers, Sequences, SequencesExt, ConstraintPrinter

CONSTANTS
  Modules,       \* the ASN.1 modules (sequences of definitions) to lower
  NoId           \* a definition or member without an Identifier

VARIABLES
  defs,          \* the module being lowered (read-only input)
  todo,          \* pending calls: [expr, clone]; clone = a specialization
  messages,      \* proto_msg_t *message[]: messages appended so far
  enums,         \* proto_enum_t *protoenum[]: enums appended so far
  stdout,        \* error lines printf'ed during lowering
  rets           \* what each top-level call returned to the driver

lowerVars == <<defs, todo, messages, enums, stdout, rets>>

Constructed == {"SEQUENCE", "SEQUENCE OF", "CHOICE"}

\* A 64-bit asn1c_integer_t v is the pair [hi, lo] of its words,
\* v = hi * 2^32 + lo with lo the low word read as a signed int (TLC's
\* integers are 32 bits wide).  (int)v keeps the low word.
Int32Of(v) == v.lo

-----------------------------------------------------------------------------
(* The proto model (asn1prototypes.c, outside src/): constructors as in   *)
(* the spec, section 3.                                                    *)
NoRules == [kind |-> "none", val |-> 0]
Rules(kind, val) == [kind |-> kind, val |-> val]

\* proto_create_msg_elem(name, type, NULL); a member without Identifier
\* (the element of a SEQUENCE OF) becomes the field "value".
Field(name, type) ==
  [name |-> IF name = NoId THEN "value" ELSE name, type |-> type,
   rules |-> NoRules, repeated |-> FALSE]

\* proto_create_message(Identifier, spec_index, _type_unique_index, ...)
Message(e, origin) ==
  [name |-> e.id, uniq |-> e.uniq, origin |-> origin, fields |-> <<>>,
   oneofs |-> <<>>, params |-> <<>>]

-----------------------------------------------------------------------------
(* proto_param_type and proto_extract_params: each lhs parameter is a     *)
(* TYPE when its governor is empty, a VALUE when its argument starts      *)
(* lowercase, a VALUE_SET otherwise.                                       *)
ParamKind(p) == CASE p.governor = ""                 -> "TYPE"
                  [] p.governor # "" /\ p.argLower   -> "VALUE"
                  [] p.governor # "" /\ ~p.argLower  -> "VALUE_SET"

WithParams(msg, e) == [msg EXCEPT !.params = [k \in DOMAIN e.params |->
                                               ParamKind(e.params[k])]]

-----------------------------------------------------------------------------
(* proto_process_enumerated: every UNIVERVAL member becomes an entry whose *)
(* index is its value when that is a non-negative integer, -1 otherwise.  *)
\* Mutant: a value of 0 is not taken as an index.
EnumDefPositiveOnly(se) == [name |-> se.id, index |-> IF se.value > 0 THEN se.value ELSE -1]

EnumDef(se) == [name |-> se.id, index |-> IF se.value >= 0 THEN se.value ELSE -1]

ProcessEnumerated(e) ==
  LET items == SelectSeq(e.members, LAMBDA se : se.type = "UNIVERVAL")
  IN  [name |-> e.id, uniq |-> e.uniq,
       defs |-> [k \in DOMAIN items |-> EnumDef(items[k])]]

-----------------------------------------------------------------------------
(* proto_process_children: one field per member, typed by the first       *)
(* matching branch of the else-if chain, "int32" when none matches.       *)
(* UNIVERVAL and EXTENSIBLE members are skipped (continue).               *)
FirstTrue(conds) == SelectInSeq(conds, LAMBDA b : b)

IsTypeRef(se) == se.type = "REFERENCE" /\ se.meta = "TYPEREF"

\* The flags the driver passes asn1print_expr_proto (APF_NOFLAGS).
DriverFlags == {}

\* proto_constraint_print of a UTF8String or TeletexString member's
\* constraints, with APF_STRING_VALUE alone.
MemberRule(se) == ConstraintPrint(se.constraints, {"STRING_VALUE"})

\* What the printers wrote straight to stdout (CONSTRAINED BY, CONTAINING,
\* PATTERN) while lowering e: a line that is no comment.
StrayLines(e, printed) == [k \in DOMAIN printed.out |-> [def |-> e.id, comment |-> FALSE]]

ChildField(se, repeated) ==
  LET f == [Field(se.id, "int32") EXCEPT !.repeated = repeated]
      b == FirstTrue(<< se.type = "BIT STRING",
                        se.type = "OBJECT IDENTIFIER",
                        se.type = "BOOLEAN",
                        se.type \in {"UTF8String", "TeletexString"},
                        se.meta = "TYPE" /\ se.type = "SEQUENCE OF",
                        IsTypeRef(se),
                        TRUE >>)
  IN  CASE b = 1 -> [f EXCEPT !.type = "BitString"]
        [] b = 2 -> [f EXCEPT !.type = "BasicOid"]
        [] b = 3 -> [f EXCEPT !.type = "bool"]
        [] b = 4 -> [f EXCEPT !.type = "string",
                              !.rules = IF se.constraints # NoConstraint
                                        THEN Rules("string", MemberRule(se).res)
                                        ELSE NoRules]
        [] b = 5 -> [f EXCEPT !.repeated = TRUE,
                              !.type = IF /\ IsTypeRef(se.elem)
                                          /\ Len(se.elem.ref) = 1
                                       THEN se.elem.ref[1] ELSE "int32"]
        [] b = 6 -> [f EXCEPT !.type = CASE Len(se.ref) = 2 -> se.ref[2]
                                         [] Len(se.ref) = 1 -> se.ref[1]
                                         [] OTHER           -> "int32"]
        [] b = 7 -> f

\* Mutant: the extension marker "..." is not skipped.
ProcessChildrenKeepsExtensible(members, repeated) ==
  LET kept == SelectSeq(members, LAMBDA se : se.type # "UNIVERVAL")
  IN  [k \in DOMAIN kept |-> ChildField(kept[k], repeated)]

ProcessChildren(members, repeated) ==
  LET kept == SelectSeq(members,
                LAMBDA se : se.type \notin {"UNIVERVAL", "EXTENSIBLE"})
  IN  [k \in DOMAIN kept |-> ChildField(kept[k], repeated)]

-----------------------------------------------------------------------------
(* asn1extract_columns: an information object becomes a message with one *)
(* field "<field>-<value>" per cell with new_ref > 0, row by row.         *)
IocField(cell) ==
  LET f == Field(<<cell.field, cell.valId>>, "int32")
  IN  CASE cell.isInt                                -> [f EXCEPT !.rules =
                                          Rules("int32.const", Int32Of(cell.int))]
        [] ~cell.isInt /\ cell.valId = "INTEGER"     -> f
        [] ~cell.isInt /\ cell.valId = "REAL"        -> [f EXCEPT !.type = "float"]
        [] ~cell.isInt /\ cell.valId \notin {"INTEGER", "REAL"}
                                                     -> [f EXCEPT !.type = cell.valId]

IocMessage(e) ==
  LET cells == SelectSeq(FlattenSeq(e.ioc), LAMBDA c : c.newRef)
  IN  [Message(e, "instance") EXCEPT !.fields = [k \in DOMAIN cells |->
                                                  IocField(cells[k])]]

-----------------------------------------------------------------------------
(* The if/else-if dispatch of asn1print_expr_proto: the branch a call     *)
(* takes.                                                                  *)
Branch(e) ==
  LET names == << "specializations", "anonymous", "enumerated", "value",
                  "integerValueSet", "scalarType", "sequence", "choice",
                  "classdef", "typeref", "valueset", "unhandled" >>
      b == FirstTrue(<< Len(e.specs) > 0,
                        e.id = NoId,
                        e.type = "ENUMERATED",
                        e.meta = "VALUE",
                        e.type = "INTEGER" /\ e.meta = "VALUESET",
                        e.meta = "TYPE" /\ e.type \notin Constructed,
                        e.meta = "TYPE" /\ e.type \in {"SEQUENCE", "SEQUENCE OF"},
                        e.meta = "TYPE" /\ e.type = "CHOICE",
                        e.type = "CLASSDEF",
                        e.meta = "TYPEREF",
                        e.meta = "VALUESET",
                        TRUE >>)
  IN  names[b]

Call == Head(todo).expr

\* The call at the head of todo returns r: a failing specialization ends
\* its parent's loop (the remaining clones are dropped) and the parent
\* returns r; the parent also returns once its last clone has returned.
Return(r) ==
  LET rest  == Tail(todo)
      clone == Head(todo).clone
      nextTop == SelectInSeq(rest, LAMBDA c : ~c.clone)
  IN  /\ todo' = IF clone /\ r # 0
                 THEN IF nextTop = 0 THEN <<>> ELSE SubSeq(rest, nextTop, Len(rest))
                 ELSE rest
      /\ rets' = IF ~clone \/ r # 0 \/ rest = <<>> \/ ~Head(rest).clone
                 THEN Append(rets, r) ELSE rets

AddMessage(m) == messages' = Append(messages, m)
-----------------------------------------------------------------------------
(* The driver: one call per definition, in module order.                  *)
LowerInit ==
  /\ defs \in Modules
  /\ todo = [k \in DOMAIN defs |-> [expr |-> defs[k], clone |-> FALSE]]
  /\ messages = <<>>
  /\ enums = <<>>
  /\ stdout = <<>>
  /\ rets = <<>>

Dispatching(name) == todo # <<>> /\ Branch(Call) = name

\* A parameterized type: call asn1print_expr_proto on each clone in turn.
LowerSpecializations ==
  /\ Dispatching("specializations")
  /\ todo' = [k \in DOMAIN Call.specs |-> [expr |-> Call.specs[k], clone |-> TRUE]]
               \o Tail(todo)
  /\ UNCHANGED <<defs, messages, enums, stdout, rets>>

\* if(!expr->Identifier) return 0;
SkipAnonymous ==
  /\ Dispatching("anonymous")
  /\ Return(0)
  /\ UNCHANGED <<defs, messages, enums, stdout>>

LowerEnumerated ==
  /\ Dispatching("enumerated")
  /\ enums' = Append(enums, ProcessEnumerated(Call))
  /\ Return(0)
  /\ UNCHANGED <<defs, messages, stdout>>

\* A value of type INTEGER, or a reference-typed value with an INTEGER
\* value: a message with the single field "value" fixed by int32.const.
ConstMessage(e, origin) ==
  [Message(e, origin) EXCEPT !.fields = <<[Field("value", "int32") EXCEPT
                                 !.rules = Rules("int32.const", Int32Of(e.int))]>>]

LowerIntegerValue ==
  /\ Dispatching("value")
  /\ Call.type = "INTEGER"
  /\ AddMessage(ConstMessage(Call, "constant"))
  /\ Return(0)
  /\ UNCHANGED <<defs, enums, stdout>>

\* A value of a referenced type, by the kind of its value: an integer or a
\* string constant, an information object (with an IOC table), or the
\* comment "// Error. AMT_VALUE ..." for any other kind.
LowerReferenceValue ==
  LET e == Call IN
  /\ Dispatching("value")
  /\ e.type = "REFERENCE"
  /\ \/ /\ e.value = "INTEGER"
        /\ AddMessage(ConstMessage(e, "reference"))
        /\ UNCHANGED stdout
     \/ /\ e.value = "STRING"
        /\ AddMessage([Message(e, "reference") EXCEPT !.fields =
              <<[Field("value", "string") EXCEPT
                   !.rules = Rules("string.const", "escaped")]>>])
        /\ UNCHANGED stdout
     \/ /\ e.value = "UNPARSED"
        /\ IF e.ioc # <<>> THEN AddMessage(IocMessage(e))
                           ELSE UNCHANGED messages
        /\ UNCHANGED stdout
     \/ /\ e.value \notin {"INTEGER", "STRING", "UNPARSED"}
        /\ stdout' = Append(stdout, [def |-> e.id, comment |-> TRUE])
        /\ UNCHANGED messages
  /\ Return(0)
  /\ UNCHANGED <<defs, enums>>

LowerUnhandledValue ==
  /\ Dispatching("value")
  /\ Call.type \notin {"INTEGER", "REFERENCE"}
  /\ stdout' = Append(stdout, [def |-> Call.id, comment |-> FALSE])
  /\ Return(-1)
  /\ UNCHANGED <<defs, messages, enums>>

\* An INTEGER value set: the field rule int32 = {in: [...]}.
LowerIntegerValueSet ==
  /\ Dispatching("integerValueSet")
  /\ LET printed == ConstraintText(Call.constraints, DriverFlags) IN
     /\ AddMessage([Message(Call, "range") EXCEPT !.fields =
           <<[Field("value", "int32") EXCEPT !.rules = Rules("int32.in", printed.res)]>>])
     /\ stdout' = stdout \o StrayLines(Call, printed)
  /\ Return(0)
  /\ UNCHANGED <<defs, enums>>

\* proto_constraint_print of a scalar type's constraints: with
\* APF_INT32_VALUE for an INTEGER, APF_STRING_VALUE for a string.
ScalarRule(e) ==
  ConstraintPrint(e.constraints,
    DriverFlags \cup IF e.type = "INTEGER" THEN {"INT32_VALUE"} ELSE {"STRING_VALUE"})

\* The writes of the constraints of e's printed members, in order.
MemberStray(e) ==
  LET printedMembers == SelectSeq(e.members, LAMBDA se :
        se.type \in {"UTF8String", "TeletexString"} /\ se.constraints # NoConstraint)
  IN  FlattenSeq([k \in DOMAIN printedMembers |-> StrayLines(e, MemberRule(printedMembers[k]))])

\* A type that is not SEQUENCE, SEQUENCE OF or CHOICE: a one-field message
\* for INTEGER, IA5String, BMPString and BOOLEAN; any other type builds the
\* message and returns without adding it.
ScalarMessage(e) ==
  LET m == WithParams(Message(e, "range"), e)
      v == Field("value", "int32")
      ct(kind) == IF e.constraints # NoConstraint
                  THEN Rules(kind, ScalarRule(e).res) ELSE NoRules
  IN  CASE e.type = "INTEGER" ->
             <<[m EXCEPT !.fields = <<[v EXCEPT !.rules = ct("int32")]>>]>>
        [] e.type \in {"IA5String", "BMPString"} ->
             <<[m EXCEPT !.fields = <<[v EXCEPT !.type = "string",
                                               !.rules = ct("string")]>>]>>
        [] e.type = "BOOLEAN" ->
             <<[m EXCEPT !.fields = <<[v EXCEPT !.type = "bool"]>>]>>
        [] OTHER -> <<>>

LowerScalarType ==
  /\ Dispatching("scalarType")
  /\ messages' = messages \o ScalarMessage(Call)
  /\ stdout' = stdout \o IF /\ Call.type \in {"INTEGER", "IA5String", "BMPString"}
                           /\ Call.constraints # NoConstraint
                        THEN StrayLines(Call, ScalarRule(Call)) ELSE <<>>
  /\ Return(0)
  /\ UNCHANGED <<defs, enums>>

\* SEQUENCE and SEQUENCE OF: one field per member; every field of a
\* SEQUENCE OF is repeated.
\* Mutant: the children of a SEQUENCE are repeated too.
LowerSequenceAllRepeated ==
  LET e == Call IN
  /\ Dispatching("sequence")
  /\ AddMessage([WithParams(Message(e, "sequence"), e) EXCEPT
        !.fields = ProcessChildren(e.members, e.type \in {"SEQUENCE", "SEQUENCE OF"})])
  /\ Return(0)
  /\ stdout' = stdout \o MemberStray(e)
  /\ UNCHANGED <<defs, enums>>

LowerSequence ==
  LET e == Call IN
  /\ Dispatching("sequence")
  /\ AddMessage([WithParams(Message(e, "sequence"), e) EXCEPT
        !.fields = ProcessChildren(e.members, e.type = "SEQUENCE OF")])
  /\ Return(0)
  /\ stdout' = stdout \o MemberStray(e)
  /\ UNCHANGED <<defs, enums>>

\* CHOICE: a message holding one oneof, named after the CHOICE, whose
\* fields are the members.
LowerChoice ==
  LET e == Call IN
  /\ Dispatching("choice")
  /\ AddMessage([WithParams(Message(e, "sequence"), e) EXCEPT
        !.oneofs = <<[name |-> e.id, fields |-> ProcessChildren(e.members, FALSE)]>>])
  /\ Return(0)
  /\ stdout' = stdout \o MemberStray(e)
  /\ UNCHANGED <<defs, enums>>

\* CLASS definitions and non-INTEGER value sets have no proto form.
IgnoreDefinition ==
  /\ todo # <<>>
  /\ Branch(Call) \in {"classdef", "valueset"}
  /\ Return(0)
  /\ UNCHANGED <<defs, messages, enums, stdout>>

\* A type reference: one field typed by the terminal type the reference
\* chain ends at (asn1f_find_terminal_type_ex).
LowerTypeRef ==
  LET e == Call IN
  /\ Dispatching("typeref")
  /\ AddMessage([WithParams(Message(e, "reference"), e) EXCEPT
        !.fields = <<Field("value", IF Len(e.ref) >= 1 THEN e.terminal
                                                     ELSE "int32")>>])
  /\ Return(0)
  /\ UNCHANGED <<defs, enums, stdout>>

\* Anything else: the comment "//////// ERROR Unhandled expr ...".
LogUnhandled ==
  /\ Dispatching("unhandled")
  /\ stdout' = Append(stdout, [def |-> Call.id, comment |-> TRUE])
  /\ Return(0)
  /\ UNCHANGED <<defs, messages, enums>>

LowerNext ==
  \/ LowerSpecializations
  \/ SkipAnonymous
  \/ LowerEnumerated
  \/ LowerIntegerValue
  \/ LowerReferenceValue
  \/ LowerUnhandledValue
  \/ LowerIntegerValueSet
  \/ LowerScalarType
  \/ LowerSequence
  \/ LowerChoice
  \/ IgnoreDefinition
  \/ LowerTypeRef
  \/ LogUnhandled
=============================================================================

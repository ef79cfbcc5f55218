---------------------------- MODULE MCAsn1Proto -----------------------------
(***************************************************************************)
(* Model-checking harness for Asn1Proto: the ASN.1 modules a run lowers   *)
(* and emits.  A definition is the part of an asn1p_expr_t the lowering   *)
(* reads (see ProtoLower); a module is one or two definitions, as the     *)
(* fixer leaves them (a typeref's terminal resolved, an enum's values     *)
(* numbered, a parameterized type with its specialization clones).        *)
(***************************************************************************)
EXTENDS Asn1Proto, Functions, TLC

CONSTANTS
  IntValues,     \* the integer values a VALUE or IOC cell may hold
  EnumValues,    \* the values of the items of an ENUMERATED
  MaxEnumItems   \* the most items an ENUMERATED has in a run
-----------------------------------------------------------------------------
(* Constraint trees as the parser builds them (see ConstraintPrinter).     *)
CtNode(type, els) ==
  [type |-> type, value |-> NoValue, containedSubtype |-> NoValue,
   range_start |-> NoValue, range_stop |-> NoValue, elements |-> els]
CtRange(lo, hi) ==
  [CtNode("EL_RANGE", <<>>) EXCEPT !.range_start = [type |-> "INTEGER", int |-> lo],
                                   !.range_stop = [type |-> "INTEGER", int |-> hi]]
\* (0..255), (SIZE(1..8)) and the value set {1 | 2}.
RangeCt == CtNode("CA_SET", <<CtRange(0, 255)>>)
SizeCt  == CtNode("CA_SET", <<CtNode("CT_SIZE", <<CtRange(1, 8)>>)>>)
ValueSetCt ==
  CtNode("CA_UNI", <<[CtNode("EL_VALUE", <<>>) EXCEPT !.value = [type |-> "INTEGER", int |-> 1]],
                     [CtNode("EL_VALUE", <<>>) EXCEPT !.value = [type |-> "INTEGER", int |-> 2]]>>)

\* (PATTERN "p"): the pattern value is written to stdout.
PatternCt == [CtNode("CT_PATTERN", <<>>) EXCEPT !.value = [type |-> "UNPARSED", str |-> "p"]]

-----------------------------------------------------------------------------
(* Source file names and import lists, as sequences of characters.        *)
E2apAsn    == <<"e","2","a","p",".","a","s","n">>
G5Asn      == <<"5","g",".","a","s","n">>
RelE2apAsn == <<".",".","/">> \o E2apAsn
E2apIEs    == <<"E","2","A","P","-","I","E","s">>
E2apIES    == <<"E","2","A","P","-","I","E","S">>
E2apCont   == <<"E","2","A","P","-","C","o","n","t">>

MCSrcFileName == G5Asn
MCImports     == <<E2apIEs, E2apCont>>
\* ../e2ap.asn, importing two modules whose names differ only in case.
PrologueSrcWitness    == RelE2apAsn
PrologueImportWitness == <<E2apIEs, E2apIES>>

-----------------------------------------------------------------------------
(* Members (the children of SEQUENCE, SEQUENCE OF and CHOICE).            *)
Mem(id, meta, type, ref, elem) ==
  [id |-> id, meta |-> meta, type |-> type, ref |-> ref,
   constraints |-> NoConstraint, value |-> 0, elem |-> elem]

\* The element of a SEQUENCE OF has no Identifier.
ElemOf(meta, type, ref) ==
  [id |-> NoId, meta |-> meta, type |-> type, ref |-> ref,
   constraints |-> NoConstraint, value |-> 0]
NoElem == ElemOf("TYPE", "INTEGER", <<>>)

MemberShapes(id) ==
  {Mem(id, "TYPE", t, <<>>, NoElem) :
      t \in {"BIT STRING", "OBJECT IDENTIFIER", "BOOLEAN", "INTEGER",
             "IA5String", "SEQUENCE", "EXTENSIBLE"}}
  \cup {[Mem(id, "TYPE", "UTF8String", <<>>, NoElem) EXCEPT !.constraints = c] :
          c \in {NoConstraint, SizeCt}}
  \cup {Mem(id, "TYPE", "SEQUENCE OF", <<>>, ElemOf("TYPEREF", "REFERENCE", r)) :
          r \in {<<"T2">>, <<"C", "&Type">>}}
  \cup {Mem(id, "TYPEREF", "REFERENCE", r, NoElem) :
          r \in {<<"T2">>, <<"C", "&id">>, <<"M", "C", "&id">>}}

MemberSeqs ==
  {<<>>} \cup {<<a>> : a \in MemberShapes("m1")}
         \cup {<<a, b>> : a \in MemberShapes("m1"), b \in MemberShapes("m2")}

-----------------------------------------------------------------------------
(* Definitions.                                                            *)
\* The 64-bit integer hi * 2^32 + lo.
Asn1Int(hi, lo) == [hi |-> hi, lo |-> lo]

\* 5, and 4294967295 = 1 * 2^32 + (-1), which (int) turns into -1.
MCIntValues == {Asn1Int(0, 5), Asn1Int(1, -1)}

Def(id, u, meta, type) ==
  [id |-> id, uniq |-> u, meta |-> meta, type |-> type, value |-> "none",
   int |-> Asn1Int(0, 0), ioc |-> <<>>, constraints |-> NoConstraint, params |-> <<>>,
   members |-> <<>>, specs |-> <<>>, terminal |-> NoId, ref |-> <<>>]

\* One row of an information object's IOC table (asn1extract_columns reads
\* the first row only; see README).
Cell(field, valId, isInt, newRef) ==
  [field |-> field, valId |-> valId, isInt |-> isInt, int |-> Asn1Int(0, 5), newRef |-> newRef]
IocRow ==
  << Cell("&id", "id-x", TRUE, TRUE), Cell("&Value", "INTEGER", FALSE, TRUE),
     Cell("&Real", "REAL", FALSE, TRUE), Cell("&Type", "T2", FALSE, TRUE),
     Cell("&crit", "reject", FALSE, FALSE) >>

ValueDefs(id, u) ==
  {[Def(id, u, "VALUE", "INTEGER") EXCEPT !.int = i] : i \in IntValues}
  \cup {[Def(id, u, "VALUE", "REFERENCE") EXCEPT !.value = "INTEGER", !.int = i] :
          i \in IntValues}
  \cup {[Def(id, u, "VALUE", "REFERENCE") EXCEPT !.value = v] :
          v \in {"STRING", "UNPARSED", "BOOLEAN"}}
  \cup {[Def(id, u, "VALUE", "REFERENCE") EXCEPT !.value = "UNPARSED",
                                                 !.ioc = <<IocRow>>],
        Def(id, u, "VALUE", "OBJECT IDENTIFIER")}

ScalarDefs(id, u) ==
  UNION {{[Def(id, u, "TYPE", t) EXCEPT !.constraints = c] :
             c \in {NoConstraint, IF t = "INTEGER" THEN RangeCt ELSE SizeCt}} :
           t \in {"INTEGER", "IA5String", "BMPString", "BOOLEAN", "UTF8String",
                  "BIT STRING"}}

ConstructedDefs(id, u) ==
  {[Def(id, u, "TYPE", t) EXCEPT !.members = ms] :
      t \in {"SEQUENCE", "CHOICE"}, ms \in MemberSeqs}
  \cup {[Def(id, u, "TYPE", "SEQUENCE OF") EXCEPT !.members = <<el>>] :
          el \in {[ElemOf("TYPEREF", "REFERENCE", <<"T2">>) EXCEPT !.elem = NoElem],
                  [NoElem EXCEPT !.elem = NoElem]}}

OtherDefs(id, u) ==
  { [Def(id, u, "VALUESET", "INTEGER") EXCEPT !.constraints = ValueSetCt],
    Def(id, u, "VALUESET", "REFERENCE"),
    Def(id, u, "OBJECTCLASS", "CLASSDEF"),
    Def(id, u, "OBJECT", "REFERENCE"),
    Def(NoId, u, "TYPE", "INTEGER"),
    [Def(id, u, "TYPEREF", "REFERENCE") EXCEPT !.ref = <<"T2">>, !.terminal = "T2"],
    [Def(id, u, "TYPEREF", "REFERENCE") EXCEPT !.ref = <<"C", "&Type">>,
                                               !.terminal = "Ext"] }

\* A parameterized SEQUENCE {T, val} with two specialization clones.
Params == <<[governor |-> "", argLower |-> FALSE],
            [governor |-> "G", argLower |-> TRUE],
            [governor |-> "G", argLower |-> FALSE]>>
Clone(id, u) == [Def(id, u, "TYPE", "SEQUENCE") EXCEPT
                   !.members = <<Mem("m1", "TYPE", "INTEGER", <<>>, NoElem)>>,
                   !.params = Params]
TemplateDefs(id, u) ==
  {[Clone(id, u) EXCEPT !.specs = <<Clone(id, u + 1), Clone(id, u + 2)>>]}

\* An ENUMERATED whose items have distinct values, with the extension
\* marker "..." at some position or none.
Item(id, v) == [Mem(id, "VALUE", "UNIVERVAL", <<>>, NoElem) EXCEPT !.value = v]
MCEnumValues == {-1, 0, 1, 2}
ItemIds == <<"e1", "e2", "e3", "e4">>
Extension == Mem("ext", "TYPE", "EXTENSIBLE", <<>>, NoElem)
EnumItemSeqs ==
  UNION {{[k \in 1..n |-> Item(ItemIds[k], f[k])] : f \in Injection(1..n, EnumValues)} :
           n \in 1..MaxEnumItems}
EnumDefs(id, u) ==
  {[Def(id, u, "TYPE", "ENUMERATED") EXCEPT !.members = its] : its \in EnumItemSeqs}
  \cup {[Def(id, u, "TYPE", "ENUMERATED") EXCEPT !.members = InsertAt(its, p, Extension)] :
          its \in EnumItemSeqs, p \in 1..2}

AllDefs(id, u) ==
  ValueDefs(id, u) \cup ScalarDefs(id, u) \cup ConstructedDefs(id, u)
  \cup OtherDefs(id, u) \cup TemplateDefs(id, u)

\* A few definitions to pair up in two-definition modules.
PairDefs(id, u) ==
  TemplateDefs(id, u)
  \cup {Def(id, u, "VALUE", "OBJECT IDENTIFIER"), Def(id, u, "TYPE", "INTEGER"),
        Def(NoId, u, "TYPE", "INTEGER")}

\* The modules of the lowering run: every definition alone, and pairs.
LowerModules ==
  {<<d>> : d \in AllDefs("T1", 10)}
  \cup {<<d1, d2>> : d1 \in PairDefs("T1", 10), d2 \in PairDefs("T2", 20)}

\* The modules of the enum runs: one ENUMERATED.
EnumModules == {<<d>> : d \in EnumDefs("T1", 10)}

\* Witnesses of the violation runs, each one module.
\* ENUMERATED { e1(1), e2(-1), e3(0) }.
EnumWitness ==
  {<<[Def("T1", 10, "TYPE", "ENUMERATED") EXCEPT
        !.members = <<Item("e1", 1), Item("e2", -1), Item("e3", 0)>>]>>}
\* A BIT STRING type, an OBJECT IDENTIFIER value and IA5String (PATTERN "p").
UnreportedWitness ==
  {<<Def("T1", 10, "TYPE", "BIT STRING"), Def("T2", 20, "VALUE", "OBJECT IDENTIFIER"),
     [Def("T3", 30, "TYPE", "IA5String") EXCEPT !.constraints = PatternCt]>>}
\* CHOICE { m1 SEQUENCE OF T2 }.
OneofWitness ==
  {<<[Def("T1", 10, "TYPE", "CHOICE") EXCEPT
        !.members = <<Mem("m1", "TYPE", "SEQUENCE OF", <<>>,
                          ElemOf("TYPEREF", "REFERENCE", <<"T2">>))>>]>>}
\* The constant 4294967295 and SEQUENCE { m1 IA5String }.
DomainWitness ==
  {<<[Def("T1", 10, "VALUE", "INTEGER") EXCEPT !.int = Asn1Int(1, -1)],
     [Def("T2", 20, "TYPE", "SEQUENCE") EXCEPT
        !.members = <<Mem("m1", "TYPE", "IA5String", <<>>, NoElem)>>]>>}
=============================================================================

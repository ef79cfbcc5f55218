------------------------- MODULE MCConstraintPrinter -------------------------
(***************************************************************************)
(* Model-checking harness for ConstraintPrinter.  A state is one call of  *)
(* proto_constraint_print from a call site of asn1print_expr_proto and    *)
(* proto_process_children, with the flags that site passes, and what the  *)
(* call printed.  The constraint trees are the ones the parser and fixer  *)
(* build for the subtype constraints of INTEGER and character-string      *)
(* types: ranges with open or closed ends, single values, SIZE, the       *)
(* extension marker, unions and serial (SET) constraints, permitted       *)
(* alphabets.                                                              *)
(***************************************************************************)
EXTENDS ConstraintPrinter, FiniteSets

CONSTANTS
  RangeStarts,   \* the values a range may start at
  RangeStops,    \* the values a range may stop at
  Constraints    \* the constraint trees of a run: a set defined below

VARIABLES
  site,          \* the call site: which rule the caller sprintf's
  ct,            \* the constraint tree it passes
  printed        \* what proto_constraint_print yielded, once called

vars == <<site, ct, printed>>

\* The flags each call site passes: asn1print_expr_proto's own flags
\* (APF_NOFLAGS from the driver) for an INTEGER value set (line 212),
\* with APF_INT32_VALUE for an INTEGER type (236), with APF_STRING_VALUE
\* for an IA5String or BMPString type (248), and APF_STRING_VALUE alone
\* for a UTF8String or TeletexString member (368).
SiteFlags == [valueset |-> {}, integer |-> {"INT32_VALUE"},
              string |-> {"STRING_VALUE"}, member |-> {"STRING_VALUE"}]
StringSites == {"string", "member"}

-----------------------------------------------------------------------------
(* Values, built from their ASN.1 notation; "notation" keeps it.          *)
IntV(n)  == [type |-> "INTEGER", int |-> n]
MinV     == [type |-> "MIN"]
MaxV     == [type |-> "MAX"]
\* A character {group, cell} and {group, plane, row, cell} (X.680 41.8).
TupleV(hi, lo) == [type |-> "TUPLE", int |-> hi * 16 + lo, notation |-> <<hi, lo>>]
QuadV(g, p, r, c) ==
  [type |-> "QUADRUPLE", int |-> ((g * 256 + p) * 256 + r) * 256 + c,
   notation |-> <<g, p, r, c>>]
\* A bstring: its bits packed most significant first into bytes.
BitsV(bits) ==
  [type |-> "BITVECTOR", size |-> Len(bits), notation |-> bits,
   bytes |-> [b \in 1..(Len(bits) + 7) \div 8 |->
                LET bit(i) == IF i <= Len(bits) THEN bits[i] ELSE 0
                IN  ((((((bit(8*b-7) * 2 + bit(8*b-6)) * 2 + bit(8*b-5)) * 2
                     + bit(8*b-4)) * 2 + bit(8*b-3)) * 2 + bit(8*b-2)) * 2
                     + bit(8*b-1)) * 2 + bit(8*b)]]
CstringV(chars) == [type |-> "STRING", str |-> chars]

NotationValues ==
  {TupleV(0, 5), TupleV(7, 15), QuadV(0, 0, 1, 65), QuadV(1, 255, 0, 7)}
  \cup {BitsV(b) : b \in {<<1, 0, 1>>, <<0, 1, 0, 0, 0, 0, 0, 1>>,
                         <<1, 1, 1, 1, 0, 0, 0, 0, 1>>}}

-----------------------------------------------------------------------------
(* Constraint trees.                                                       *)
Node(type, els) ==
  [type |-> type, value |-> NoValue, containedSubtype |-> NoValue,
   range_start |-> NoValue, range_stop |-> NoValue, elements |-> els]
RangeNode(type, lo, hi) == [Node(type, <<>>) EXCEPT !.range_start = lo, !.range_stop = hi]
Single(v) == [Node("EL_VALUE", <<>>) EXCEPT !.value = v]
Ext == Node("EL_EXT", <<>>)

\* Ranges and single values, alone or extensible: (a..b, ...) is a CSV
\* of the range and the extension marker.
\* The parser wraps the constraints in parentheses after a type in a
\* serial CA_SET, of one element when there is one pair.
Wrapped(S) ==
  LET ext == S \cup {Node("CA_CSV", <<b, Ext>>) : b \in S}
  IN  ext \cup {Node("CA_SET", <<b>>) : b \in ext}
RangeConstraints ==
  Wrapped({RangeNode(k, lo, hi) : k \in Ranges, lo \in RangeStarts, hi \in RangeStops})
BoundConstraints ==
  RangeConstraints \cup Wrapped({Single(v) : v \in RangeStops \ {MaxV}})

\* Constraints outside the bounds: value lists, serial constraints with a
\* single element, permitted alphabets and the printable-only kinds.
OtherConstraints ==
  {Node("CA_UNI", <<Single(IntV(1)), Single(IntV(2))>>),
   Node("CA_SET", <<RangeNode("EL_RANGE", IntV(0), IntV(3))>>),
   Node("CA_CRC", <<Single(IntV(1)), Single(IntV(2))>>),
   Node("CA_INT", <<Single(IntV(1)), RangeNode("EL_RANGE", IntV(0), MaxV)>>),
   Node("CA_EXC", <<Single(IntV(1)), Single(IntV(2))>>),
   Node("CT_FROM", <<Single(CstringV(<<"a", "b">>))>>),
   Node("CA_AEX", <<Single(IntV(1))>>),
   Node("CT_WCOMP", <<Single(IntV(1))>>),
   Node("CT_WCOMPS", <<Single(IntV(1)), Ext>>),
   [Node("EL_TYPE", <<Single(IntV(1))>>) EXCEPT !.containedSubtype =
      [type |-> "CHOICE_IDENTIFIER", id |-> "alt", inner |-> IntV(1)]],
   [Node("CT_CTDBY", <<>>) EXCEPT !.value = [type |-> "UNPARSED", str |-> "{}"]],
   [Node("CT_CTNG", <<>>) EXCEPT !.value = [type |-> "TYPE", str |-> "T"]],
   [Node("CT_PATTERN", <<>>) EXCEPT !.value = [type |-> "UNPARSED", str |-> "p"]]}
  \cup {Single(v) : v \in NotationValues}
  \cup {Single(v) : v \in {[type |-> t] : t \in {"NULL", "TRUE", "FALSE", "NOVALUE",
                                                 "VALUESET"}}
                          \cup {[type |-> "REAL", int |-> 2],
                                [type |-> "TYPE", str |-> "T"],
                                [type |-> "UNPARSED", str |-> "u"],
                                [type |-> "REFERENCED", comps |-> <<"M", "v">>],
                                CstringV(<<QuoteChar, "b">>)}}

\* SIZE(...) as a string type states it.
SizeConstraints == {Node("CT_SIZE", <<b>>) : b \in BoundConstraints}

\* ("ab")("cd") | "ef": a union of serial constraints of more than one
\* pair and a string value, all of several characters.
RenderWitness ==
  {Node("CA_UNI", <<Node("CA_SET", <<Single(CstringV(<<"a", "b">>)),
                                      Single(CstringV(<<"c", "d">>))>>),
                    Single(CstringV(<<"e", "f">>))>>)}

\* The start and stop values of the runs.
MCRangeStarts == {IntV(0), IntV(3)}
MCRangeStops  == {IntV(3), IntV(5), MaxV}

PrinterConstraints ==
  BoundConstraints \cup SizeConstraints \cup OtherConstraints \cup {NoConstraint}

-----------------------------------------------------------------------------
Init ==
  /\ site \in DOMAIN SiteFlags
  /\ ct \in Constraints
  \* only the value-set branch passes a tree without checking it for NULL
  /\ ct = NoConstraint => site = "valueset"
  /\ printed = NoConstraint

\* The caller prints the tree into its rule (sprintf of the result).
PrintRule ==
  /\ printed = NoConstraint
  /\ printed' = ConstraintText(ct, SiteFlags[site])
  /\ UNCHANGED <<site, ct>>

Next == PrintRule

Spec == Init /\ [][Next]_vars

-----------------------------------------------------------------------------
(* What a bound constraint means: the integers, or the string lengths,    *)
(* it admits (X.680 51); MIN and MAX are the ends of the int32 the rule   *)
(* applies to, so that end bounds nothing unless it is open.              *)
LowOpen  == {"EL_LLRANGE", "EL_ULRANGE"}
HighOpen == {"EL_RLRANGE", "EL_ULRANGE"}

RECURSIVE Admits(_, _)
Admits(c, x) ==
  CASE c.type = "EL_VALUE" -> x = c.value.int
    [] c.type \in Ranges ->
         LET lo == IF c.range_start.type = "MIN" THEN -Int32Max - 1 ELSE c.range_start.int
             hi == IF c.range_stop.type = "MAX" THEN Int32Max ELSE c.range_stop.int
         IN  /\ IF c.type \in LowOpen THEN x > lo ELSE x >= lo
             /\ IF c.type \in HighOpen THEN x < hi ELSE x <= hi
    [] c.type \in {"CA_CSV", "CT_SIZE"} -> Admits(c.elements[1], x)
    [] c.type = "CA_SET" -> \A i \in DOMAIN c.elements : Admits(c.elements[i], x)

\* A tree with an open end somewhere.
RECURSIVE HasOpenEnd(_)
HasOpenEnd(c) ==
  \/ c.type \in LowOpen \cup HighOpen
  \/ \E i \in DOMAIN c.elements : HasOpenEnd(c.elements[i])

(* What a printed rule admits: protoc-gen-validate's int32 and string      *)
(* rules gte, gt, lte, lt, min_len and max_len, each bounding the value or *)
(* the length.                                                             *)
Keys == {"gte: ", "gt: ", "lte: ", "lt: ", "min_len: ", "max_len: "}
Numbers == (-1..8) \cup {Int32Max}
NumOf(s) == CHOOSE n \in Numbers : ToString(n) = s

\* The text as bounds and separators: empty pieces ("" separators, EXT)
\* dropped, ", max_len: " split in two.
Pieces(t) ==
  FlattenSeq([i \in DOMAIN t |->
    CASE t[i] = ""             -> <<>>
      [] t[i] = ", max_len: "  -> <<", ", "max_len: ">>
      [] OTHER                 -> <<t[i]>>])

\* key number, then ", " key number for each further bound.
IsBoundList(t) ==
  /\ Len(t) % 3 = 2
  /\ \A i \in DOMAIN t :
       CASE i % 3 = 1 -> t[i] \in Keys
         [] i % 3 = 2 -> t[i] \in {ToString(n) : n \in Numbers}
         [] OTHER     -> t[i] = ", "

Bound(key, n, x) ==
  CASE key \in {"gte: ", "min_len: "} -> x >= n
    [] key = "gt: "                    -> x > n
    [] key \in {"lte: ", "max_len: "}  -> x <= n
    [] key = "lt: "                    -> x < n

RuleAdmits(t, x) ==
  \A i \in DOMAIN t : t[i] \in Keys => Bound(t[i], NumOf(t[i + 1]), x)

IntSamples    == (-1..6) \cup {Int32Max}
LengthSamples == 0..6
-----------------------------------------------------------------------------
(* The value notations the printer spells out: {g, c}, {g, p, r, c} and   *)
(* a bstring or hstring, as X.680 writes them.                            *)
NotationText(v) ==
  LET b == v.notation
      n == v.notation
  IN  CASE v.type = "TUPLE" ->
             <<"{" \o ToString(n[1]) \o ", " \o ToString(n[2]) \o "}">>
        [] v.type = "QUADRUPLE" ->
             <<"{" \o ToString(n[1]) \o ", " \o ToString(n[2]) \o ", "
                   \o ToString(n[3]) \o ", " \o ToString(n[4]) \o "}">>
        [] v.type = "BITVECTOR" /\ Len(b) % 8 # 0 ->
             <<"'">> \o [i \in DOMAIN b |-> ToString(b[i])] \o <<"'B">>
        [] v.type = "BITVECTOR" ->
             <<"'">> \o [j \in 1..Len(b) \div 4 |->
                         HexTable[8 * b[4*j-3] + 4 * b[4*j-2] + 2 * b[4*j-1] + b[4*j] + 1]]
                    \o <<"'H">>

\* X.680 cstring notation as spec section 4.1 prints it: in quotes, each
\* embedded quote doubled.
QuotedString(p) ==
  <<QuoteChar>> \o FlattenSeq([i \in DOMAIN p |->
                    IF p[i] = QuoteChar THEN <<QuoteChar, QuoteChar>> ELSE <<p[i]>>])
                \o <<QuoteChar>>

\* s occurs in t as a run of consecutive pieces.
IsInfix(s, t) == \E i \in 0..Len(t) - Len(s) : SubSeq(t, i + 1, i + Len(s)) = s

-----------------------------------------------------------------------------
\* The rule proto_constraint_print yields for a range on an INTEGER type,
\* with open or closed ends, extensible or in a serial set, is a list of
\* gte/gt/lte/lt bounds admitting exactly the int32 values the ASN.1
\* constraint admits; for a SIZE constraint on a string type it is a list
\* of min_len/max_len bounds admitting every length the constraint admits,
\* and no other when no end is open (spec section 9 keeps min_len/max_len
\* for open ends).
BoundRulesMatchConstraint ==
  printed # NoConstraint =>
    LET t == Pieces(printed.res) IN
    /\ site = "integer" /\ ct \in RangeConstraints =>
         /\ IsBoundList(t)
         /\ \A x \in IntSamples : RuleAdmits(t, x) <=> Admits(ct, x)
    /\ site \in StringSites /\ ct \in SizeConstraints =>
         /\ IsBoundList(t)
         /\ \A x \in LengthSamples :
              /\ Admits(ct, x) => RuleAdmits(t, x)
              /\ ~HasOpenEnd(ct) /\ RuleAdmits(t, x) => Admits(ct, x)

\* proto_value_print spells a character tuple, quadruple and bit string
\* value as its ASN.1 notation: the integer the parser packed is split
\* back into the same components, and the bit vector's bytes into the
\* same bits or hex digits.
ValuesMatchNotation ==
  printed # NoConstraint /\ site \notin StringSites /\ ct.type = "EL_VALUE"
  /\ ct.value \in NotationValues
    => printed.res = NotationText(ct.value)

\* The separator spec section 4.2 gives each set operator.
SpecSymbol == [CA_SET |-> "} ", CA_CRC |-> ",", CA_CSV |-> ",", CA_UNI |-> "",
               CA_INT |-> " ^ ", CA_EXC |-> " EXCEPT "]

\* The C string a text stands for.
Text(t) == FoldLeft(LAMBDA x, y : x \o y, "", t)

\* Every node of a tree.
RECURSIVE Nodes(_)
Nodes(c) == {c} \cup UNION {Nodes(c.elements[i]) : i \in DOMAIN c.elements}

\* The printed rule renders the tree as spec sections 4.1 and 4.2 say: a
\* set operator's children one after another, each in braces for CRC,
\* joined by the operator's separator, with symtable[symno] read only
\* inside the table; and every cstring value anywhere in the tree (an
\* alphabet FROM("ab"), a value list) whole, in quotes, with each
\* embedded quote doubled.
RendersAsSpecified ==
  printed # NoConstraint /\ ct # NoConstraint =>
    LET flags == SiteFlags[site]
        child(i) == LET c == Text(ConstraintPrint(ct.elements[i], flags).res)
                    IN  IF ct.type = "CA_CRC" THEN "{" \o c \o "}" ELSE c
        joined == FoldLeft(LAMBDA x, i : x \o (IF i > 1 THEN SpecSymbol[ct.type] ELSE "")
                                           \o child(i),
                           "", [i \in DOMAIN ct.elements |-> i])
    IN  /\ ~printed.oob
        /\ ct.type \in SetOps => Text(printed.res) = joined
        /\ \A c \in Nodes(ct) :
             c.type = "EL_VALUE" /\ c.value.type = "STRING" =>
               IsInfix(QuotedString(c.value.str), printed.res)
====

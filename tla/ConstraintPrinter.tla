-------------------------- MODULE ConstraintPrinter --------------------------
(***************************************************************************)
(* The value and constraint printers of src/libasn1print/asn1printproto.c:*)
(* proto_value_print and proto_constraint_print, as RECURSIVE operators.  *)
(*                                                                         *)
(* Text is abstracted to the sequence of the pieces strcat'ed onto the    *)
(* result buffer, each piece a TLC string; the C string is their          *)
(* concatenation.  A number printed by %d or asn1p_itoa is one piece,    *)
(* ToString of the number.  A flags word is the set of the flags it has   *)
(* ("INT32_VALUE" is APF_INT32_VALUE = 0x100, "STRING_VALUE" is           *)
(* APF_STRING_VALUE).                                                      *)
(*                                                                         *)
(* An asn1p_value_t is a record whose "type" is its ATV_ kind, with the   *)
(* union member the printer reads: int (v_integer, or the integral        *)
(* v_double of a REAL), str (string.buf: a sequence of one-character      *)
(* strings for STRING, a string for UNPARSED and for the ASN.1 text of a  *)
(* contained type), bytes and size (binary_vector), comps (the reference  *)
(* components' names), id and inner (choice_identifier).                  *)
(***************************************************************************)
EXTENDS Integers, Sequences, SequencesExt, TLC

\* The NULL asn1p_value_t pointer.
NoValue == [type |-> "none"]

\* The NULL asn1p_constraint_t pointer.
NoConstraint == [type |-> "none"]

QuoteChar == "\""

Int32Max == 2147483647

HexTable == <<"0", "1", "2", "3", "4", "5", "6", "7",
              "8", "9", "A", "B", "C", "D", "E", "F">>

\* The pieces of a text are all empty: strlen of the buffer is 0.
IsEmptyText(t) == \A i \in DOMAIN t : t[i] = ""

\* (v >> k) & 0xff on a non-negative v.
ByteOf(v, k) == (v \div 2^k) % 256

\* Mutant: the bits of each byte taken least significant first.
BitOfLsbFirst(bytes, i) == (bytes[i \div 8 + 1] \div 2^(i % 8)) % 2

\* Bit i (from 0, most significant first) of a packed bit vector.
BitOf(bytes, i) == (bytes[i \div 8 + 1] \div 2^(7 - (i % 8))) % 2

\* ATV_STRING: the string in quotes; when it holds a '"', every character
\* is copied with each '"' doubled, otherwise only the first character is
\* (sprintf("%c", *p) of the empty string stores nothing).
StringValue(p) ==
  LET body == IF \E i \in DOMAIN p : p[i] = QuoteChar
              THEN FlattenSeq([i \in DOMAIN p |->
                     IF p[i] = QuoteChar THEN <<QuoteChar, QuoteChar>> ELSE <<p[i]>>])
              ELSE IF p = <<>> THEN <<>> ELSE <<p[1]>>
  IN  <<QuoteChar>> \o body \o <<QuoteChar>>

\* ATV_BITVECTOR: 'bits'B, most significant bit of each byte first, when
\* the size is not a multiple of 8; otherwise 'hex'H, two digits a byte.
BitVector(bytes, bits) ==
  IF bits % 8 # 0
  THEN <<"'">> \o [i \in 1..bits |-> IF BitOf(bytes, i - 1) = 1 THEN "1" ELSE "0"]
               \o <<"'B">>
  ELSE <<"'">> \o FlattenSeq([i \in 1..bits \div 8 |->
                    <<HexTable[bytes[i] \div 16 + 1], HexTable[(bytes[i] % 16) + 1]>>])
               \o <<"'H">>

\* ATV_REFERENCED: the component names joined by ".".
Dotted(comps) ==
  FlattenSeq([cc \in DOMAIN comps |->
                IF cc > 1 THEN <<".", comps[cc]>> ELSE <<comps[cc]>>])

RECURSIVE ValuePrint(_, _)
ValuePrint(val, flags) ==
  CASE val.type \in {"none", "NOVALUE", "VALUESET"} -> <<>>
    [] val.type = "NULL"     -> <<"NULL">>
    [] val.type = "REAL"     -> <<ToString(val.int) \o ".000000">>
    [] val.type = "TYPE"     -> <<"ERROR not yet implemented">>
    [] val.type = "INTEGER"  -> <<ToString(val.int)>>
    [] val.type = "MIN"      -> <<"0">>
    [] val.type = "MAX"      -> IF "INT32_VALUE" \in flags
                                THEN <<ToString(Int32Max)>> ELSE <<>>
    [] val.type = "FALSE"    -> <<"FALSE">>
    [] val.type = "TRUE"     -> <<"TRUE">>
    [] val.type = "TUPLE"    -> <<"{" \o ToString(val.int \div 16) \o ", "
                                      \o ToString(val.int % 16) \o "}">>
    [] val.type = "QUADRUPLE" ->
         <<"{" \o ToString(ByteOf(val.int, 24)) \o ", " \o ToString(ByteOf(val.int, 16))
               \o ", " \o ToString(ByteOf(val.int, 8)) \o ", "
               \o ToString(ByteOf(val.int, 0)) \o "}">>
    [] val.type = "STRING"   -> StringValue(val.str)
    [] val.type = "UNPARSED" -> <<val.str>>
    [] val.type = "BITVECTOR" -> BitVector(val.bytes, val.size)
    [] val.type = "REFERENCED" -> Dotted(val.comps)
    [] val.type = "CHOICE_IDENTIFIER" -> <<val.id>> \o ValuePrint(val.inner, flags)

-----------------------------------------------------------------------------
(* proto_constraint_print.  An asn1p_constraint_t is a record whose       *)
(* "type" is its ACT_ kind without the prefix, with value,                *)
(* containedSubtype, range_start, range_stop and elements (a sequence of  *)
(* constraints).  What a call yields is the text it returns (res), what   *)
(* it writes straight to stdout on the way (out), and whether it read     *)
(* symtable[] past its end (oob).                                          *)

Printed(res, out, oob) == [res |-> res, out |-> out, oob |-> oob]
Lit(res) == Printed(res, <<>>, FALSE)

\* One strcat after another: the texts and writes in order.
Then(a, b) == Printed(a.res \o b.res, a.out \o b.out, a.oob \/ b.oob)

Ranges == {"EL_RANGE", "EL_LLRANGE", "EL_RLRANGE", "EL_ULRANGE"}

\* Mutant: a range open at its right end also opens its start.
RangeStartKeyRLOpen == [EL_RANGE |-> "gte: ", EL_RLRANGE |-> "gt: ",
                        EL_LLRANGE |-> "gt: ", EL_ULRANGE |-> "gt: "]

\* The key before the range start and before the range stop.
RangeStartKey == [EL_RANGE |-> "gte: ", EL_RLRANGE |-> "gte: ",
                  EL_LLRANGE |-> "gt: ", EL_ULRANGE |-> "gt: "]
RangeStopKey  == [EL_RANGE |-> "lte: ", EL_LLRANGE |-> "lte: ",
                  EL_RLRANGE |-> "lt: ", EL_ULRANGE |-> "lt: "]

\* The fall-through cases count symno up to the set operator's entry.
SymNo == [CA_EXC |-> 0, CA_INT |-> 1, CA_UNI |-> 2, CA_CSV |-> 3,
          CA_CRC |-> 4, CA_SET |-> 5]
SetOps == DOMAIN SymNo

Symtable == <<" EXCEPT ", " ^ ", ",", "", "(">>

\* symtable[symno]: a read past the five entries is undefined; it is the
\* piece SymtableOOB, flagged.
SymtableOOB == "symtable[5]"
Separator(type) ==
  IF SymNo[type] + 1 \in DOMAIN Symtable
  THEN Lit(<<Symtable[SymNo[type] + 1]>>)
  ELSE Printed(<<SymtableOOB>>, <<>>, TRUE)

\* The cases that set perhaps_subconstraints (a VALUE only outside a
\* string context).
SetsSubconstraints(ct, flags) ==
  \/ ct.type \in {"EL_TYPE", "CT_WCOMP", "CA_AEX"}
  \/ ct.type = "EL_VALUE" /\ "STRING_VALUE" \notin flags

RECURSIVE ConstraintPrint(_, _)
ConstraintPrint(ct, flags) ==
  LET str      == "STRING_VALUE" \in flags
      V(v)     == ValuePrint(v, flags)
      Sub(i)   == ConstraintPrint(ct.elements[i], flags)
      n        == Len(ct.elements)
      range    == LET start == <<IF str THEN "min_len: " ELSE RangeStartKey[ct.type]>>
                                \o V(ct.range_start)
                      stop  == V(ct.range_stop)
                  IN  IF IsEmptyText(stop) THEN start
                      ELSE start \o <<", ", IF str THEN "max_len: " ELSE RangeStopKey[ct.type]>>
                                 \o stop
      \* the set operators' loop, one element after another
      setItem(i) ==
        LET sep  == IF i > 1 THEN Separator(ct.type) ELSE Lit(<<>>)
            wrap(x) == IF ct.type = "CA_CRC" THEN Then(Then(Lit(<<"{">>), x), Lit(<<"}">>)) ELSE x
            more == IF ct.type = "CA_SET" /\ i < n THEN Lit(<<"} ">>) ELSE Lit(<<>>)
        IN  Then(Then(sep, wrap(Sub(i))), more)
      compsItem(i) == Then(IF i > 1 THEN Lit(<<", ">>) ELSE Lit(<<>>), Sub(i))
      body ==
        CASE ct.type = "EL_TYPE"  -> Lit(V(ct.containedSubtype))
          [] ct.type = "EL_VALUE" -> Lit(IF str
                                         THEN <<"min_len: ">> \o V(ct.value)
                                              \o <<", max_len: ">> \o V(ct.value)
                                         ELSE V(ct.value))
          [] ct.type \in Ranges   -> Lit(range)
          [] ct.type = "EL_EXT"   -> Lit(<<>>)
          [] ct.type = "CT_SIZE"  -> Sub(1)
          [] ct.type = "CT_FROM"  -> Then(Lit(<<"FROM">>), Sub(1))
          [] ct.type = "CT_WCOMP" -> Lit(<<"WITH COMPONENT">>)
          [] ct.type = "CT_WCOMPS" ->
               Then(FoldLeft(Then, Lit(<<"WITH COMPONENTS { ">>), [i \in 1..n |-> compsItem(i)]),
                    Lit(<<" }">>))
          [] ct.type = "CT_CTDBY" -> Printed(<<"CONSTRAINED BY ">>, <<ct.value.str>>, FALSE)
          [] ct.type = "CT_CTNG"  -> Printed(<<"CONTAINING ">>, <<ct.value.str>>, FALSE)
          [] ct.type = "CT_PATTERN" -> Printed(<<"PATTERN ">>, <<ct.value.str>>, FALSE)
          [] ct.type \in SetOps   -> FoldLeft(Then, Lit(<<>>), [i \in 1..n |-> setItem(i)])
          [] ct.type = "CA_AEX"   -> Lit(<<"ALL EXCEPT">>)
      tail == IF SetsSubconstraints(ct, flags) /\ n # 0
              THEN Then(Lit(<<" ">>), Sub(1)) ELSE Lit(<<>>)
  IN  Then(body, tail)

\* The text a caller's sprintf("%s", ...) stores: proto_constraint_print
\* returns NULL for a NULL tree, which glibc's %s prints as "(null)".
ConstraintText(ct, flags) ==
  IF ct = NoConstraint THEN Lit(<<"(null)">>) ELSE ConstraintPrint(ct, flags)
====

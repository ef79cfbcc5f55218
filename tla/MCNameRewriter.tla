--------------------------- MODULE MCNameRewriter ---------------------------
(***************************************************************************)
(* Model-checking harness for NameRewriter.  A state is one name and one *)
(* string value and the results of the rewriters applied to them so far;  *)
(* each action is one call of a rewriter: the casings on the name (the    *)
(* emitter's), escapeQuotesDup on the value (the lowering's, for a string *)
(* constant).  Names are ASN.1 names (identifiers, type references and    *)
(* &field references, X.680 12.2-12.5) or the examples the spec gives.    *)
(***************************************************************************)
EXTENDS NameRewriter, FiniteSets, TLC

CONSTANTS
  NameChars,     \* the bytes ASN.1 names are built from in a run
  ValueChars,    \* the bytes string values are built from in a run
  MaxLen,        \* the longest input string
  Names,         \* the names of a run: one of the sets defined below
  Values         \* the string values of a run

VARIABLES
  name,          \* the name handed to the casings
  value,         \* the string value handed to escapeQuotesDup
  results        \* rewriter name -> what it returned (with buffer facts)

vars == <<name, value, results>>

Letters == Range(LowerLetters) \cup Range(UpperLetters)

\* An ASN.1 name: an optional '&', a letter, then letters, digits and
\* hyphens, never two hyphens in a row and no hyphen at the end.
IsAsn1Name(s) ==
  LET body == IF Len(s) > 0 /\ s[1] = "&" THEN Tail(s) ELSE s
  IN  /\ Len(body) > 0
      /\ body[1] \in Letters
      /\ \A k \in DOMAIN body : body[k] \in Letters \cup Digits \cup {"-"}
      /\ \A k \in 1..Len(body) - 1 : ~(body[k] = "-" /\ body[k + 1] = "-")
      /\ body[Len(body)] # "-"

NameInputs  == {s \in BoundedSeq(NameChars, MaxLen) : IsAsn1Name(s)}
ValueInputs == BoundedSeq(ValueChars, MaxLen)
\* Values of up to two bytes: empty, one or two letters or quotes.
ShortValues == BoundedSeq(ValueChars, 2)

\* A mixed-case name and a value holding a quote.
OverflowNames  == {<<"a", "A">>}
OverflowValues == {<<Quote>>}

\* The bytes of string values: a letter and the quote to be escaped.
QuoteChars == {"a", Quote}

\* The casings the spec states for its examples (section 4.7 and
\* scenario 6 of section 8).
SpecPascal ==
     (<<"e","2","A","P","-","P","D","U">> :> <<"E","2","a","p","P","d","u">>)
  @@ (<<"H","T","T","P","S","e","r","v","e","r">>
          :> <<"H","t","t","p","S","e","r","v","e","r">>)
SpecSnakeUpper ==
     (<<"e","2","A","P","-","P","D","U">> :> <<"E","2","_","A","P","_","P","D","U">>)
  @@ (<<"C","o","l","o","r">> :> <<"C","O","L","O","R">>)
SpecExampleInputs == DOMAIN SpecPascal \cup DOMAIN SpecSnakeUpper
\* Two ASN.1 names of one scope that differ only in a hyphen and a case.
CollidingNames == {<<"a","b","-","c">>, <<"a","b","C">>}
NameSpecInputs == SpecExampleInputs \cup CollidingNames

Rewriters == {"pascal", "lower", "escape"} \cup SnakeCases

Init ==
  /\ name \in Names
  /\ value \in Values
  /\ results = <<>>

Apply(r, val) ==
  /\ r \notin DOMAIN results
  /\ results' = results @@ (r :> val)
  /\ UNCHANGED <<name, value>>

ApplyPascal    == Apply("pascal", [out |-> ToPascalCase(name),
                            readPastEnd |-> PascalLoop(name, 0, FALSE, <<>>).readPastEnd])
ApplySnake(tc) == Apply(tc, SnakeRun(name, tc))
ApplyLowercase == Apply("lower", [out |-> ToLowercase(name)])
ApplyEscape    == Apply("escape", EscapeRun(value))

Next ==
  \/ ApplyPascal
  \/ \E tc \in SnakeCases : ApplySnake(tc)
  \/ ApplyLowercase
  \/ ApplyEscape

Spec == Init /\ [][Next]_vars

-----------------------------------------------------------------------------
\* What a rewriter may store before the terminator: the input's bytes,
\* '_' and the escape; never a '\0' or a byte read past one.
Bytes == Letters \cup Digits \cup {"-", "&", "_", ".", Quote, Backslash}

TypeOK ==
  /\ name \in Seq(Bytes)
  /\ value \in Seq(Bytes)
  /\ DOMAIN results \subseteq Rewriters
  /\ \A r \in DOMAIN results : results[r].out \in Seq(Bytes)

\* toPascalCaseDup turns every ASN.1 name the emitter passes (message,
\* enum and field type names, '&' field references included) into a valid
\* proto message name: a capital letter followed by letters and digits,
\* with every '-', '&' and '_' separator removed.
PascalIsProtoIdent ==
  "pascal" \in DOMAIN results =>
    LET p == results["pascal"].out
    IN  /\ Len(p) > 0
        /\ IsUpper(p[1])
        /\ \A k \in DOMAIN p : p[k] \in Letters \cup Digits

\* toSnakeCaseDup(_, SNAKECASE_LOWER) is idempotent on what it produces
\* (spec section 8): a field or oneof name once snake-cased is a fixed
\* point, so no uppercase letter or separator survives the first pass.
SnakeLowerIdempotent ==
  "LOWER" \in DOMAIN results =>
    ToSnakeCase(results["LOWER"].out, "LOWER") = results["LOWER"].out

\* Once every rewriter has run, every byte each one stored, the closing
\* '\0' included, lies inside the buffer it got from strdup or from its
\* last realloc: toSnakeCaseDup on the name, escapeQuotesDup on the value.
RewritersWriteInBounds ==
  DOMAIN results = Rewriters =>
    \A r \in SnakeCases \cup {"escape"} : results[r].inBounds

\* What a casing the emitter applies to a definition's name gives for n.
Rewrite(r, n) == IF r = "pascal" THEN ToPascalCase(n) ELSE SnakeRun(n, r).out

\* The names the emitter writes are the ones the spec states.  Its example
\* identifiers get the casings of sections 4.7 and 8: toPascalCaseDup for
\* message and enum names, toSnakeCaseDup(SNAKECASE_UPPER) for enum
\* prefixes.  And distinct ASN.1 names of one scope stay distinct (section
\* 2: message and enum names are unique within a module; proto3 rejects two
\* fields, or two entries of one enum, with the same name) under
\* toPascalCaseDup, toSnakeCaseDup(SNAKECASE_LOWER) for field and oneof
\* names and toSnakeCaseDup(SNAKECASE_UPPER) for enum entries.
EmittedNamesAsSpecified ==
  /\ "pascal" \in DOMAIN results /\ name \in DOMAIN SpecPascal =>
       results["pascal"].out = SpecPascal[name]
  /\ "UPPER" \in DOMAIN results /\ name \in DOMAIN SpecSnakeUpper =>
       results["UPPER"].out = SpecSnakeUpper[name]
  /\ \A r \in DOMAIN results \cap ({"pascal"} \cup SnakeCases) :
       \A n \in Names \ {name} : Rewrite(r, n) # results[r].out
=============================================================================

---------------------------- MODULE NameRewriter ----------------------------
(***************************************************************************)
(* The string rewriters of the proto emitter, modelled loop for loop:     *)
(*   toLowercase, toPascalCaseDup, toSnakeCaseDup, startNotLcLetter        *)
(*     (src/libasn1print/asn1protooutput.c)                                *)
(*   escapeQuotesDup (src/libasn1print/asn1printproto.c)                   *)
(* A C string is a sequence of one-character strings; position k of the   *)
(* C array (0-based) is CharAt(s, k): the terminator NUL at k = Len(s)    *)
(* and OOB past it.  Each loop is a RECURSIVE operator over the C loop    *)
(* variables.  The Dup functions also account for their heap buffer: the  *)
(* capacity given by strdup/realloc and whether every store, the final    *)
(* terminator included, lands inside it.                                  *)
(***************************************************************************)
EXTENDS Integers, Sequences, SequencesExt

LowerLetters == <<"a","b","c","d","e","f","g","h","i","j","k","l","m",
                  "n","o","p","q","r","s","t","u","v","w","x","y","z">>
UpperLetters == <<"A","B","C","D","E","F","G","H","I","J","K","L","M",
                  "N","O","P","Q","R","S","T","U","V","W","X","Y","Z">>
Digits       == {"0","1","2","3","4","5","6","7","8","9"}
NUL          == "NUL"     \* the '\0' terminator
OOB          == "OOB"     \* a byte read past the terminator
Quote        == "\""
Backslash    == "\\"

IsUpper(c) == c \in Range(UpperLetters)      \* c >= 'A' && c <= 'Z'
IsLower(c) == c \in Range(LowerLetters)      \* c >= 'a' && c <= 'z'

\* toupper / tolower: letters are mapped, every other byte (NUL too) kept.
ToUpper(c) == LET k == SelectInSeq(LowerLetters, LAMBDA x : x = c)
              IN  IF k = 0 THEN c ELSE UpperLetters[k]
ToLower(c) == LET k == SelectInSeq(UpperLetters, LAMBDA x : x = c)
              IN  IF k = 0 THEN c ELSE LowerLetters[k]

\* mixedCase[k] for a string s held in a buffer of Len(s)+1 bytes.
CharAt(s, k) == CASE k < Len(s) -> s[k + 1]
                  [] k = Len(s) -> NUL
                  [] k > Len(s) -> OOB

\* What printf("%s") shows of a buffer: the bytes before the first NUL.
CStr(buf) == LET k == SelectInSeq(buf, LAMBDA x : x = NUL)
             IN  IF k = 0 THEN buf ELSE SubSeq(buf, 1, k - 1)

-----------------------------------------------------------------------------
(* toLowercaseDup / toLowercase: every byte through tolower.              *)
ToLowercase(s) == [k \in DOMAIN s |-> ToLower(s[k])]

\* Mutant: only an upper-case first letter counts as not lower-case.
StartNotLcLetterUpper(s) == IsUpper(CharAt(s, 0))

(* startNotLcLetter: 1 unless name[0] is in 'a'..'z'.                     *)
StartNotLcLetter(s) == ~IsLower(CharAt(s, 0))

-----------------------------------------------------------------------------
(* toPascalCaseDup.  One iteration of the while loop on byte c at index i *)
(* (nxt is mixedCase[i+1], read only by the separator branch): the byte   *)
(* stored at pascalCaseDup[i-removed], how far i advances and the new     *)
(* lastWasUpper.                                                           *)
\* Mutant: '&' not treated as a separator.
PascalSeparatorsNoAmp == {"-", "_"}

PascalSeparators == {"-", "&", "_"}

\* The C else-if chain picks the first branch whose condition holds.
FirstBranch(conds) == SelectInSeq(conds, LAMBDA b : b)

PascalStep(c, nxt, i, lastWasUpper) ==
  LET b == FirstBranch(<< c \in PascalSeparators,
                          i = 0,
                          IsUpper(c) /\ lastWasUpper,
                          IsUpper(c),
                          TRUE >>)
  IN  CASE b = 1 -> [emit |-> ToUpper(nxt), adv |-> 2, last |-> TRUE]
        [] b = 2 -> [emit |-> ToUpper(c),   adv |-> 1, last |-> TRUE]
        [] b = 3 -> [emit |-> ToLower(c),   adv |-> 1, last |-> lastWasUpper]
        [] b = 4 -> [emit |-> c,            adv |-> 1, last |-> TRUE]
        [] b = 5 -> [emit |-> c,            adv |-> 1, last |-> FALSE]

\* The loop: out holds the stored bytes; readPastEnd records that the
\* loop condition read a byte beyond the terminator (a separator as the
\* last byte makes i step over the NUL).
RECURSIVE PascalLoop(_, _, _, _)
PascalLoop(s, i, lastWasUpper, out) ==
  LET c == CharAt(s, i) IN
  IF c \in {NUL, OOB}
  THEN [out |-> out, readPastEnd |-> c = OOB]
  ELSE LET st == PascalStep(c, CharAt(s, i + 1), i, lastWasUpper)
       IN  PascalLoop(s, i + st.adv, st.last, Append(out, st.emit))

ToPascalCase(s) == CStr(PascalLoop(s, 0, FALSE, <<>>).out)

-----------------------------------------------------------------------------
(* toSnakeCaseDup.  One iteration on byte c at index i, in the order of   *)
(* the C else-if chain: the bytes stored at snakeCase[i+added] onwards,   *)
(* the new added and lastChanged, and whether the branch reallocs the     *)
(* buffer to origlen + added + 1 bytes (with added before its increment). *)
SnakeCases == {"LOWER", "UPPER"}

\* Mutant: the LOWER branch after a change keeps the capital.
SnakeStepKeepsCapital(c, i, added, lastChanged, tocase) ==
  LET b == FirstBranch(<< i = 0 /\ c = "&",
                          tocase = "LOWER" /\ i > 0 /\ IsUpper(c)
                                           /\ lastChanged = 0,
                          tocase = "UPPER" /\ IsLower(c),
                          tocase = "UPPER" /\ i > 0 /\ IsUpper(c),
                          tocase = "LOWER" /\ IsUpper(c),
                          c \in {"-", "."},
                          TRUE >>)
  IN  CASE b = 1 -> [emit |-> <<>>, added |-> -1, lc |-> 1, realloc |-> FALSE]
        [] b = 2 -> [emit |-> <<"_", ToLower(c)>>, added |-> added + 1, lc |-> 1, realloc |-> TRUE]
        [] b = 3 -> [emit |-> <<ToUpper(c)>>, added |-> added, lc |-> 1, realloc |-> FALSE]
        [] b = 4 -> [emit |-> <<"_", ToUpper(c)>>, added |-> added + 1, lc |-> 1, realloc |-> TRUE]
        [] b = 5 -> [emit |-> <<c>>, added |-> added, lc |-> 1, realloc |-> FALSE]
        [] b = 6 -> [emit |-> <<"_">>, added |-> added, lc |-> 1, realloc |-> FALSE]
        [] b = 7 -> [emit |-> <<c>>, added |-> added, lc |-> 0, realloc |-> FALSE]

SnakeStep(c, i, added, lastChanged, tocase) ==
  LET b == FirstBranch(<< i = 0 /\ c = "&",
                          tocase = "LOWER" /\ i > 0 /\ IsUpper(c)
                                           /\ lastChanged = 0,
                          tocase = "UPPER" /\ IsLower(c),
                          tocase = "UPPER" /\ i > 0 /\ IsUpper(c),
                          tocase = "LOWER" /\ IsUpper(c),
                          c \in {"-", "."},
                          TRUE >>)
      Keep(bytes, lc) ==
        [emit |-> bytes, added |-> added, lc |-> lc, realloc |-> FALSE]
      Insert(bytes) ==
        [emit |-> bytes, added |-> added + 1, lc |-> 1, realloc |-> TRUE]
  IN  CASE b = 1 -> [emit |-> <<>>, added |-> -1, lc |-> 1, realloc |-> FALSE]
        [] b = 2 -> Insert(<<"_", ToLower(c)>>)
        [] b = 3 -> Keep(<<ToUpper(c)>>, 1)
        [] b = 4 -> Insert(<<"_", ToUpper(c)>>)
        [] b = 5 -> Keep(<<ToLower(c)>>, 1)
        [] b = 6 -> Keep(<<"_">>, 1)
        [] b = 7 -> Keep(<<c>>, 0)

\* The loop and the final snakeCase[i+added] = '\0'.  cap is the buffer
\* size (strdup gives origlen + 1); inBounds records that every store, the
\* terminator included, was below cap.
RECURSIVE SnakeLoop(_, _, _, _, _, _, _, _)
SnakeLoop(s, tocase, i, added, lastChanged, cap, out, inBounds) ==
  LET c == CharAt(s, i) IN
  IF c = NUL
  THEN [out |-> out, cap |-> cap,
        inBounds |-> inBounds /\ i + added < cap]
  ELSE LET st     == SnakeStep(c, i, added, lastChanged, tocase)
           newCap == IF st.realloc THEN Len(s) + added + 1 ELSE cap
       IN  SnakeLoop(s, tocase, i + 1, st.added, st.lc, newCap,
                     out \o st.emit,
                     inBounds /\ i + added + Len(st.emit) <= newCap)

SnakeRun(s, tocase) == SnakeLoop(s, tocase, 0, 0, 0, Len(s) + 1, <<>>, TRUE)
ToSnakeCase(s, tocase) == SnakeRun(s, tocase).out

-----------------------------------------------------------------------------
(* escapeQuotesDup: each '"' becomes '\' '"' after a realloc to           *)
(* origlen + added + 1 bytes; the terminator goes to origlen + added.     *)
\* Mutant: the loop runs while i <= len and copies the terminator.
RECURSIVE EscapeLoopCopiesNul(_, _, _, _, _, _)
EscapeLoopCopiesNul(s, i, added, cap, out, inBounds) ==
  IF i = Len(s) + 1
  THEN [out |-> out, cap |-> cap, inBounds |-> inBounds]
  ELSE IF CharAt(s, i) = Quote
  THEN EscapeLoopCopiesNul(s, i + 1, added + 1, Len(s) + added + 1,
                           out \o <<Backslash, Quote>>, inBounds)
  ELSE EscapeLoopCopiesNul(s, i + 1, added, cap, Append(out, CharAt(s, i)), inBounds)

RECURSIVE EscapeLoop(_, _, _, _, _, _)
EscapeLoop(s, i, added, cap, out, inBounds) ==
  IF i = Len(s)
  THEN [out |-> out, cap |-> cap,
        inBounds |-> inBounds /\ Len(s) + added < cap]
  ELSE IF s[i + 1] = Quote
  THEN EscapeLoop(s, i + 1, added + 1, Len(s) + added + 1,
                  out \o <<Backslash, Quote>>,
                  inBounds /\ i + added + 1 < Len(s) + added + 1)
  ELSE EscapeLoop(s, i + 1, added, cap, Append(out, s[i + 1]),
                  inBounds /\ i + added < cap)

EscapeRun(s) == EscapeLoop(s, 0, 0, Len(s) + 1, <<>>, TRUE)
EscapeQuotes(s) == EscapeRun(s).out
=============================================================================

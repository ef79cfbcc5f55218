------------------------------ MODULE Translator ------------------------------
(***************************************************************************)
(* What the proto back end promises the driver that calls it, stated      *)
(* without the dispatch, the clone queue or the proto model: the driver   *)
(* gets one answer per definition of the module, in module order, the     *)
(* answer is -1 exactly for a definition the translator rejects (a VALUE  *)
(* of a type it does not handle), and once every definition is            *)
(* answered the module is written, once.  Asn1Proto implements it.        *)
(***************************************************************************)
EXTENDS Integers, Sequences

CONSTANT NoId          \* a definition without an Identifier

VARIABLES
  module,              \* the module's definitions, in order
  answers,             \* the answers the driver has had so far
  written              \* the proto module has been written

vars == <<module, answers, written>>

\* A named VALUE whose type is neither INTEGER nor a reference.
Rejected(e) ==
  /\ e.id # NoId /\ e.specs = <<>> /\ e.type # "ENUMERATED"
  /\ e.meta = "VALUE" /\ e.type \notin {"INTEGER", "REFERENCE"}

\* The answer a definition gets.  A parameterized type is answered for
\* its clones, which are types and never rejected.
Verdict(d) == IF Rejected(d) THEN -1 ELSE 0

Init ==
  /\ answers = <<>>
  /\ written = FALSE

\* The next definition, in module order, is answered.
Answer ==
  /\ Len(answers) < Len(module)
  /\ answers' = Append(answers, Verdict(module[Len(answers) + 1]))
  /\ UNCHANGED <<module, written>>

\* Every definition answered: the module is written.
Emit ==
  /\ Len(answers) = Len(module)
  /\ ~written
  /\ written' = TRUE
  /\ UNCHANGED <<module, answers>>

Next == Answer \/ Emit

\* The translator never waits: it answers and emits without end.
Spec == Init /\ [][Next]_vars /\ WF_vars(Next)
====

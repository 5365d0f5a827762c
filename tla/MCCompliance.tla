----------------------------- MODULE MCCompliance -----------------------------
(***************************************************************************)
(* Compliance with values on both sides of every cap, values that say      *)
(* something before or after what they propose ("12-18", "1,000", "15      *)
(* allowed, 6 proposed"), values without a number and a line without a     *)
(* label.                                                                  *)
(***************************************************************************)
EXTENDS Compliance

Value(label, ints, proposed) ==
  [label |-> label, blank |-> FALSE, ints |-> ints, proposed |-> proposed]
Number(label, n) == Value(label, <<n>>, n)
Text(label) == Value(label, <<>>, 0)
Blank(label) == [Text(label) EXCEPT !.blank = TRUE]

MCLines ==
  {Number("RATE_REDUCTION_BPS", n) : n \in {300, 301, 350, 400}}
    \union {Text("RATE_REDUCTION_BPS"), Value("RATE_REDUCTION_BPS", <<1, 0>>, 1000)}
    \union {Number("FORBEARANCE_MONTHS", n) : n \in {12, 13}}
    \union {Value("FORBEARANCE_MONTHS", <<16, 1>>, 16), Value("FORBEARANCE_MONTHS", <<12, -18>>, 18),
             Value("FORBEARANCE_MONTHS", <<15, 6>>, 6)}
    \union {Text("POLICY_CITATION"), Text("SUMMARY"), Text("other")}

\* A citation that is left blank, in drafts that otherwise are as the prompt asks.
BlankLines ==
  {Blank("POLICY_CITATION"), Number("RATE_REDUCTION_BPS", 300), Number("FORBEARANCE_MONTHS", 12),
   Number("FORBEARANCE_MONTHS", 16), Text("SUMMARY")}
===============================================================================

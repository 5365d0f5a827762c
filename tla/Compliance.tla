------------------------------ MODULE Compliance ------------------------------
(***************************************************************************)
(* The deterministic compliance check of a draft: _parse_plan and          *)
(* compliance_check (src/app/agent/nodes.py), on drafts as the LLM writes  *)
(* them, line by line, with labels missing, repeated or out of range.      *)
(*                                                                         *)
(* A line is a label and a value; of the value only matters whether it is  *)
(* blank, which integers the pattern -?\d+ finds in it, in their order, and *)
(* what it proposes to a reader, 0 for nothing: "12-18 months" has the     *)
(* integers <<12, -18>> and proposes up to 18, "not proposed" has none.    *)
(***************************************************************************)
EXTENDS Integers, Sequences

CONSTANTS StateCodes,    \* customers.state_code
          Lines,         \* the lines the LLM may write
          MaxLines       \* bound: the length of a draft

Labels == {"RATE_REDUCTION_BPS", "FORBEARANCE_MONTHS", "TERM_EXTENSION_MONTHS",
           "POLICY_CITATION", "SUMMARY"}

\* "other": a line that starts with none of the labels.
ASSUME LinesAssumption ==
  /\ \A l \in Lines : /\ l.label \in Labels \union {"other"}
                       /\ l.blank \in BOOLEAN
                       /\ l.ints \in Seq(Int)
                       /\ l.proposed \in Int
  /\ MaxLines \in Nat

\* Mutant of RateCap: the default for every state.
RateCapDefault(state) == 300

RateCap(state) ==
  CASE state = "CA" -> 400
    [] state = "NY" -> 350
    [] state = "TX" -> 300
    [] OTHER        -> 300

ForbearanceCap(state) ==
  CASE state = "CA"           -> 15
    [] state \in {"NY", "TX"} -> 12
    [] OTHER                  -> 12

\* Where _SECTION_PATTERN matches.  The white space it skips after the colon may be
\* the end of the line: a blank value takes the next line as its value, and that
\* line is then not matched itself.  (Empty lines are skipped the same way and are
\* left out.)
Matches(draft) ==
  LET match[i \in 0..Len(draft)] ==
        i > 0 /\ draft[i].label \in Labels /\ ~(match[i - 1] /\ draft[i - 1].blank)
  IN {i \in DOMAIN draft : match[i]}

MatchedValue(draft, i) ==
  IF draft[i].blank /\ i < Len(draft)
  THEN [blank |-> FALSE, ints |-> draft[i + 1].ints]
  ELSE [blank |-> draft[i].blank, ints |-> draft[i].ints]

\* The fields found in a draft; of two matches with one label the later one counts.
Fields(draft) ==
  LET found == Matches(draft)
      latest(label) == CHOOSE i \in found :
                       /\ draft[i].label = label
                       /\ \A k \in found : draft[k].label = label => k <= i
  IN [label \in {draft[i].label : i \in found} |-> MatchedValue(draft, latest(label))]

\* Mutant of ToInt: the last integer of the field.
ToIntLast(fields, label) ==
  IF label \in DOMAIN fields /\ fields[label].ints # <<>>
  THEN {fields[label].ints[Len(fields[label].ints)]} ELSE {}

\* _to_int: the first integer of the field; no element stands for None.
ToInt(fields, label) ==
  IF label \in DOMAIN fields /\ fields[label].ints # <<>>
  THEN {Head(fields[label].ints)} ELSE {}

Present(fields, label) == label \in DOMAIN fields /\ ~fields[label].blank

\* compliance_check's issues.
Issues(draft, state) ==
  LET fields == Fields(draft)
  IN IF DOMAIN fields = {} THEN {"format"}
     ELSE (IF Present(fields, "POLICY_CITATION") THEN {} ELSE {"citation"})
            \union (IF Present(fields, "SUMMARY") THEN {} ELSE {"summary"})
            \union (IF \E n \in ToInt(fields, "RATE_REDUCTION_BPS") : n > RateCap(state)
                    THEN {"rate"} ELSE {})
            \union (IF \E n \in ToInt(fields, "FORBEARANCE_MONTHS") : n > ForbearanceCap(state)
                    THEN {"forbearance"} ELSE {})

VARIABLES state, draft, verdict, issues

vars == <<state, draft, verdict, issues>>

TypeOK ==
  /\ state \in StateCodes
  /\ draft \in Seq(Lines) /\ Len(draft) <= MaxLines
  /\ verdict \in {"none", "passed", "issues"}
  /\ issues \subseteq {"format", "citation", "summary", "rate", "forbearance"}

Init ==
  /\ state \in StateCodes
  /\ draft = <<>> /\ verdict = "none" /\ issues = {}

\* The LLM writes one more line of its answer.
WriteLine(l) ==
  /\ verdict = "none" /\ Len(draft) < MaxLines
  /\ draft' = Append(draft, l)
  /\ UNCHANGED <<state, verdict, issues>>

\* Mutant of Check: a draft in no format at all gets a verdict of its own.
CheckUnparsed ==
  /\ verdict = "none"
  /\ issues' = Issues(draft, state)
  /\ verdict' = IF issues' = {} THEN "passed" ELSE IF "format" \in issues' THEN "unparsed" ELSE "issues"
  /\ UNCHANGED <<state, draft>>

\* compliance_check of the finished draft (an empty answer is a draft too).
Check ==
  /\ verdict = "none"
  /\ issues' = Issues(draft, state)
  /\ verdict' = IF issues' = {} THEN "passed" ELSE "issues"
  /\ UNCHANGED <<state, draft>>

\* needs_revision: the LLM drafts anew.
Redraft ==
  /\ verdict = "issues"
  /\ draft' = <<>> /\ verdict' = "none" /\ issues' = {}
  /\ UNCHANGED state

Next == (\E l \in Lines : WriteLine(l)) \/ Check \/ Redraft

Spec == Init /\ [][Next]_vars

-----------------------------------------------------------------------------
(* What the policy documents (src/app/rag/documents) allow, read independently of  *)
(* the lookup tables: the general limits, and each state's where it sets its own.  *)

General == [RATE_REDUCTION_BPS |-> 300, FORBEARANCE_MONTHS |-> 12]

\* The documents are found by the upper case of the code (_scoped_sources).
Upper(st) == IF st = "ca" THEN "CA" ELSE st

PolicyLimit(st) ==
  IF st = "CA" THEN [RATE_REDUCTION_BPS |-> 400, FORBEARANCE_MONTHS |-> 15]
  ELSE IF st = "NY" THEN [General EXCEPT !.RATE_REDUCTION_BPS = 350]
  ELSE General

Limited == DOMAIN General

Limit(label) == PolicyLimit(Upper(state))[label]

\* The line that counts for a label is the one no other with it follows.
Counts(i, label) ==
  /\ draft[i].label = label
  /\ \A j \in (i + 1)..Len(draft) : draft[j].label # label

\* What the draft proposes, as its reader takes it, is at most the limit.
ProposesAtMost(label, limit) ==
  \A i \in DOMAIN draft : Counts(i, label) => draft[i].proposed <= limit

\* The value says what it proposes as the prompt asks: the number first, if there is
\* one.  "12-18", "1,000" and "eighteen" do not.
SaysItFirst(label) ==
  \A i \in DOMAIN draft : Counts(i, label) =>
    draft[i].proposed = IF draft[i].ints = <<>> THEN 0 ELSE draft[i].ints[1]

Has(label) == \E i \in DOMAIN draft : Counts(i, label) /\ ~draft[i].blank

Complete == Has("POLICY_CITATION") /\ Has("SUMMARY")

\* A draft that passes is complete, and proposes no more than the policy's rate and
\* forbearance limits, whatever else the LLM wrote before or after the lines that count;
\* except in a value that does not say its number first.  That holds for a code in
\* lower case too, which the caps are not listed under but the documents are: the
\* default caps it is held to are no looser than any state's.
PassedIsWithinPolicy ==
  verdict = "passed" =>
    /\ Complete
    /\ \A label \in Limited : SaysItFirst(label) => ProposesAtMost(label, Limit(label))

\* A complete draft that says its numbers first and proposes no more than the limits is
\* never sent back: the LLM is not asked to revise what the policy allows, for codes as
\* the documents spell them.
NoNeedlessRevision ==
  verdict = "issues" /\ state = Upper(state) =>
    ~ /\ Complete
      /\ \A label \in Limited : SaysItFirst(label) /\ ProposesAtMost(label, Limit(label))
===============================================================================

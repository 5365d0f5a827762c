--------------------------- MODULE Compliance_proofs ---------------------------
(***************************************************************************)
(* Theorems about Compliance, for every set of lines the LLM may write and *)
(* every length of a draft: the verdict of compliance_check                *)
(* (src/app/agent/nodes.py) is the one the policy documents call for.      *)
(*                                                                         *)
(* They hold of the drafts in which no label but the last line's goes      *)
(* without its value.  The run ComplianceBlank shows that they do not hold *)
(* of the others: the value of such a label is the line after it, which is *)
(* then not read as a line of its own.                                     *)
(***************************************************************************)
EXTENDS Compliance, WellFoundedInduction, TLAPS

\* Every set of naturals with a member has a smallest one ...
LEMMA SmallestOf ==
  ASSUME NEW S \in SUBSET Nat, S # {}
  PROVE  \E x \in S : \A y \in S : x <= y
<1> DEFINE less == OpToRel(<, Nat)
<1>1. IsWellFoundedOn(less, Nat)
  BY NatLessThanWellFounded
<1>2. \A x, y \in Nat : x < y => <<x, y>> \in less
  BY DEF OpToRel
<1> HIDE DEF less
<1>3. PICK x \in S : \A y \in S : ~(<<y, x>> \in less)
  BY <1>1, WFMin
<1>4. ASSUME NEW y \in S PROVE x <= y
  <2>1. ~(y < x)
    BY <1>2, <1>3
  <2> QED
    BY <2>1, x \in Nat, y \in Nat
<1> QED
  BY <1>4

\* ... and every set of positions of a draft a last one.
LEMMA LastOf ==
  ASSUME NEW n \in Nat, NEW S \in SUBSET (1..n), S # {}
  PROVE  \E x \in S : \A y \in S : y <= x
<1> DEFINE distances == {n - i : i \in S}
<1>1. distances \in SUBSET Nat /\ distances # {}
  <2>1. ASSUME NEW i \in S PROVE n - i \in Nat
    <3>1. i \in 1..n
      OBVIOUS
    <3> QED
      BY <3>1
  <2> QED
    BY <2>1
<1>2. PICK d \in distances : \A e \in distances : d <= e
  BY <1>1, SmallestOf
<1>3. PICK x \in S : d = n - x
  OBVIOUS
<1>4. ASSUME NEW y \in S PROVE y <= x
  <2>1. x \in 1..n /\ y \in 1..n
    OBVIOUS
  <2>2. n - x <= n - y
    BY <1>2, <1>3
  <2> QED
    BY <2>1, <2>2
<1> QED
  BY <1>4

\* Only the last line of the draft may have a label without a value.
ValuesGiven ==
  \A i \in DOMAIN draft : draft[i].label \in Labels /\ draft[i].blank => i = Len(draft)

\* With the values given, _SECTION_PATTERN matches every line with a label: the
\* recursion of Matches has exactly one solution, in which no match takes the next line.
LEMMA MatchesAll ==
  ASSUME TypeOK, ValuesGiven
  PROVE  Matches(draft) = {i \in DOMAIN draft : draft[i].label \in Labels}
<1> DEFINE g == [i \in 0..Len(draft) |-> i > 0 /\ draft[i].label \in Labels]
           match == CHOOSE f : f = [i \in 0..Len(draft) |->
                      i > 0 /\ draft[i].label \in Labels /\ ~(f[i - 1] /\ draft[i - 1].blank)]
<1>0. Len(draft) \in Nat /\ DOMAIN draft = 1..Len(draft)
  BY DEF TypeOK
<1>1. g = [i \in 0..Len(draft) |->
            i > 0 /\ draft[i].label \in Labels /\ ~(g[i - 1] /\ draft[i - 1].blank)]
  <2>1. ASSUME NEW i \in 0..Len(draft), i > 0, g[i - 1] PROVE ~draft[i - 1].blank
    <3>1. i - 1 \in 0..Len(draft) /\ i - 1 > 0 /\ draft[i - 1].label \in Labels
      BY <1>0, <2>1
    <3>2. i - 1 \in DOMAIN draft /\ i - 1 # Len(draft)
      BY <1>0, <3>1
    <3> QED
      BY <3>1, <3>2 DEF ValuesGiven
  <2> QED
    BY <2>1
<1>2. match = [i \in 0..Len(draft) |->
            i > 0 /\ draft[i].label \in Labels /\ ~(match[i - 1] /\ draft[i - 1].blank)]
  BY <1>1
<1>3. Matches(draft) = {i \in DOMAIN draft : match[i]}
  BY DEF Matches
<1> HIDE DEF match
<1>4. ASSUME NEW i \in DOMAIN draft PROVE match[i] <=> draft[i].label \in Labels
  <2>1. i \in 0..Len(draft) /\ i > 0 /\ i - 1 \in 0..Len(draft)
    BY <1>0
  <2>2. match[i] <=> draft[i].label \in Labels /\ ~(match[i - 1] /\ draft[i - 1].blank)
    BY <1>2, <2>1
  <2>3. match[i - 1] /\ draft[i - 1].blank => FALSE
    <3> SUFFICES ASSUME match[i - 1], draft[i - 1].blank PROVE FALSE
      OBVIOUS
    <3>1. i - 1 > 0 /\ draft[i - 1].label \in Labels
      BY <1>2, <2>1
    <3>2. i - 1 \in DOMAIN draft /\ i - 1 # Len(draft)
      BY <1>0, <2>1, <3>1
    <3> QED
      BY <3>1, <3>2 DEF ValuesGiven
  <2> QED
    BY <2>2, <2>3
<1> QED
  BY <1>3, <1>4

\* The field of a label is the line that counts for it: _parse_plan keeps the last.
LEMMA FieldOf ==
  ASSUME TypeOK, ValuesGiven,
         NEW label \in Labels, NEW i \in DOMAIN draft, Counts(i, label)
  PROVE  /\ label \in DOMAIN Fields(draft)
         /\ Fields(draft)[label].blank = draft[i].blank
         /\ Fields(draft)[label].ints = draft[i].ints
<1> DEFINE found == Matches(draft)
           latest(l) == CHOOSE k \in found :
                          /\ draft[k].label = l
                          /\ \A j \in found : draft[j].label = l => j <= k
<1>0. Len(draft) \in Nat /\ DOMAIN draft = 1..Len(draft)
  BY DEF TypeOK
<1>1. found = {k \in DOMAIN draft : draft[k].label \in Labels}
  BY MatchesAll
<1> HIDE DEF found
<1>2. i \in found /\ draft[i].label = label
  BY <1>1 DEF Counts
<1>3. ASSUME NEW k \in found, draft[k].label = label PROVE k <= i
  <2>1. k \in 1..Len(draft) /\ i \in 1..Len(draft)
    BY <1>0, <1>1
  <2>2. k \notin (i + 1)..Len(draft)
    BY <1>3 DEF Counts
  <2> QED
    BY <2>1, <2>2, <1>0
<1>4. ASSUME NEW k \in found, draft[k].label = label,
             \A j \in found : draft[j].label = label => j <= k
      PROVE  k = i
  <2>1. i <= k /\ k <= i
    BY <1>2, <1>3, <1>4
  <2>2. k \in 1..Len(draft) /\ i \in 1..Len(draft)
    BY <1>0, <1>1
  <2> QED
    BY <2>1, <2>2
<1>5. latest(label) = i
  BY <1>2, <1>3, <1>4
<1>6. ~(draft[i].blank /\ i < Len(draft))
  <2>1. draft[i].blank => i = Len(draft)
    BY <1>2 DEF ValuesGiven
  <2> QED
    BY <2>1, <1>0
<1>7. MatchedValue(draft, i) = [blank |-> draft[i].blank, ints |-> draft[i].ints]
  BY <1>6 DEF MatchedValue
<1>8. Fields(draft) = [l \in {draft[k].label : k \in found} |-> MatchedValue(draft, latest(l))]
  BY DEF Fields, found
<1>9. label \in {draft[k].label : k \in found}
  BY <1>2
<1> HIDE DEF latest
<1>10. Fields(draft)[label] = MatchedValue(draft, latest(label))
  BY <1>8, <1>9
<1>11. label \in DOMAIN Fields(draft)
  BY <1>8, <1>9
<1> QED
  BY <1>5, <1>7, <1>10, <1>11

\* A label with a field is on a line, so that one of its lines counts.
LEMMA FieldFound ==
  ASSUME TypeOK, ValuesGiven, NEW label \in DOMAIN Fields(draft)
  PROVE  /\ label \in Labels
         /\ \E i \in DOMAIN draft : Counts(i, label)
<1>0. Len(draft) \in Nat /\ DOMAIN draft = 1..Len(draft)
  BY DEF TypeOK
<1>1. DOMAIN Fields(draft) = {draft[k].label : k \in Matches(draft)}
  BY DEF Fields
<1>2. PICK k \in DOMAIN draft : draft[k].label = label /\ label \in Labels
  BY <1>1, MatchesAll
<1> DEFINE S == {i \in 1..Len(draft) : draft[i].label = label}
<1>3. S \in SUBSET (1..Len(draft)) /\ S # {}
  BY <1>0, <1>2
<1>4. PICK i \in S : \A j \in S : j <= i
  BY <1>0, <1>3, LastOf
<1>5. ASSUME NEW j \in (i + 1)..Len(draft), draft[j].label = label PROVE FALSE
  <2>1. j \in 1..Len(draft) /\ i < j
    BY <1>0, <1>4
  <2>2. j \in S
    BY <2>1, <1>5
  <2> QED
    BY <2>1, <2>2, <1>4, <1>0
<1>6. i \in DOMAIN draft /\ Counts(i, label)
  BY <1>0, <1>4, <1>5 DEF Counts
<1> QED
  BY <1>2, <1>6

\* compliance_check finds a citation (a summary) just when the line that counts has one.
LEMMA PresentMeansHas ==
  ASSUME TypeOK, ValuesGiven, NEW label \in Labels
  PROVE  Present(Fields(draft), label) <=> Has(label)
<1>1. ASSUME Present(Fields(draft), label) PROVE Has(label)
  <2>1. PICK i \in DOMAIN draft : Counts(i, label)
    BY <1>1, FieldFound DEF Present
  <2>2. Fields(draft)[label].blank = draft[i].blank
    BY <2>1, FieldOf
  <2> QED
    BY <1>1, <2>1, <2>2 DEF Present, Has
<1>2. ASSUME Has(label) PROVE Present(Fields(draft), label)
  <2>1. PICK i \in DOMAIN draft : Counts(i, label) /\ ~draft[i].blank
    BY <1>2 DEF Has
  <2>2. label \in DOMAIN Fields(draft) /\ Fields(draft)[label].blank = draft[i].blank
    BY <2>1, FieldOf
  <2> QED
    BY <2>1, <2>2 DEF Present
<1> QED
  BY <1>1, <1>2

\* The integer _to_int takes is what the draft proposes, if it says that first: it is
\* within a limit just when the proposal is.
LEMMA ToIntWithinLimit ==
  ASSUME TypeOK, ValuesGiven, NEW label \in Labels, SaysItFirst(label),
         NEW limit \in Nat
  PROVE  (~ \E n \in ToInt(Fields(draft), label) : n > limit) <=> ProposesAtMost(label, limit)
<1>1. ASSUME NEW i \in DOMAIN draft, Counts(i, label)
      PROVE  /\ draft[i].proposed \in Int
             /\ draft[i].ints = <<>> =>
                  ToInt(Fields(draft), label) = {} /\ draft[i].proposed = 0
             /\ draft[i].ints # <<>> =>
                  ToInt(Fields(draft), label) = {draft[i].proposed}
  <2>1. draft[i] \in Lines
    BY DEF TypeOK
  <2>2. draft[i].ints \in Seq(Int) /\ draft[i].proposed \in Int
    BY <2>1, LinesAssumption
  <2>3. draft[i].ints # <<>> => Head(draft[i].ints) = draft[i].ints[1]
    BY <2>2
  <2>4. label \in DOMAIN Fields(draft) /\ Fields(draft)[label].ints = draft[i].ints
    BY <1>1, FieldOf
  <2>5. draft[i].proposed = IF draft[i].ints = <<>> THEN 0 ELSE draft[i].ints[1]
    BY <1>1 DEF SaysItFirst
  <2> QED
    BY <2>2, <2>3, <2>4, <2>5 DEF ToInt
<1>2. ASSUME ~ \E n \in ToInt(Fields(draft), label) : n > limit
      PROVE  ProposesAtMost(label, limit)
  <2>1. ASSUME NEW i \in DOMAIN draft, Counts(i, label)
        PROVE  draft[i].proposed <= limit
    <3>1. CASE draft[i].ints = <<>>
      BY <1>1, <2>1, <3>1
    <3>2. CASE draft[i].ints # <<>>
      <4>1. draft[i].proposed \in ToInt(Fields(draft), label) /\ draft[i].proposed \in Int
        BY <1>1, <2>1, <3>2
      <4> QED
        BY <1>2, <4>1
    <3> QED
      BY <3>1, <3>2
  <2> QED
    BY <2>1 DEF ProposesAtMost
<1>3. ASSUME ProposesAtMost(label, limit), NEW n \in ToInt(Fields(draft), label)
      PROVE  ~(n > limit)
  <2>1. label \in DOMAIN Fields(draft)
    BY <1>3 DEF ToInt
  <2>2. PICK i \in DOMAIN draft : Counts(i, label)
    BY <2>1, FieldFound
  <2>3. n = draft[i].proposed /\ n \in Int
    BY <1>1, <1>3, <2>2
  <2>4. draft[i].proposed <= limit
    BY <1>3, <2>2 DEF ProposesAtMost
  <2> QED
    BY <2>3, <2>4
<1> QED
  BY <1>2, <1>3

\* The caps of compliance_check are never looser than the documents' limits, whatever
\* the state code, in upper or lower case ...
LEMMA NoLooserCaps ==
  /\ RateCap(state) \in Nat /\ ForbearanceCap(state) \in Nat
  /\ Limit("RATE_REDUCTION_BPS") \in Nat
  /\ Limit("FORBEARANCE_MONTHS") \in Nat
  /\ RateCap(state) <= Limit("RATE_REDUCTION_BPS")
  /\ ForbearanceCap(state) <= Limit("FORBEARANCE_MONTHS")
<1>1. CASE state = "CA"
  BY <1>1 DEF RateCap, ForbearanceCap, Limit, PolicyLimit, Upper, General
<1>2. CASE state = "ca"
  BY <1>2 DEF RateCap, ForbearanceCap, Limit, PolicyLimit, Upper, General
<1>3. CASE state = "NY"
  BY <1>3 DEF RateCap, ForbearanceCap, Limit, PolicyLimit, Upper, General
<1>4. CASE state = "TX"
  BY <1>4 DEF RateCap, ForbearanceCap, Limit, PolicyLimit, Upper, General
<1>5. CASE state \notin {"CA", "ca", "NY", "TX"}
  BY <1>5 DEF RateCap, ForbearanceCap, Limit, PolicyLimit, Upper, General
<1> QED
  BY <1>1, <1>2, <1>3, <1>4, <1>5

\* ... and are those limits when the code is spelled as the documents spell it.
LEMMA SameCaps ==
  ASSUME state = Upper(state)
  PROVE  /\ RateCap(state) = Limit("RATE_REDUCTION_BPS")
         /\ ForbearanceCap(state) = Limit("FORBEARANCE_MONTHS")
<1>1. CASE state = "CA"
  BY <1>1 DEF RateCap, ForbearanceCap, Limit, PolicyLimit, Upper, General
<1>3. CASE state = "NY"
  BY <1>3 DEF RateCap, ForbearanceCap, Limit, PolicyLimit, Upper, General
<1>4. CASE state = "TX"
  BY <1>4 DEF RateCap, ForbearanceCap, Limit, PolicyLimit, Upper, General
<1>5. CASE state \notin {"CA", "ca", "NY", "TX"}
  BY <1>5 DEF RateCap, ForbearanceCap, Limit, PolicyLimit, Upper, General
<1> QED
  BY <1>1, <1>3, <1>4, <1>5 DEF Upper

\* The labels of the policy's limits.
LEMMA TwoLimits == Limited = {"RATE_REDUCTION_BPS", "FORBEARANCE_MONTHS"}
BY DEF Limited, General

\* A draft in which compliance_check finds no issue is complete and within the limits ...
LEMMA NoIssuesMeansWithin ==
  ASSUME TypeOK, ValuesGiven, Issues(draft, state) = {}
  PROVE  /\ Complete
         /\ \A label \in Limited : SaysItFirst(label) => ProposesAtMost(label, Limit(label))
<1> DEFINE fields == Fields(draft)
<1>1. /\ Present(fields, "POLICY_CITATION")
      /\ Present(fields, "SUMMARY")
      /\ ~ \E n \in ToInt(fields, "RATE_REDUCTION_BPS") : n > RateCap(state)
      /\ ~ \E n \in ToInt(fields, "FORBEARANCE_MONTHS") : n > ForbearanceCap(state)
  BY Zenon DEF Issues
<1> HIDE DEF fields
<1>2. Complete
  BY <1>1, PresentMeansHas DEF fields, Labels, Complete
<1>3. ASSUME NEW label, NEW limit \in Nat, NEW looser \in Nat, limit <= looser,
             ProposesAtMost(label, limit)
      PROVE  ProposesAtMost(label, looser)
  <2>1. ASSUME NEW i \in DOMAIN draft, Counts(i, label)
        PROVE  draft[i].proposed <= looser
    <3>1. draft[i].proposed <= limit
      BY <1>3, <2>1 DEF ProposesAtMost
    <3>2. draft[i].proposed \in Int
      BY LinesAssumption DEF TypeOK
    <3> QED
      BY <1>3, <3>1, <3>2
  <2> QED
    BY <2>1 DEF ProposesAtMost
<1>4. ASSUME SaysItFirst("RATE_REDUCTION_BPS")
      PROVE  ProposesAtMost("RATE_REDUCTION_BPS", Limit("RATE_REDUCTION_BPS"))
  <2>1. ProposesAtMost("RATE_REDUCTION_BPS", RateCap(state))
    BY <1>1, <1>4, ToIntWithinLimit, NoLooserCaps DEF fields, Labels
  <2> QED
    BY <1>3, <2>1, NoLooserCaps
<1>5. ASSUME SaysItFirst("FORBEARANCE_MONTHS")
      PROVE  ProposesAtMost("FORBEARANCE_MONTHS", Limit("FORBEARANCE_MONTHS"))
  <2>1. ProposesAtMost("FORBEARANCE_MONTHS", ForbearanceCap(state))
    BY <1>1, <1>5, ToIntWithinLimit, NoLooserCaps DEF fields, Labels
  <2> QED
    BY <1>3, <2>1, NoLooserCaps
<1> QED
  BY <1>2, <1>4, <1>5, TwoLimits

\* ... and it finds none in such a draft.
LEMMA WithinMeansNoIssues ==
  ASSUME TypeOK, ValuesGiven, state = Upper(state), Complete,
         \A label \in Limited : SaysItFirst(label) /\ ProposesAtMost(label, Limit(label))
  PROVE  Issues(draft, state) = {}
<1> DEFINE fields == Fields(draft)
<1>1. Present(fields, "POLICY_CITATION") /\ Present(fields, "SUMMARY")
  BY PresentMeansHas DEF Complete, Labels
<1>2. /\ SaysItFirst("RATE_REDUCTION_BPS")
      /\ ProposesAtMost("RATE_REDUCTION_BPS", RateCap(state))
  BY SameCaps, TwoLimits
<1>3. /\ SaysItFirst("FORBEARANCE_MONTHS")
      /\ ProposesAtMost("FORBEARANCE_MONTHS", ForbearanceCap(state))
  BY SameCaps, TwoLimits
<1>4. ~ \E n \in ToInt(fields, "RATE_REDUCTION_BPS") : n > RateCap(state)
  BY <1>2, ToIntWithinLimit, NoLooserCaps DEF Labels
<1>5. ~ \E n \in ToInt(fields, "FORBEARANCE_MONTHS") : n > ForbearanceCap(state)
  BY <1>3, ToIntWithinLimit, NoLooserCaps DEF Labels
<1>6. DOMAIN fields # {}
  BY <1>1 DEF Present
<1> HIDE DEF fields
<1> QED
  BY <1>1, <1>4, <1>5, <1>6 DEF Issues, fields

-----------------------------------------------------------------------------

\* The verdict is that of the draft as it stands: nothing is written after the check.
VerdictMatches ==
  /\ verdict = "passed" => Issues(draft, state) = {}
  /\ verdict = "issues" => Issues(draft, state) # {}

\* Every step keeps the types and the verdict's agreement with the draft.
LEMMA VerdictStep ==
  ASSUME TypeOK, VerdictMatches, [Next]_vars
  PROVE  TypeOK' /\ VerdictMatches'
<1> USE DEF TypeOK, VerdictMatches
<1>1. ASSUME NEW l \in Lines, WriteLine(l)
      PROVE  TypeOK' /\ VerdictMatches'
  <2>1. draft' \in Seq(Lines) /\ Len(draft') = Len(draft) + 1
    BY <1>1 DEF WriteLine
  <2>2. Len(draft') <= MaxLines
    BY <1>1, <2>1, LinesAssumption DEF WriteLine
  <2>3. verdict' = "none" /\ UNCHANGED <<state, issues>>
    BY <1>1 DEF WriteLine
  <2> QED
    BY <2>1, <2>2, <2>3
<1>2. CASE Check
  <2>1. issues' = Issues(draft, state) /\ UNCHANGED <<state, draft>>
    BY <1>2 DEF Check
  <2>2. Issues(draft, state) \subseteq {"format", "citation", "summary", "rate", "forbearance"}
    <3> DEFINE fields == Fields(draft)
    <3> HIDE DEF fields
    <3>1. Issues(draft, state) =
            IF DOMAIN fields = {} THEN {"format"}
            ELSE (IF Present(fields, "POLICY_CITATION") THEN {} ELSE {"citation"})
                 \union (IF Present(fields, "SUMMARY") THEN {} ELSE {"summary"})
                 \union (IF \E n \in ToInt(fields, "RATE_REDUCTION_BPS") : n > RateCap(state)
                         THEN {"rate"} ELSE {})
                 \union (IF \E n \in ToInt(fields, "FORBEARANCE_MONTHS") : n > ForbearanceCap(state)
                         THEN {"forbearance"} ELSE {})
      BY Zenon DEF Issues, fields
    <3> QED
      BY <3>1
  <2>3. verdict' = IF Issues(draft, state) = {} THEN "passed" ELSE "issues"
    BY <1>2, <2>1 DEF Check
  <2>4. Issues(draft, state)' = Issues(draft, state)
    BY <2>1
  <2> HIDE DEF VerdictMatches
  <2>5. TypeOK'
    BY <2>1, <2>2, <2>3
  <2>6. VerdictMatches'
    BY <2>3, <2>4 DEF VerdictMatches
  <2> QED
    BY <2>5, <2>6
<1>3. CASE Redraft
  <2>1. <<>> \in Seq(Lines) /\ Len(<<>>) = 0 /\ 0 <= MaxLines
    BY LinesAssumption
  <2> QED
    BY <1>3, <2>1 DEF Redraft
<1>4. CASE UNCHANGED vars
  <2>1. Issues(draft, state)' = Issues(draft, state)
    BY <1>4 DEF vars
  <2> QED
    BY <1>4, <2>1 DEF vars
<1> QED
  BY <1>1, <1>2, <1>3, <1>4 DEF Next

\* The inductive invariant holds of every reachable state.
THEOREM VerdictAlwaysMatches == Spec => [](TypeOK /\ VerdictMatches)
<1>1. Init => TypeOK /\ VerdictMatches
  <2>1. <<>> \in Seq(Lines) /\ Len(<<>>) = 0 /\ 0 <= MaxLines
    BY LinesAssumption
  <2> QED
    BY <2>1 DEF Init, TypeOK, VerdictMatches
<1>2. TypeOK /\ VerdictMatches /\ [Next]_vars => TypeOK' /\ VerdictMatches'
  BY VerdictStep
<1> QED
  BY <1>1, <1>2, PTL DEF Spec

\* Type correctness, and the kinds of issues there are.
THEOREM TypeCorrect == Spec => []TypeOK
  BY VerdictAlwaysMatches, PTL

\* A draft that passes compliance_check has its citation and its summary, and the
\* rate reduction and the forbearance it proposes, each said first in its value, are
\* within what the policy documents allow the customer's state, for any text of any
\* length around them.
THEOREM PassedAlwaysWithinPolicy == Spec => [](ValuesGiven => PassedIsWithinPolicy)
<1>1. TypeOK /\ VerdictMatches => (ValuesGiven => PassedIsWithinPolicy)
  BY NoIssuesMeansWithin DEF VerdictMatches, PassedIsWithinPolicy
<1> QED
  BY <1>1, VerdictAlwaysMatches, PTL

\* compliance_check never sends back a complete draft that says its numbers first and is
\* within the documents' limits.
THEOREM NeverNeedlesslyRevised == Spec => [](ValuesGiven => NoNeedlessRevision)
<1>1. TypeOK /\ VerdictMatches => (ValuesGiven => NoNeedlessRevision)
  BY WithinMeansNoIssues DEF VerdictMatches, NoNeedlessRevision
<1> QED
  BY <1>1, VerdictAlwaysMatches, PTL
===============================================================================

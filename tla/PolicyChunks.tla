------------------------------ MODULE PolicyChunks ------------------------------
(***************************************************************************)
(* How a section of a policy document is cut into parent and child chunks  *)
(* (_split_into_parents and _split_into_children, src/app/rag/retriever.py)*)
(*                                                                         *)
(* A section, what is between two places where the split cuts, is a        *)
(* sequence of characters of which only matters whether they are white     *)
(* space (FALSE) or not (TRUE), and whether it begins with a heading.  A   *)
(* chunk is the interval of positions it takes from the section.           *)
(***************************************************************************)
EXTENDS Integers, Sequences, FiniteSetsExt

CONSTANTS ParentMaxChars,    \* _PARENT_MAX_CHARS
          ChildWindowChars,  \* _CHILD_WINDOW_CHARS
          ChildStrideChars,  \* _CHILD_STRIDE_CHARS
          MinParentChars,    \* _MIN_PARENT_CHARS
          MaxChars           \* bound: the length of a section

\* The relations between the constants that the code's values have.
ASSUME ChunkAssumption ==
  /\ {ParentMaxChars, ChildWindowChars, ChildStrideChars, MinParentChars, MaxChars}
       \subseteq Nat \ {0}
  /\ MinParentChars < ChildStrideChars
  /\ ChildStrideChars < ChildWindowChars
  /\ ChildWindowChars < ParentMaxChars

VARIABLES
  section,
  headed      \* it begins with "## " and a heading; the preamble does not

vars == <<section, headed>>

\* str.strip of the characters from first to last: an empty interval if all are blank.
Strip(first, last) ==
  LET text == {i \in first..last : section[i]}
  IN IF text = {} THEN [first |-> first, last |-> first - 1]
     ELSE [first |-> Min(text), last |-> Max(text)]

Length(chunk) == chunk.last - chunk.first + 1

Smaller(m, n) == IF m < n THEN m ELSE n

\* Mutant of Parents: only full chunks, the remainder is lost.
ParentsFull ==
  LET whole == Strip(1, Len(section))
      starts == {s \in whole.first..whole.last :
                   /\ (s - whole.first) % ParentMaxChars = 0
                   /\ s + ParentMaxChars - 1 <= whole.last}
  IN {p \in {Strip(s, s + ParentMaxChars - 1) : s \in starts} :
        headed /\ Length(p) >= MinParentChars}

\* The chunks of at most ParentMaxChars, stripped, the short ones dropped, and the
\* preamble as a whole.
Parents ==
  LET whole == Strip(1, Len(section))
      starts == {s \in whole.first..whole.last : (s - whole.first) % ParentMaxChars = 0}
  IN {p \in {Strip(s, Smaller(s + ParentMaxChars - 1, whole.last)) : s \in starts} :
        headed /\ Length(p) >= MinParentChars}

\* Mutants of Children: windows side by side ...
ChildrenSideBySide(parent) ==
  {[first |-> s, last |-> Smaller(s + ChildWindowChars - 1, parent.last)] :
     s \in {s \in parent.first..parent.last : (s - parent.first) % ChildWindowChars = 0}}

\* ... or on past the one that reaches the end.
ChildrenPastTheEnd(parent) ==
  {[first |-> s, last |-> Smaller(s + ChildWindowChars - 1, parent.last)] :
     s \in {s \in parent.first..parent.last : (s - parent.first) % ChildStrideChars = 0}}

\* The windows over a parent: one when it fits, else one every ChildStrideChars until
\* one reaches the end.
Children(parent) ==
  LET starts == {s \in parent.first..parent.last :
                   /\ (s - parent.first) % ChildStrideChars = 0
                   /\ s = parent.first \/ s - ChildStrideChars + ChildWindowChars <= parent.last}
  IN {[first |-> s, last |-> Smaller(s + ChildWindowChars - 1, parent.last)] : s \in starts}

Init == section = <<>> /\ headed \in BOOLEAN

\* The author of the document writes on.
Write(visible) ==
  /\ Len(section) < MaxChars
  /\ section' = Append(section, visible)
  /\ UNCHANGED headed

Next == \E visible \in BOOLEAN : Write(visible)

Spec == Init /\ [][Next]_vars

-----------------------------------------------------------------------------

\* The overlap of the windows keeps phrases whole: any run of characters of a parent
\* no longer than the overlap and one is inside one child, so that it is scored as it
\* is written, at the parent's end and in parents shorter than a window too.
PhrasesKeptWhole ==
  \A p \in Parents :
    \A first \in p.first..p.last :
      \A last \in first..Smaller(first + ChildWindowChars - ChildStrideChars, p.last) :
        \E c \in Children(p) : c.first <= first /\ last <= c.last

\* No window is contained in another: no child repeats text another already has in full.
NoWindowWithinAnother ==
  \A p \in Parents : \A c, d \in Children(p) :
    c.first <= d.first /\ d.last <= c.last => c = d

\* Nowhere in the section is about half a parent blank: 731 characters in a row, with
\* the code's constants.
NoGaps ==
  \A s \in DOMAIN section :
    LET run == s..(s + (ParentMaxChars - MinParentChars) \div 2)
    IN run \subseteq DOMAIN section => \E i \in run : section[i]

Dropped == {i \in DOMAIN section : section[i] /\ \A p \in Parents : i \notin p.first..p.last}

\* All that is dropped of a section with a heading is a scrap at its end, shorter than
\* the least a parent may be: its text is in the parents from its first character on,
\* wherever the cuts between them fall, words and blanks alike.
OnlyScrapsDropped ==
  headed /\ NoGaps =>
    \A i \in Dropped, j \in DOMAIN section : section[j] => j - i + 1 < MinParentChars
===============================================================================

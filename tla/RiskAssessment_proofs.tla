------------------------- MODULE RiskAssessment_proofs -------------------------
(***************************************************************************)
(* Proofs about RiskAssessment, for any clients, customers, scores and     *)
(* faults, and any number of POSTs.                                        *)
(***************************************************************************)
EXTENDS RiskAssessment, Integers, TLAPS

\* The places of a POST whose transaction has not been committed.
Before == {"begun", "scored", "opening", "commit"}

\* What the request k of the client r has done and seen.
RunFits(r, k) ==
  /\ k.pc \in Before => k.at \in 1..clock /\ \A a \in assessments : a.at # k.at
  /\ k.pc \in {"begun", "scored"} => k.logs = {} /\ k.opened = FALSE
  /\ k.pc \in {"scored", "opening", "commit"} => k.probability \in Scores
  /\ k.pc = "opening" =>
       k.logs = {"SCORED"} /\ k.opened = FALSE /\ k.probability > risk_trigger_threshold
  /\ k.pc = "commit" =>
       \/ /\ k.opened = TRUE /\ k.logs = {"SCORED", "AGENT_TRIGGERED"}
          /\ k.probability > risk_trigger_threshold
       \/ /\ k.opened = FALSE /\ k.logs = {"SCORED"}
          /\ ~(k.probability > risk_trigger_threshold)
  /\ k.pc \in {"committed", "waiting"} =>
       /\ \E a \in assessments : a.at = k.at /\ a.customer = k.customer
       /\ k.opened = TRUE => k.at \in cases
  /\ k.pc \in {"selected", "answer"} =>
       /\ \E a \in assessments :
            a.at = k.at /\ a.customer = k.customer /\ a.probability = k.probability
       /\ k.at >= knows[r][k.customer]
  /\ k.pc = "answer" /\ k.probability > risk_trigger_threshold => k.found = TRUE
  /\ k.pc = "scored" => k.prior >= knows[r][k.customer]

\* No two transactions have the same number.
Apart ==
  \A r, s \in Clients :
    r # s /\ run[r].pc \in Before /\ run[s].pc \in Before => run[r].at # run[s].at

\* Transactions are numbered as they start.
Numbered == \A a \in assessments : a.at <= clock

\* A customer who has been assessed has a latest assessment.
HasLatest ==
  \A c \in Customers :
    (\E a \in assessments : a.customer = c) => \E a \in assessments : a \in Latest(c)

\* Clients are told of committed assessments only.
KnowsCommitted ==
  \A r \in Clients, c \in Customers :
    \/ knows[r][c] = 0
    \/ \E a \in assessments : a.at = knows[r][c] /\ a.customer = c

RiskInv ==
  /\ TypeOK /\ StoredTogether /\ Apart /\ Numbered /\ HasLatest /\ KnowsCommitted
  /\ \A r \in Clients : RunFits(r, run[r])

-----------------------------------------------------------------------------

\* What the proofs need to know of the numbers.
LEMMA ProbabilityBounds ==
  /\ 0 \in Probabilities
  /\ \A p \in Probabilities : p \in Nat /\ p <= Certain
<1>1. Certain \in Nat /\ 0 <= Certain
  BY SMT DEF Certain
<1> QED
  BY <1>1, SMT DEF Probabilities

\* Rounding stays within probabilities, and does not lift a score over the threshold.
LEMMA RoundedBounds ==
  ASSUME NEW p \in Probabilities
  PROVE  /\ Rounded(p) \in Probabilities
         /\ Rounded(p) > risk_trigger_threshold => p > risk_trigger_threshold
<1> DEFINE q == (p + 5) \div 10
<1>1. p \in Nat /\ p <= Certain
  BY ProbabilityBounds
<1>2. p + 5 \in Nat
  BY <1>1, SMT
<1>3. q \in Nat /\ 10 * q <= p + 5
  BY <1>2, SMT
<1> HIDE DEF q
<1>4. q * 10 \in Nat /\ q * 10 <= Certain
  BY <1>1, <1>3, SMT DEF Certain
<1>5. q * 10 > risk_trigger_threshold => p > risk_trigger_threshold
  BY <1>1, <1>3, SMT DEF risk_trigger_threshold
<1>6. Rounded(p) = q * 10
  BY DEF Rounded, q
<1>7. Certain \in Nat
  BY SMT DEF Certain
<1> QED
  BY <1>4, <1>5, <1>6, <1>7, SMT DEF Probabilities

\* A flag the column allows.
LEMMA FlagAllowed ==
  ASSUME NEW p \in Probabilities
  PROVE  ClassifyRiskFlag(p) \in {"LOW", "MEDIUM", "HIGH", "CRITICAL"}
<1>1. p \in Nat
  BY ProbabilityBounds
<1> QED
  BY <1>1, SMTT(60) DEF ClassifyRiskFlag

USE RiskAssumption

\* An idle request is well-typed and has seen nothing.
LEMMA IdleFits == Idle \in Run /\ Idle.pc = "idle" /\ \A r : RunFits(r, Idle)
<1>1. (CHOOSE c \in Customers : TRUE) \in Customers
  <2>1. \E c : c \in Customers /\ TRUE
    OBVIOUS
  <2> QED
    BY <2>1, Zenon
<1>2. Idle.pc = "idle"
  BY DEF Idle
<1>3. Idle \in Run
  BY <1>1, ProbabilityBounds DEF Idle, Run, PCs, Actions
<1> QED
  BY <1>2, <1>3 DEF RunFits, Before

-----------------------------------------------------------------------------

\* A step of one request that stores nothing keeps the invariant.
LEMMA LocalKeeps ==
  ASSUME RiskInv, NEW r \in Clients, NEW k \in Run, run' = [run EXCEPT ![r] = k],
         UNCHANGED <<clock, assessments, cases, audit, task, knows>>,
         RunFits(r, k), k.pc \in Before => run[r].pc \in Before /\ k.at = run[r].at
  PROVE  RiskInv'
<1>1. run \in [Clients -> Run]
  BY DEF RiskInv, TypeOK
<1>2. TypeOK'
  BY <1>1 DEF RiskInv, TypeOK
<1>3. StoredTogether' /\ Numbered' /\ KnowsCommitted'
  BY DEF RiskInv, StoredTogether, Numbered, KnowsCommitted, Stamps
<1>3a. HasLatest'
  BY DEF RiskInv, HasLatest, Latest
<1>4. Apart'
  BY <1>1 DEF RiskInv, Apart
<1>5. ASSUME NEW s \in Clients PROVE RunFits(s, run[s])'
  <2>1. run'[s] = IF s = r THEN k ELSE run[s]
    BY <1>1
  <2>2. RunFits(s, run'[s])
    BY <2>1 DEF RiskInv
  <2> QED
    BY <2>2 DEF RunFits
<1> QED
  BY <1>2, <1>3, <1>3a, <1>4, <1>5 DEF RiskInv

\* The end of a request without an answer is such a step.
LEMMA RestKeeps ==
  ASSUME RiskInv, NEW r \in Clients, Rest(r),
         UNCHANGED <<clock, assessments, cases, audit, task, knows>>
  PROVE  RiskInv'
BY IdleFits, LocalKeeps DEF Rest, Before
-----------------------------------------------------------------------------

LEMMA FetchFeaturesKeeps ==
  ASSUME RiskInv, NEW r \in Clients, FetchFeatures(r)
  PROVE  RiskInv'
<1>0. run[r] \in Run /\ run \in [Clients -> Run] /\ run[r].pc = "begun" /\ RunFits(r, run[r])
  BY DEF FetchFeatures, RiskInv, TypeOK
<1>1. CASE run[r].customer \notin Registered
  BY <1>1, RestKeeps DEF FetchFeatures
<1>2. CASE run[r].customer \in Registered
  <2> DEFINE c == run[r].customer
             prior == IF \E a \in Latest(c) : TRUE
                      THEN (CHOOSE a \in Latest(c) : TRUE).at ELSE 0
  <2>1. PICK probability \in Scores :
          run' = [run EXCEPT ![r].pc = "scored", ![r].probability = probability,
                             ![r].prior = prior]
    BY <1>2 DEF FetchFeatures
  <2> DEFINE k == [run[r] EXCEPT !.pc = "scored", !.probability = probability, !.prior = prior]
  <2>2. c \in Customers /\ knows[r][c] \in 0..MaxPosts
    BY <1>0 DEF Run, RiskInv, TypeOK
  <2>3. prior \in 0..MaxPosts /\ prior >= knows[r][c]
    <3>1. CASE \E a \in Latest(c) : TRUE
      <4>1. PICK b \in Latest(c) : prior = b.at
        BY <3>1
      <4>2. b \in Assessment /\ b.at \in Stamps
        BY <4>1 DEF Latest, RiskInv, TypeOK, Assessment
      <4>3. \A a \in assessments : a.customer = c => a.at <= b.at
        BY <4>1 DEF Latest
      <4> QED
        BY <2>2, <4>1, <4>2, <4>3 DEF RiskInv, KnowsCommitted, Stamps
    <3>2. CASE ~ \E a \in Latest(c) : TRUE
      <4>1. ~ \E a \in assessments : a.customer = c
        BY <2>2, <3>2 DEF RiskInv, HasLatest
      <4> QED
        BY <2>2, <3>2, <4>1 DEF RiskInv, KnowsCommitted
    <3> QED
      BY <3>1, <3>2
  <2> HIDE DEF prior
  <2>4. probability \in Probabilities
    OBVIOUS
  <2>5. /\ k \in Run /\ k.pc = "scored" /\ k.at = run[r].at /\ k.logs = run[r].logs
        /\ k.opened = run[r].opened /\ k.probability = probability /\ k.prior = prior
        /\ k.customer = c
    BY <1>0, <2>3, <2>4 DEF Run, PCs
  <2>6. run' = [run EXCEPT ![r] = k]
    BY <1>0, <2>1
  <2> HIDE DEF k
  <2>7. RunFits(r, k)
    BY <1>0, <2>3, <2>5 DEF RunFits, Before
  <2> QED
    BY <1>0, <2>5, <2>6, <2>7, LocalKeeps DEF FetchFeatures, Before
<1> QED
  BY <1>1, <1>2

LEMMA FlushAssessmentKeeps ==
  ASSUME RiskInv, NEW r \in Clients, FlushAssessment(r)
  PROVE  RiskInv'
<1>0. run[r] \in Run /\ run \in [Clients -> Run] /\ run[r].pc = "scored" /\ RunFits(r, run[r])
  BY DEF FlushAssessment, RiskInv, TypeOK
<1> DEFINE pc == IF run[r].probability > risk_trigger_threshold THEN "opening" ELSE "commit"
           k == [run[r] EXCEPT !.pc = pc, !.logs = run[r].logs \union {"SCORED"}]
<1>1. /\ k \in Run /\ k.pc = pc /\ k.at = run[r].at /\ k.logs = {"SCORED"}
      /\ k.opened = run[r].opened /\ k.probability = run[r].probability
  BY <1>0 DEF Run, PCs, Actions, RunFits
<1>2. run' = [run EXCEPT ![r] = k]
  BY <1>0 DEF FlushAssessment
<1> HIDE DEF k
<1>3. RunFits(r, k)
  BY <1>0, <1>1 DEF RunFits, Before
<1> QED
  BY <1>0, <1>1, <1>2, <1>3, LocalKeeps DEF FlushAssessment, Before

LEMMA FlushCaseKeeps ==
  ASSUME RiskInv, NEW r \in Clients, FlushCase(r)
  PROVE  RiskInv'
<1>0. run[r] \in Run /\ run \in [Clients -> Run] /\ run[r].pc = "opening" /\ RunFits(r, run[r])
  BY DEF FlushCase, RiskInv, TypeOK
<1> DEFINE k == [run[r] EXCEPT !.pc = "commit", !.opened = TRUE,
                               !.logs = run[r].logs \union {"AGENT_TRIGGERED"}]
<1>1. /\ k \in Run /\ k.pc = "commit" /\ k.at = run[r].at /\ k.opened = TRUE
      /\ k.logs = {"SCORED", "AGENT_TRIGGERED"} /\ k.probability = run[r].probability
  BY <1>0 DEF Run, PCs, Actions, RunFits
<1>2. run' = [run EXCEPT ![r] = k]
  BY <1>0 DEF FlushCase
<1> HIDE DEF k
<1>3. RunFits(r, k)
  BY <1>0, <1>1 DEF RunFits, Before
<1> QED
  BY <1>0, <1>1, <1>2, <1>3, LocalKeeps DEF FlushCase, Before

LEMMA SelectAssessmentKeeps ==
  ASSUME RiskInv, NEW r \in Clients, NEW c \in Customers, SelectAssessment(r, c)
  PROVE  RiskInv'
<1>0. PICK a \in Latest(c) :
        run' = [run EXCEPT ![r] = [Idle EXCEPT !.pc = "selected", !.customer = c,
                                               !.at = a.at, !.probability = a.probability]]
  BY DEF SelectAssessment
<1> DEFINE k == [Idle EXCEPT !.pc = "selected", !.customer = c,
                             !.at = a.at, !.probability = a.probability]
<1>1. /\ a \in assessments /\ a.customer = c /\ a.at \in Stamps /\ a.probability \in Probabilities
      /\ \A b \in assessments : b.customer = c => b.at <= a.at
  BY DEF Latest, RiskInv, TypeOK, Assessment
<1>1a. a.at \in 0..MaxPosts /\ "selected" \in PCs
  BY <1>1 DEF PCs, Stamps
<1>2. /\ k \in Run /\ k.pc = "selected" /\ k.customer = c /\ k.at = a.at
      /\ k.probability = a.probability
  BY <1>1, <1>1a, IdleFits DEF Run
<1>3. run' = [run EXCEPT ![r] = k]
  BY <1>0
<1> HIDE DEF k
<1>4. a.at >= knows[r][c]
  BY <1>1 DEF RiskInv, KnowsCommitted, TypeOK, Stamps
<1>5. RunFits(r, k)
  BY <1>1, <1>2, <1>4 DEF RunFits, Before
<1> QED
  BY <1>2, <1>3, <1>5, LocalKeeps DEF SelectAssessment, Before

\* An assessment above the threshold has its case, when the case is looked for.
LEMMA CaseIsThere ==
  ASSUME RiskInv, NEW a \in assessments, a.probability > risk_trigger_threshold
  PROVE  a.at \in cases
<1>1. PICK score \in Scores :
        a.probability = Rounded(score) /\ (a.at \in cases <=> score > risk_trigger_threshold)
  BY DEF RiskInv, StoredTogether
<1> QED
  BY <1>1, RoundedBounds

LEMMA SelectCaseKeeps ==
  ASSUME RiskInv, NEW r \in Clients, SelectCase(r)
  PROVE  RiskInv'
<1>0. run[r] \in Run /\ run \in [Clients -> Run] /\ run[r].pc = "selected" /\ RunFits(r, run[r])
  BY DEF SelectCase, RiskInv, TypeOK
<1> DEFINE found == run[r].at \in cases
           k == [run[r] EXCEPT !.pc = "answer", !.found = found]
<1>1a. found \in BOOLEAN /\ (run[r].at \in cases => found = TRUE) /\ "answer" \in PCs
  BY DEF PCs
<1>2. run' = [run EXCEPT ![r] = k]
  BY <1>0 DEF SelectCase
<1> HIDE DEF found
<1>1. /\ k \in Run /\ k.pc = "answer" /\ k.at = run[r].at /\ k.customer = run[r].customer
      /\ k.probability = run[r].probability /\ k.found = found
  BY <1>0, <1>1a DEF Run
<1> HIDE DEF k
<1>3. run[r].probability > risk_trigger_threshold => run[r].at \in cases
  BY <1>0, CaseIsThere DEF RunFits
<1>4. RunFits(r, k)
  BY <1>0, <1>1a, <1>1, <1>3 DEF RunFits, Before
<1> QED
  BY <1>0, <1>1, <1>2, <1>4, LocalKeeps DEF SelectCase, Before

\* A new transaction has a number of its own.
LEMMA BeginKeeps ==
  ASSUME RiskInv, NEW r \in Clients, NEW c \in Customers, NEW channel \in Channels,
         Begin(r, c, channel)
  PROVE  RiskInv'
<1> DEFINE k == [Idle EXCEPT !.pc = "begun", !.customer = c, !.channel = channel,
                             !.at = clock + 1]
<1>0. clock \in 0..MaxPosts /\ clock < MaxPosts /\ clock' = clock + 1 /\ run \in [Clients -> Run]
  BY DEF Begin, RiskInv, TypeOK
<1>1a. /\ clock + 1 \in 0..MaxPosts /\ "begun" \in PCs /\ channel \in {"rest", "mcp"}
       /\ Idle.logs = {} /\ Idle.opened = FALSE
  BY <1>0 DEF PCs, Idle
<1>1. /\ k \in Run /\ k.pc = "begun" /\ k.at = clock + 1 /\ k.logs = {} /\ k.opened = FALSE
  BY <1>1a, IdleFits DEF Run
<1>2. run' = [run EXCEPT ![r] = k] /\ UNCHANGED <<assessments, cases, audit, task, knows>>
  BY DEF Begin
<1> HIDE DEF k
<1>3. TypeOK'
  BY <1>0, <1>1, <1>2 DEF RiskInv, TypeOK
<1>4. StoredTogether' /\ KnowsCommitted'
  BY <1>2 DEF RiskInv, StoredTogether, KnowsCommitted, Stamps
<1>5. HasLatest'
  BY <1>2 DEF RiskInv, HasLatest, Latest
<1>6. Numbered' /\ \A a \in assessments : a.at # clock + 1
  BY <1>0, <1>2 DEF RiskInv, Numbered, TypeOK, Assessment, Stamps
<1>7. Apart'
  <2>1. ASSUME NEW s \in Clients, run[s].pc \in Before PROVE run[s].at # clock + 1
    BY <1>0, <2>1 DEF RiskInv, RunFits
  <2> QED
    BY <1>0, <1>1, <1>2, <2>1 DEF RiskInv, Apart
<1>8. ASSUME NEW s \in Clients PROVE RunFits(s, run[s])'
  <2>1. CASE s = r
    <3>1. run'[s] = k
      BY <1>0, <1>2, <2>1
    <3> QED
      BY <1>0, <1>1, <1>2, <1>6, <3>1 DEF RunFits, Before
  <2>2. CASE s # r
    <3>1. run'[s] = run[s] /\ RunFits(s, run[s])
      BY <1>0, <1>2, <2>2 DEF RiskInv
    <3> QED
      BY <1>0, <1>2, <3>1 DEF RunFits
  <2> QED
    BY <2>1, <2>2
<1> QED
  BY <1>3, <1>4, <1>5, <1>6, <1>7, <1>8 DEF RiskInv
\* What a transaction stores is complete, and new.
LEMMA StoreKeeps ==
  ASSUME RiskInv, NEW r \in Clients, run[r].pc = "commit", Store(r),
         NEW k \in Run, run' = [run EXCEPT ![r] = k], UNCHANGED <<clock, task, knows>>,
         k = Idle \/ k = [run[r] EXCEPT !.pc = "committed"]
  PROVE  RiskInv'
<1> DEFINE i == run[r].at
           p == run[r].probability
           b == [at |-> i, customer |-> run[r].customer, probability |-> Rounded(p),
                 flag |-> ClassifyRiskFlag(p), prior |-> run[r].prior]
<1>0. run[r] \in Run /\ run \in [Clients -> Run] /\ RunFits(r, run[r]) /\ clock \in 0..MaxPosts
  BY DEF RiskInv, TypeOK
<1>1. /\ i \in 1..clock /\ i \in Stamps /\ p \in Scores /\ p \in Probabilities
      /\ \A a \in assessments : a.at # i
  BY <1>0 DEF RunFits, Before, Stamps
<1>2. i \notin cases /\ <<"AGENT_TRIGGERED", i, 0>> \notin audit
  BY <1>1 DEF RiskInv, StoredTogether
<1>3. /\ b \in Assessment /\ b.at = i /\ b.customer = run[r].customer
      /\ b.probability = Rounded(p)
  BY <1>0, <1>1, RoundedBounds, FlagAllowed DEF Run, Assessment
<1>4. assessments' = assessments \union {b}
  BY DEF Store
<1> HIDE DEF b
<1>5. \/ /\ cases' = cases \union {i} /\ p > risk_trigger_threshold
         /\ audit' = audit \union {<<"SCORED", i, p>>, <<"AGENT_TRIGGERED", i, 0>>}
      \/ /\ cases' = cases /\ ~(p > risk_trigger_threshold)
         /\ audit' = audit \union {<<"SCORED", i, p>>}
  <2>1. CASE run[r].opened = TRUE /\ run[r].logs = {"SCORED", "AGENT_TRIGGERED"}
    BY <1>0, <2>1 DEF Store, Detail, RunFits
  <2>2. CASE run[r].opened = FALSE /\ run[r].logs = {"SCORED"}
    BY <1>0, <2>2 DEF Store, Detail, RunFits
  <2> QED
    BY <1>0, <2>1, <2>2 DEF RunFits
<1>6. TypeOK'
  BY <1>0, <1>1, <1>3, <1>4, <1>5 DEF RiskInv, TypeOK, Actions
<1>7. StoredTogether'
  <2>1. ASSUME NEW a \in assessments'
        PROVE  \E score \in Scores :
                 /\ <<"SCORED", a.at, score>> \in audit'
                 /\ a.probability = Rounded(score)
                 /\ a.at \in cases' <=> score > risk_trigger_threshold
    <3>1. CASE a = b
      BY <1>1, <1>2, <1>3, <1>5, <3>1
    <3>2. CASE a \in assessments
      <4>1. PICK score \in Scores :
              /\ <<"SCORED", a.at, score>> \in audit
              /\ a.probability = Rounded(score)
              /\ a.at \in cases <=> score > risk_trigger_threshold
        BY <3>2 DEF RiskInv, StoredTogether
      <4>2. a.at # i
        BY <1>1, <3>2
      <4> QED
        BY <1>5, <4>1, <4>2
    <3> QED
      BY <1>4, <3>1, <3>2
  <2>2. ASSUME NEW j \in Stamps
        PROVE  j \in cases' <=> <<"AGENT_TRIGGERED", j, 0>> \in audit'
    <3>1. j \in cases <=> <<"AGENT_TRIGGERED", j, 0>> \in audit
      BY DEF RiskInv, StoredTogether
    <3> QED
      BY <1>2, <1>5, <3>1
  <2>3. \A j \in cases' : \E a \in assessments' : a.at = j
    BY <1>3, <1>4, <1>5 DEF RiskInv, StoredTogether
  <2>4. \A j \in Stamps : task'[j] \in {"queued", "running", "done"} => j \in cases'
    BY <1>5 DEF RiskInv, StoredTogether
  <2> QED
    BY <2>1, <2>2, <2>3, <2>4 DEF StoredTogether, Stamps
<1>8. Numbered' /\ KnowsCommitted'
  BY <1>1, <1>3, <1>4 DEF RiskInv, Numbered, KnowsCommitted
<1>9. HasLatest'
  <2> SUFFICES ASSUME NEW c \in Customers, NEW a \in assessments', a.customer = c
               PROVE  \E m \in assessments' : m \in Latest(c)'
    BY DEF HasLatest
  <2>1. CASE b.customer # c
    <3>1. a \in assessments
      BY <1>4, <2>1
    <3>2. PICK m \in assessments : m \in Latest(c)
      BY <3>1 DEF RiskInv, HasLatest
    <3> QED
      BY <1>4, <2>1, <3>2 DEF Latest
  <2>2. CASE b.customer = c /\ \E m \in assessments : m.customer = c
    <3>1. PICK m \in assessments : m \in Latest(c)
      BY <2>2 DEF RiskInv, HasLatest
    <3>2. m.at \in Stamps /\ b.at \in Stamps /\ \A n \in assessments : n.at \in Stamps
      BY <1>3 DEF RiskInv, TypeOK, Assessment
    <3>3. CASE m.at >= b.at
      BY <1>4, <3>1, <3>2, <3>3 DEF Latest, Stamps
    <3>4. CASE m.at < b.at
      BY <1>4, <2>2, <3>1, <3>2, <3>4 DEF Latest, Stamps
    <3> QED
      BY <3>2, <3>3, <3>4 DEF Stamps
  <2>3. CASE b.customer = c /\ ~ \E m \in assessments : m.customer = c
    BY <1>1, <1>3, <1>4, <2>3 DEF Latest
  <2> QED
    BY <2>1, <2>2, <2>3
<1>10. k.pc \notin Before
  BY <1>0, IdleFits DEF Before, Run
<1>11. Apart'
  BY <1>0, <1>10 DEF RiskInv, Apart
<1>12. ASSUME NEW s \in Clients PROVE RunFits(s, run[s])'
  <2>1. CASE s # r
    <3>1. run'[s] = run[s] /\ RunFits(s, run[s])
      BY <1>0, <2>1 DEF RiskInv
    <3>2. run[s].pc \in Before => run[s].at # i
      BY <2>1 DEF RiskInv, Apart, Before
    <3>3. assessments \subseteq assessments' /\ cases \subseteq cases'
      BY <1>4, <1>5
    <3>4. run[s].pc \in Before => \A a \in assessments' : a.at # run[s].at
      BY <1>3, <1>4, <3>1, <3>2 DEF RunFits
    <3> QED
      BY <3>1, <3>3, <3>4 DEF RunFits
  <2>2. CASE s = r /\ k = Idle
    <3>1. run'[s] = Idle
      BY <1>0, <2>2
    <3> QED
      BY <3>1, IdleFits DEF RunFits, Before
  <2>3. CASE s = r /\ k = [run[r] EXCEPT !.pc = "committed"]
    <3>1. /\ run'[s] = k /\ k.pc = "committed" /\ k.at = i /\ k.customer = run[r].customer
          /\ k.opened = run[r].opened
      BY <1>0, <2>3 DEF Run
    <3>2. run[r].opened = TRUE => i \in cases'
      BY DEF Store
    <3> QED
      BY <1>3, <1>4, <3>1, <3>2 DEF RunFits, Before
  <2> QED
    BY <2>1, <2>2, <2>3
<1> QED
  BY <1>6, <1>7, <1>8, <1>9, <1>11, <1>12 DEF RiskInv
-----------------------------------------------------------------------------

\* Tasks are for stored cases.
TasksFit(t) ==
  /\ t \in [Stamps -> {"none", "queued", "running", "done", "lost"}]
  /\ \A i \in Stamps : t[i] \in {"queued", "running", "done"} => i \in cases

\* Steps that neither begin a transaction nor store anything.
LEMMA QuietKeeps ==
  ASSUME RiskInv, UNCHANGED <<clock, assessments, cases, audit>>, TasksFit(task'),
         run' \in [Clients -> Run], knows' \in [Clients -> [Customers -> 0..MaxPosts]],
         KnowsCommitted', \A s \in Clients : RunFits(s, run[s])',
         \A s \in Clients :
           run'[s].pc \in Before => run[s].pc \in Before /\ run'[s].at = run[s].at
  PROVE  RiskInv'
<1>1. TypeOK'
  BY DEF RiskInv, TypeOK, TasksFit
<1>2. StoredTogether'
  BY DEF RiskInv, StoredTogether, TasksFit, Stamps
<1>3. Numbered' /\ HasLatest'
  BY DEF RiskInv, Numbered, HasLatest, Latest
<1>4. Apart'
  BY DEF RiskInv, Apart
<1> QED
  BY <1>1, <1>2, <1>3, <1>4 DEF RiskInv

\* A client is told of a committed assessment.
LEMMA ToldKeeps ==
  ASSUME RiskInv, NEW r \in Clients, Rest(r), Tell(r, run[r].at), TasksFit(task'),
         UNCHANGED <<clock, assessments, cases, audit>>,
         \E a \in assessments : a.at = run[r].at /\ a.customer = run[r].customer
  PROVE  RiskInv'
<1>0. /\ run \in [Clients -> Run] /\ knows \in [Clients -> [Customers -> 0..MaxPosts]]
      /\ run[r].customer \in Customers /\ run[r].at \in 0..MaxPosts
  BY DEF RiskInv, TypeOK, Run
<1>1. run' = [run EXCEPT ![r] = Idle] /\ run' \in [Clients -> Run]
  BY <1>0, IdleFits DEF Rest
<1>2. knows' \in [Clients -> [Customers -> 0..MaxPosts]]
  BY <1>0 DEF Tell
<1>3. \A s \in Clients, c \in Customers :
        knows'[s][c] = IF s = r /\ c = run[r].customer THEN run[r].at ELSE knows[s][c]
  BY <1>0 DEF Tell
<1>4. KnowsCommitted'
  BY <1>3 DEF RiskInv, KnowsCommitted
<1>5. ASSUME NEW s \in Clients PROVE RunFits(s, run[s])'
  <2>1. CASE s = r
    BY <1>0, <1>1, <2>1, IdleFits DEF RunFits, Before
  <2>2. CASE s # r
    <3>1. run'[s] = run[s] /\ RunFits(s, run[s]) /\ run[s].customer \in Customers
      BY <1>0, <1>1, <2>2 DEF RiskInv, Run
    <3>2. knows'[s][run[s].customer] = knows[s][run[s].customer]
      BY <1>3, <2>2, <3>1
    <3> QED
      BY <3>1, <3>2 DEF RunFits
  <2> QED
    BY <2>1, <2>2
<1>6. \A s \in Clients :
        run'[s].pc \in Before => run[s].pc \in Before /\ run'[s].at = run[s].at
  BY <1>0, <1>1, IdleFits DEF Before
<1> QED
  BY <1>1, <1>2, <1>4, <1>5, <1>6, QuietKeeps

LEMMA AnswerKeeps ==
  ASSUME RiskInv, NEW r \in Clients, Answer(r)
  PROVE  RiskInv'
<1>1. TasksFit(task')
  BY DEF Answer, RiskInv, TypeOK, StoredTogether, TasksFit
<1>2. \E a \in assessments : a.at = run[r].at /\ a.customer = run[r].customer
  BY DEF Answer, RiskInv, RunFits
<1> QED
  BY <1>1, <1>2, ToldKeeps DEF Answer

LEMMA RespondKeeps ==
  ASSUME RiskInv, NEW r \in Clients, Respond(r)
  PROVE  RiskInv'
<1>0. /\ run[r] \in Run /\ run \in [Clients -> Run] /\ RunFits(r, run[r])
      /\ run[r].pc = "committed" /\ UNCHANGED <<clock, assessments, cases, audit>>
      /\ TasksFit(task)
  BY DEF Respond, RiskInv, TypeOK, StoredTogether, TasksFit
<1>1. \E a \in assessments : a.at = run[r].at /\ a.customer = run[r].customer
  BY <1>0 DEF RunFits
<1>2. run[r].at \in Stamps
  BY <1>1 DEF RiskInv, TypeOK, Assessment
<1>3. TasksFit(task')
  <2>1. CASE run[r].opened
    <3>1. run[r].at \in cases /\ task' = [task EXCEPT ![run[r].at] = "queued"]
      BY <1>0, <2>1 DEF Respond, RunFits, Run
    <3> QED
      BY <1>0, <1>2, <3>1 DEF TasksFit
  <2>2. CASE ~run[r].opened
    BY <1>0, <2>2 DEF Respond
  <2> QED
    BY <2>1, <2>2
<1>4. CASE Rest(r) /\ Tell(r, run[r].at)
  BY <1>0, <1>1, <1>3, <1>4, ToldKeeps
<1>5. CASE run' = [run EXCEPT ![r].pc = "waiting"] /\ UNCHANGED knows
  <2> DEFINE k == [run[r] EXCEPT !.pc = "waiting"]
  <2>1. /\ k \in Run /\ k.pc = "waiting" /\ k.at = run[r].at /\ k.customer = run[r].customer
        /\ k.opened = run[r].opened
    BY <1>0 DEF Run, PCs
  <2>2. run' = [run EXCEPT ![r] = k]
    BY <1>0, <1>5
  <2> HIDE DEF k
  <2>3. run' \in [Clients -> Run] /\ knows' \in [Clients -> [Customers -> 0..MaxPosts]]
    BY <1>0, <1>5, <2>1, <2>2 DEF RiskInv, TypeOK
  <2>4. KnowsCommitted'
    BY <1>0, <1>5 DEF RiskInv, KnowsCommitted
  <2>5. ASSUME NEW s \in Clients PROVE RunFits(s, run[s])'
    <3>1. CASE s = r
      <4>1. run'[s] = k
        BY <1>0, <2>2, <3>1
      <4> QED
        BY <1>0, <2>1, <4>1 DEF RunFits, Before
    <3>2. CASE s # r
      <4>1. RunFits(s, run[s])
        BY DEF RiskInv
      <4>2. run'[s] = run[s]
        BY <1>0, <2>2, <3>2
      <4>3. clock' = clock /\ assessments' = assessments /\ cases' = cases /\ knows' = knows
        BY <1>0, <1>5
      <4> QED
        BY <4>1, <4>2, <4>3 DEF RunFits
    <3> QED
      BY <3>1, <3>2
  <2>6. \A s \in Clients :
          run'[s].pc \in Before => run[s].pc \in Before /\ run'[s].at = run[s].at
    BY <1>0, <2>1, <2>2 DEF Before
  <2> QED
    BY <1>0, <1>3, <2>3, <2>4, <2>5, <2>6, QuietKeeps
<1> QED
  BY <1>4, <1>5 DEF Respond

LEMMA LaunchKeeps ==
  ASSUME RiskInv, NEW i \in Stamps, Launch(i)
  PROVE  RiskInv'
<1>1. TasksFit(task')
  BY DEF Launch, RiskInv, TypeOK, StoredTogether, TasksFit
<1>2. KnowsCommitted' /\ \A s \in Clients : RunFits(s, run[s])'
  BY DEF Launch, RiskInv, KnowsCommitted, RunFits
<1> QED
  BY <1>1, <1>2, QuietKeeps DEF Launch, RiskInv, TypeOK

LEMMA WorkflowEndsKeeps ==
  ASSUME RiskInv, NEW i \in Stamps, WorkflowEnds(i)
  PROVE  RiskInv'
<1> DEFINE waiting == {r \in Clients : run[r].pc = "waiting" /\ run[r].at = i}
<1>0. /\ UNCHANGED <<clock, assessments, cases, audit>>
      /\ run' = [r \in Clients |-> IF r \in waiting THEN Idle ELSE run[r]]
      /\ task[i] = "running" /\ task' = [task EXCEPT ![i] = "done"]
  BY DEF WorkflowEnds
<1>1. PICK raised \in BOOLEAN :
        knows' = [r \in Clients |->
                    IF r \in waiting /\ ~raised
                    THEN [knows[r] EXCEPT ![run[r].customer] = i] ELSE knows[r]]
  BY DEF WorkflowEnds
<1>2. TasksFit(task')
  BY <1>0 DEF RiskInv, TypeOK, StoredTogether, TasksFit
<1>3. /\ run \in [Clients -> Run] /\ run' \in [Clients -> Run]
      /\ \A s \in Clients : run[s].customer \in Customers
  BY <1>0, IdleFits DEF RiskInv, TypeOK, Run
<1>4. knows \in [Clients -> [Customers -> 0..MaxPosts]] /\ i \in 0..MaxPosts
  BY DEF RiskInv, TypeOK, Stamps
<1>5. knows' \in [Clients -> [Customers -> 0..MaxPosts]]
  BY <1>1, <1>3, <1>4
<1>6. ASSUME NEW s \in Clients, s \notin waiting PROVE knows'[s] = knows[s] /\ run'[s] = run[s]
  BY <1>0, <1>1, <1>6
<1>7. ASSUME NEW s \in Clients, NEW c \in Customers
      PROVE  \/ knows'[s][c] = knows[s][c]
             \/ s \in waiting /\ c = run[s].customer /\ knows'[s][c] = i
  <2>1. CASE s \in waiting /\ ~raised
    <3>1. knows'[s] = [knows[s] EXCEPT ![run[s].customer] = i]
      BY <1>1, <2>1
    <3>2. knows[s] \in [Customers -> 0..MaxPosts]
      BY <1>4
    <3>3. c = run[s].customer => knows'[s][c] = i
      BY <3>1, <3>2
    <3>4. c # run[s].customer => knows'[s][c] = knows[s][c]
      BY <3>1, <3>2
    <3> QED
      BY <2>1, <3>3, <3>4
  <2>2. CASE ~(s \in waiting /\ ~raised)
    <3>1. knows'[s] = knows[s]
      BY <1>1, <2>2
    <3> QED
      BY <3>1
  <2> QED
    BY <2>1, <2>2
<1>8. \A s \in waiting : \E a \in assessments : a.at = i /\ a.customer = run[s].customer
  BY DEF RiskInv, RunFits
<1>9. KnowsCommitted'
  BY <1>0, <1>7, <1>8 DEF RiskInv, KnowsCommitted
<1>10. ASSUME NEW s \in Clients PROVE RunFits(s, run[s])'
  <2>1. CASE s \in waiting
    BY <1>0, <2>1, IdleFits DEF RunFits, Before
  <2>2. CASE s \notin waiting
    BY <1>0, <1>6, <2>2 DEF RiskInv, RunFits
  <2> QED
    BY <2>1, <2>2
<1>11. \A s \in Clients :
         run'[s].pc \in Before => run[s].pc \in Before /\ run'[s].at = run[s].at
  BY <1>0, IdleFits DEF Before
<1> QED
  BY <1>0, <1>2, <1>3, <1>5, <1>9, <1>10, <1>11, QuietKeeps

LEMMA CrashKeeps ==
  ASSUME RiskInv, Crash
  PROVE  RiskInv'
<1>0. /\ UNCHANGED <<clock, assessments, cases, audit, knows>>
      /\ run' = [r \in Clients |-> Idle] /\ run' \in [Clients -> Run]
  BY IdleFits DEF Crash
<1>1. TasksFit(task')
  <2>1. task' = [i \in Stamps |->
          IF task[i] \in {"queued", "running"} \/ Owed(i) THEN "lost" ELSE task[i]]
    BY DEF Crash
  <2> QED
    BY <2>1 DEF RiskInv, TypeOK, StoredTogether, TasksFit
<1>2. KnowsCommitted' /\ knows' \in [Clients -> [Customers -> 0..MaxPosts]]
  BY <1>0 DEF RiskInv, TypeOK, KnowsCommitted
<1>3. \A s \in Clients : RunFits(s, run[s])'
  BY <1>0, IdleFits DEF RunFits, Before
<1> QED
  BY <1>0, <1>1, <1>2, <1>3, IdleFits, QuietKeeps DEF Before

-----------------------------------------------------------------------------

LEMMA RiskInvStarts == Init => RiskInv
<1> SUFFICES ASSUME Init PROVE RiskInv
  OBVIOUS
<1>1. TypeOK
  BY IdleFits DEF Init, TypeOK
<1>2. StoredTogether /\ Numbered /\ KnowsCommitted /\ HasLatest
  BY DEF Init, StoredTogether, Numbered, KnowsCommitted, HasLatest
<1>3. Apart /\ \A r \in Clients : RunFits(r, run[r])
  BY IdleFits DEF Init, Apart, Before
<1> QED
  BY <1>1, <1>2, <1>3 DEF RiskInv

\* The invariant is inductive.
LEMMA RiskInvStep == RiskInv /\ [Next]_vars => RiskInv'
<1> SUFFICES ASSUME RiskInv, [Next]_vars PROVE RiskInv'
  OBVIOUS
<1>1. ASSUME NEW r \in Clients, NEW c \in Customers, NEW channel \in Channels,
             Begin(r, c, channel)
      PROVE  RiskInv'
  BY <1>1, BeginKeeps
<1>2. ASSUME NEW r \in Clients, NEW c \in Customers, SelectAssessment(r, c) PROVE RiskInv'
  BY <1>2, SelectAssessmentKeeps
<1>3. ASSUME NEW r \in Clients, Proceed(r) PROVE RiskInv'
  <2>1. CASE Commit(r)
    <3> DEFINE k == [run[r] EXCEPT !.pc = "committed"]
    <3>1. k \in Run /\ run' = [run EXCEPT ![r] = k]
      <4>1. run \in [Clients -> Run] /\ run[r] \in Run
        BY DEF RiskInv, TypeOK
      <4>2. k \in Run
        BY <4>1 DEF Run, PCs
      <4>3. run' = [run EXCEPT ![r] = k]
        BY <2>1, <4>1 DEF Commit
      <4> QED
        BY <4>2, <4>3
    <3> QED
      BY <2>1, <3>1, StoreKeeps DEF Commit
  <2> QED
    BY <1>3, <2>1, FetchFeaturesKeeps, FlushAssessmentKeeps, FlushCaseKeeps, RespondKeeps,
       SelectCaseKeeps, AnswerKeeps DEF Proceed
<1>4. ASSUME NEW i \in Stamps, Launch(i) \/ WorkflowEnds(i) PROVE RiskInv'
  BY <1>4, LaunchKeeps, WorkflowEndsKeeps
<1>5. ASSUME NEW r \in Clients, DbFails(r) PROVE RiskInv'
  BY <1>5, RestKeeps DEF DbFails
<1>6. ASSUME NEW r \in Clients, CommitAckLost(r) PROVE RiskInv'
  BY <1>6, IdleFits, StoreKeeps DEF CommitAckLost, Rest
<1>7. CASE Crash
  BY <1>7, CrashKeeps
<1>8. CASE UNCHANGED vars
  <2>1. TypeOK' /\ StoredTogether'
    BY <1>8 DEF vars, RiskInv, TypeOK, StoredTogether, Stamps
  <2>2. Apart' /\ Numbered' /\ KnowsCommitted' /\ HasLatest'
    BY <1>8 DEF vars, RiskInv, Apart, Numbered, KnowsCommitted, HasLatest, Latest
  <2>3. \A r \in Clients : RunFits(r, run[r])'
    BY <1>8 DEF vars, RiskInv, RunFits
  <2> QED
    BY <2>1, <2>2, <2>3 DEF RiskInv
<1> QED
  BY <1>1, <1>2, <1>3, <1>4, <1>5, <1>6, <1>7, <1>8 DEF Next

LEMMA RiskInvHolds == Spec => []RiskInv
BY RiskInvStarts, RiskInvStep, PTL DEF Spec

-----------------------------------------------------------------------------

\* Type correctness of the risk endpoints, their tables and their tasks.
THEOREM RiskTypeCorrect == Spec => []TypeOK
<1>1. RiskInv => TypeOK
  BY DEF RiskInv
<1> QED
  BY <1>1, RiskInvHolds, PTL

\* Whatever fails half-way, and however requests overlap, an assessment, its case and
\* their audit rows are stored together, and workflows are queued for stored cases only.
THEOREM AlwaysStoredTogether == Spec => []StoredTogether
<1>1. RiskInv => StoredTogether
  BY DEF RiskInv
<1> QED
  BY <1>1, RiskInvHolds, PTL

\* A GET that answers with a score above the threshold has found the case, although it
\* looks for it in a second query.
THEOREM AnswerAlwaysShowsCase == Spec => []AnswerShowsCase
<1>1. RiskInv => AnswerShowsCase
  BY DEF RiskInv, RunFits, AnswerShowsCase
<1> QED
  BY <1>1, RiskInvHolds, PTL

\* In whatever order concurrent transactions commit, a client never reads, nor is scored
\* with, an assessment older than one it was told of.
THEOREM ReadsNeverGoBackHolds == Spec => []ReadsNeverGoBack
<1>1. RiskInv => ReadsNeverGoBack
  BY DEF RiskInv, RunFits, ReadsNeverGoBack
<1> QED
  BY <1>1, RiskInvHolds, PTL
===============================================================================

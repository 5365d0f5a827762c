------------------------------- MODULE Retriever -------------------------------
(***************************************************************************)
(* The policy retriever (src/app/rag/retriever.py): the lazily built       *)
(* default retriever, shared by the threads that run retrieve_context and  *)
(* by the MCP resource, and its two queries.                               *)
(*                                                                         *)
(* How documents are cut into chunks is in PolicyChunks.tla; here a        *)
(* document is a sequence of parents, and a parent has a number of         *)
(* children.  The TF-IDF cosine of each child with the query is any number *)
(* up to MaxScore, zero for all of them when the query has no vocabulary.  *)
(***************************************************************************)
EXTENDS SequencesExt

CONSTANTS Threads,
          States,         \* state codes
          Document,       \* the parents of each document, a state's or "general"
          ChildrenOf,     \* the number of children of each parent
          K,              \* k
          MaxScore,
          MayFail         \* reading a document may raise OSError

Sources == DOMAIN Document

ParentsOf(sources) == UNION {Range(Document[d]) : d \in sources}

AllParents == ParentsOf(Sources)

\* No state's document has the name of the general one, and no parent is in two places.
ASSUME CorpusAssumption ==
  /\ "general" \in Sources /\ "general" \notin States /\ States # {}
  /\ \A d \in Sources : Document[d] \in Seq(Range(Document[d])) /\ IsInjective(Document[d])
  /\ \A d, e \in Sources : d # e => Range(Document[d]) \intersect Range(Document[e]) = {}
  /\ ChildrenOf \in [AllParents -> Nat \ {0}]
  /\ K \in Nat \ {0} /\ MaxScore \in Nat /\ MayFail \in BOOLEAN

\* The state's document, if there is one, before the general one.
ScopedSources(state) == IF state \in Sources THEN <<state, "general">> ELSE <<"general">>

\* The children of the parents in sequence ps, with their parents.
ChildrenIn(ps) == UNION {{p} \X (1..ChildrenOf[p]) : p \in Range(ps)}

VARIABLES default,    \* _default_retriever: None, or the documents of its object
          call        \* what each thread does

vars == <<default, call>>

None == {}

Ops == {"retrieve_policies", "get_state_policies"}

\* idle: no call, or a call returned; loading: building a retriever; query: it has one.
\* stopwords: the query has only stop words; built: the documents of the retriever the
\* call uses.
Idle == [pc |-> "idle", op |-> "get_state_policies", state |-> CHOOSE s \in States : TRUE,
         stopwords |-> FALSE, built |-> {}, score |-> <<>>, result |-> <<>>]

\* The documents a retriever has, in scope order, as one sequence of parents.
Scope(c) == FlattenSeq([i \in DOMAIN ScopedSources(c.state) |->
              IF ScopedSources(c.state)[i] \in c.built
              THEN Document[ScopedSources(c.state)[i]] ELSE <<>>])

TypeOK ==
  /\ default \subseteq Sources
  /\ \A t \in Threads :
       /\ call[t].pc \in {"idle", "loading", "query", "done"}
       /\ call[t].op \in Ops /\ call[t].state \in States
       /\ call[t].built \subseteq Sources
       /\ Range(call[t].result) \subseteq AllParents

-----------------------------------------------------------------------------

\* get_retriever: the default one, or a new one.
GetRetriever(t, op, state, stopwords) ==
  /\ call[t].pc = "idle"
  /\ op = "get_state_policies" => ~stopwords
  /\ call' = [call EXCEPT ![t] =
       [Idle EXCEPT !.pc = IF default = None THEN "loading" ELSE "query",
                    !.op = op, !.state = state, !.stopwords = stopwords, !.built = default]]
  /\ UNCHANGED default

\* Mutant of LoadDocument: the object is the default one from its first document on.
LoadDocumentPublishing(t, d) ==
  /\ call[t].pc = "loading" /\ d \notin call[t].built
  /\ call' = [call EXCEPT ![t].built = @ \union {d}]
  /\ default' = call[t].built \union {d}

\* _load_documents, one document at a time ...
LoadDocument(t, d) ==
  /\ call[t].pc = "loading" /\ d \notin call[t].built
  /\ call' = [call EXCEPT ![t].built = @ \union {d}]
  /\ UNCHANGED default

\* ... an OSError in it leaves the default retriever as it is ...
LoadFails(t) ==
  /\ MayFail
  /\ call[t].pc = "loading" /\ call[t].built # Sources
  /\ call' = [call EXCEPT ![t] = Idle]
  /\ UNCHANGED default

\* ... and the finished object becomes the default, possibly replacing another's.
Publish(t) ==
  /\ call[t].pc = "loading" /\ call[t].built = Sources
  /\ default' = call[t].built
  /\ call' = [call EXCEPT ![t].pc = "query"]

\* Mutant of Rankings: the k worst.
RankingsAscending(children, score) ==
  LET n == IF Cardinality(children) < K THEN Cardinality(children) ELSE K
  IN {r \in [1..n -> children] :
        /\ IsInjective(r)
        /\ \A i \in 2..n : score[r[i - 1]] <= score[r[i]]
        /\ \A c \in children \ Range(r), i \in 1..n : score[r[i]] <= score[c]}

\* The k best children, in the order of their scores: equal scores in any order.
Rankings(children, score) ==
  LET n == IF Cardinality(children) < K THEN Cardinality(children) ELSE K
  IN {r \in [1..n -> children] :
        /\ IsInjective(r)
        /\ \A i \in 2..n : score[r[i - 1]] >= score[r[i]]
        /\ \A c \in children \ Range(r), i \in 1..n : score[r[i]] >= score[c]}

\* Mutants of ParentsRanked: the children themselves ...
ParentsRankedAsChildren(ranking, score) == SelectSeq(ranking, LAMBDA c : score[c] > 0)

\* ... or a higher bar.
ParentsRankedStrictly(ranking, score) ==
  FoldLeft(LAMBDA seen, c :
             IF score[c] <= 1 \/ c[1] \in Range(seen) THEN seen ELSE Append(seen, c[1]),
           <<>>, ranking)

\* The parents of the ranked children that score at all, each once.
ParentsRanked(ranking, score) ==
  FoldLeft(LAMBDA seen, c :
             IF score[c] = 0 \/ c[1] \in Range(seen) THEN seen ELSE Append(seen, c[1]),
           <<>>, ranking)

RetrievePolicies(t) ==
  LET children == ChildrenIn(Scope(call[t]))
  IN /\ call[t].pc = "query" /\ call[t].op = "retrieve_policies"
     /\ \E score \in [children -> IF call[t].stopwords THEN {0} ELSE 0..MaxScore] :
          \E ranking \in Rankings(children, score) :
            call' = [call EXCEPT ![t].pc = "done", ![t].score = score,
                                 ![t].result = ParentsRanked(ranking, score)]
     /\ UNCHANGED default

GetStatePolicies(t) ==
  /\ call[t].pc = "query" /\ call[t].op = "get_state_policies"
  /\ call' = [call EXCEPT ![t].pc = "done", ![t].result = Scope(call[t])]
  /\ UNCHANGED default

Return(t) ==
  /\ call[t].pc = "done"
  /\ call' = [call EXCEPT ![t] = Idle]
  /\ UNCHANGED default

Init == default = None /\ call = [t \in Threads |-> Idle]

Next ==
  \E t \in Threads :
    \/ \E op \in Ops, state \in States, stopwords \in BOOLEAN :
         GetRetriever(t, op, state, stopwords)
    \/ \E d \in Sources : LoadDocument(t, d)
    \/ LoadFails(t) \/ Publish(t)
    \/ RetrievePolicies(t) \/ GetStatePolicies(t) \/ Return(t)

Spec == Init /\ [][Next]_vars

-----------------------------------------------------------------------------

Ranked(t) == call[t].pc = "done" /\ call[t].op = "retrieve_policies"

\* The score of a parent's best child.
Best(t, p) ==
  LET scores == {call[t].score[c] : c \in ChildrenIn(<<p>>)}
  IN CHOOSE s \in scores : \A other \in scores : other <= s

\* A query for one state never surfaces another state's clauses, and
\* get_state_policies returns the scope in full and once, whichever threads were
\* building the default retriever at the time, and however their loading ended.
WholeScopeOnly ==
  \A t \in Threads : call[t].pc = "done" =>
    LET scope == ParentsOf({call[t].state, "general"} \intersect Sources)
    IN /\ Range(call[t].result) \subseteq scope
       /\ IsInjective(call[t].result)
       /\ call[t].op = "get_state_policies" => Range(call[t].result) = scope

\* The parents come in the order of their best children, and none is left out for one
\* that matches less well.
BestParentsFirst ==
  \A t \in Threads : Ranked(t) =>
    LET result == call[t].result
    IN /\ \A i, j \in DOMAIN result : i < j => Best(t, result[i]) >= Best(t, result[j])
       /\ \A p \in Range(Scope(call[t])) \ Range(result), i \in DOMAIN result :
            Best(t, p) <= Best(t, result[i])

\* The drafts are given policy text whenever any of it matches the query.
SomethingRetrieved ==
  \A t \in Threads : Ranked(t) /\ call[t].result = <<>> =>
    \A p \in Range(Scope(call[t])) : Best(t, p) = 0
===============================================================================

---- MODULE LunrIndex ----
(***************************************************************************)
(* The index of lunr (docs/styles/lunr.js): lunr.Builder takes the         *)
(* documents one by one through the tokenizer and the pipeline into the    *)
(* inverted index, build makes the field vectors and the token set, and    *)
(* lunr.Index answers queries.                                             *)
(*                                                                         *)
(* Scores are integers: the weight of a term in a field vector is how      *)
(* often it occurs there, and a document's score the sum of its fields'    *)
(* dot products.  The real weight (BM25) and the real score (a cosine) are *)
(* positive when these are, up to the rounding of a weight to three        *)
(* decimals; the order of the hits is left out.                            *)
(***************************************************************************)
EXTENDS LunrQuery

WordChars == Range(Ascii) \ {" ", "*", "-", ".", ":", "\\", "^", "~"}

\* lunr.tokenizer: lower case, cut at every separator, no empty tokens.
Tokenizer(text, separator) ==
    LET cut(acc, c) ==
            IF c \in separator THEN [done |-> acc.done \o acc.open, open |-> <<>>]
            ELSE [acc EXCEPT !.open = IF @ = <<>> THEN << <<c>> >>
                                      ELSE << Append(@[1], c) >>]
        end == FoldLeft(cut, [done |-> <<>>, open |-> <<>>], ToLowerCase(text))
    IN  end.done \o end.open

\* lunr.trimmer: no characters but word characters at both ends.
Trimmer(token) ==
    LET inner == {i \in DOMAIN token : token[i] \in WordChars}
    IN  IF inner = {} THEN <<>> ELSE SubSeq(token, Min(inner), Max(inner))

\* lunr.stemmer on tokens of the letters a, b, c, k, s, t and digits, where of
\* all of Porter's steps only 1a has a suffix that occurs.
Stemmer(token) ==
    IF /\ Len(token) >= 3
       /\ Last(token) = "s"
       /\ token[Len(token) - 1] # "s"
    THEN Front(token) ELSE token

\* The function of a pipeline with this label, on one token.
\* generateStopWordFilter drops a token that is a stop word.
Process(label, token, stopWords) ==
    CASE label = "trimmer" -> <<Trimmer(token)>>
      [] label = "stemmer" -> <<Stemmer(token)>>
      [] label = "docfxStopWordFilter" ->
             IF token \in stopWords THEN <<>> ELSE <<token>>

\* lunr.Pipeline.prototype.run.
RunPipeline(stack, tokens, stopWords) ==
    FoldLeft(LAMBDA acc, label :
                FlattenSeq([i \in DOMAIN acc |-> Process(label, acc[i], stopWords)]),
             tokens, stack)

-----------------------------------------------------------------------------
(* lunr.Vector: pairs of a term's index and a value, by rising index       *)

\* positionForIndex, counted from 0.
PositionForIndex(vector, index) ==
    LET at(p) == vector[p + 1][1]
        search[s \in 0..Len(vector), e \in 0..Len(vector)] ==
            LET pivot == s + (e - s) \div 2
            IN  IF e - s <= 1 \/ at(pivot) = index THEN pivot
                ELSE IF at(pivot) < index THEN search[pivot, e]
                ELSE search[s, pivot]
        found == search[0, Len(vector)]
    IN  IF vector = <<>> THEN 0
        ELSE IF at(found) < index THEN found + 1 ELSE found

\* upsert: the element in place of what the vector has at index, or before the
\* next one.  combine is a function of the old value and the new.
Upsert(vector, index, value, combine) ==
    LET p == PositionForIndex(vector, index) + 1
    IN  IF p \in DOMAIN vector /\ vector[p][1] = index
        THEN [vector EXCEPT ![p][2] = combine[@, value]]
        ELSE InsertAt(vector, p, <<index, value>>)

\* The value that stands for the "duplicate index" exception of insert.
DuplicateIndex == -1

VectorInsert(vector, index, value) ==
    Upsert(vector, index, value, [old, new \in Nat |-> DuplicateIndex])

\* dot: one merge of the two vectors.
Dot(a, b) ==
    LET from[i \in 1..(Len(a) + 1), j \in 1..(Len(b) + 1)] ==
            IF i > Len(a) \/ j > Len(b) THEN 0
            ELSE IF a[i][1] < b[j][1] THEN from[i + 1, j]
            ELSE IF a[i][1] > b[j][1] THEN from[i, j + 1]
            ELSE a[i][2] * b[j][2] + from[i + 1, j + 1]
    IN  from[1, 1]

-----------------------------------------------------------------------------
(* lunr.Builder                                                            *)

\* lunr(config) up to the call of config; the fields are those config adds.
NewIndexBuilder(fields) ==
    [fields |-> fields, termIndex |-> 0, invertedIndex |-> <<>>,
     fieldTerms |-> <<>>,
     pipeline |-> <<"trimmer", "stopWordFilter", "stemmer">>,
     searchPipeline |-> <<"stemmer">>]

\* One term of a field enters the inverted index.
AddTerm(builder, term, fieldRef) ==
    LET isNew   == term \notin DOMAIN builder.invertedIndex
        posting == IF isNew
                   THEN [index |-> builder.termIndex,
                         docs  |-> [f \in Range(builder.fields) |-> {}]]
                   ELSE builder.invertedIndex[term]
        filed   == [posting EXCEPT !.docs[fieldRef.field] = @ \cup {fieldRef.doc}]
    IN  [builder EXCEPT !.termIndex = IF isNew THEN @ + 1 ELSE @,
                        !.invertedIndex = (term :> filed) @@ @]

\* One field of a document, its terms kept for the field's vector.
AddField(builder, doc, field, separator, stopWords) ==
    LET fieldRef == [field |-> field, doc |-> doc.href]
        terms    == RunPipeline(builder.pipeline,
                                Tokenizer(doc.text[field], separator), stopWords)
    IN  FoldLeft(LAMBDA b, t : AddTerm(b, t, fieldRef),
                 [builder EXCEPT !.fieldTerms = (fieldRef :> terms) @@ @], terms)

\* lunr.Builder.prototype.add.
AddDocument(builder, doc, separator, stopWords) ==
    FoldLeft(LAMBDA b, f : AddField(b, doc, f, separator, stopWords),
             builder, builder.fields)

\* Object.keys of an object with these properties, in the order they were set:
\* those that are array indices come first, by number.
ObjectKeys(names) ==
    LET once == FoldLeft(LAMBDA s, t : IF Contains(s, t) THEN s ELSE Append(s, t),
                         <<>>, names)
        IsArrayIndex(t) == /\ t # <<>> /\ Range(t) \subseteq Range(DigitChars)
                           /\ Len(t) = 1 \/ Head(t) # "0"
        indices == SelectSeq(once, IsArrayIndex)
    IN  SortSeq(indices, LAMBDA s, t : ParseInt(s) < ParseInt(t))
            \o SelectSeq(once, LAMBDA t : ~IsArrayIndex(t))

\* createFieldVectors for one field: every different term once.
FieldVector(builder, terms) ==
    LET keys  == ObjectKeys(terms)
        tf(t) == Len(SelectSeq(terms, LAMBDA u : u = t))
    IN  FoldLeft(LAMBDA v, t : VectorInsert(v, builder.invertedIndex[t].index,
                                            tf(t)), <<>>, keys)

\* lunr.Builder.prototype.build.
BuildOf(builder) ==
    [fields        |-> builder.fields,
     pipeline      |-> builder.searchPipeline,
     invertedIndex |-> builder.invertedIndex,
     fieldVectors  |-> [r \in DOMAIN builder.fieldTerms |->
                          FieldVector(builder, builder.fieldTerms[r])],
     tokenSet      |-> FromArray(SortedWords(DOMAIN builder.invertedIndex))]

\* lunr.Index.prototype.toJSON, and lunr.Index.load, which inserts the terms
\* in the order they were written in.
ToJSON(index) ==
    LET terms == SortedWords(DOMAIN index.invertedIndex)
    IN  [fields |-> index.fields, pipeline |-> index.pipeline,
         fieldVectors  |-> index.fieldVectors,
         invertedIndex |-> [i \in DOMAIN terms |->
                              <<terms[i], index.invertedIndex[terms[i]]>>]]

Load(serialized) ==
    LET rows  == serialized.invertedIndex
        terms == [i \in DOMAIN rows |-> rows[i][1]]
    IN  [fields |-> serialized.fields, pipeline |-> serialized.pipeline,
         fieldVectors  |-> serialized.fieldVectors,
         invertedIndex |-> [t \in Range(terms) |->
                              rows[SelectInSeq(terms, LAMBDA u : u = t)][2]],
         tokenSet      |-> FromArray(terms)]

-----------------------------------------------------------------------------
(* lunr.Index.prototype.query                                              *)

\* fromClause: an edit distance, even of 0, makes the term a fuzzy one.
FromClause(clause, term) ==
    IF clause.editDistance # NoEditDistance
    THEN FromFuzzyString(term, clause.editDistance)
    ELSE FromString(term)

\* The words of the index that a clause expands to, in the order it is looked
\* up in; a term with a wildcard does not go through the pipeline.
ExpandedTerms(index, clause, stopWords) ==
    LET terms == IF clause.usePipeline
                 THEN RunPipeline(index.pipeline, <<clause.term>>, stopWords)
                 ELSE <<clause.term>>
    IN  FlattenSeq([i \in DOMAIN terms |->
                       SortedWords(IntersectWords(index.tokenSet,
                                                  FromClause(clause, terms[i])))])

\* One record for each clause and word it expands to.
Lookups(index, clauses, stopWords) ==
    FlattenSeq([i \in DOMAIN clauses |->
        LET words == ExpandedTerms(index, clauses[i], stopWords)
        IN  [j \in DOMAIN words |-> [term |-> words[j], clause |-> clauses[i]]]])

\* The query vector of a field: the boosts of one term add up.
QueryVector(index, lookups, field) ==
    FoldLeft(LAMBDA v, x : IF Contains(x.clause.fields, field)
                           THEN Upsert(v, index.invertedIndex[x.term].index,
                                       x.clause.boost, [a, b \in Nat |-> a + b])
                           ELSE v,
             <<>>, lookups)

\* The field references that match, each with the terms it matches by.
MatchingFields(index, lookups) ==
    LET Has(r, x) == /\ Contains(x.clause.fields, r.field)
                     /\ r.doc \in index.invertedIndex[x.term].docs[r.field]
        found == {r \in DOMAIN index.fieldVectors :
                     \E x \in Range(lookups) : Has(r, x)}
    IN  [r \in found |-> {x.term : x \in {y \in Range(lookups) : Has(r, y)}}]

\* lunr.MatchData, combined over the fields of a document: the terms it matched
\* by, each with the field it was found in.
MatchData(matches, fieldRefs) ==
    UNION {{<<t, r.field>> : t \in matches[r]} : r \in fieldRefs}

\* search: every document with a field that matches, its score and what it
\* matched by, or an exception: the text is no query, or a word of the token
\* set has no posting.
Search(index, str, stopWords) ==
    LET query   == ParseQuery(str, index.fields)
        lookups == Lookups(index, query.clauses, stopWords)
        throws  == \/ query.error
                   \/ \E x \in Range(lookups) :
                          x.term \notin DOMAIN index.invertedIndex
        matches == MatchingFields(index, lookups)
        of(d)   == {r \in DOMAIN matches : r.doc = d}
        dot(r)  == Dot(QueryVector(index, lookups, r.field), index.fieldVectors[r])
    IN  IF throws THEN [throws |-> TRUE, hits |-> <<>>]
        ELSE [throws |-> FALSE,
              hits |-> [d \in {r.doc : r \in DOMAIN matches} |->
                          [score     |-> MapThenSumSet(dot, of(d)),
                           matchData |-> MatchData(matches, of(d))]]]

=============================================================================

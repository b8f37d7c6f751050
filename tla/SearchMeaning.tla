---- MODULE SearchMeaning ----
(***************************************************************************)
(* What a search of the documentation promises, said without automata,     *)
(* postings or vectors: which words a text consists of, which words a part *)
(* of a query means, how such a query is written down, and which documents *)
(* it then asks for.  The index and the answers of the worker are checked  *)
(* against it.                                                             *)
(*                                                                         *)
(* A query is a sequence of parts [field, term, edits, boost]; AnyField    *)
(* and NoEdits leave the field and the edit distance out.                  *)
(***************************************************************************)
EXTENDS LunrIndex

AnyField == <<>>
NoEdits  == -1

\* How a part is typed: delimiters of a term behind a backslash.
Escaped(term) ==
    FlattenSeq([i \in DOMAIN term |->
        IF term[i] \in Delimiters \cup {"\\"} THEN <<"\\", term[i]>>
        ELSE <<term[i]>>])

Typed(part) ==
    (IF part.field = AnyField THEN <<>> ELSE part.field \o <<":">>)
    \o Escaped(part.term)
    \o (IF part.edits = NoEdits THEN <<>> ELSE <<"~">> \o Digits[part.edits])
    \o (IF part.boost = 1 THEN <<>> ELSE <<"^">> \o Digits[part.boost])

TypedQuery(parts) ==
    FlattenSeq([i \in DOMAIN parts |->
        IF i = 1 THEN Typed(parts[i]) ELSE <<" ">> \o Typed(parts[i])])

\* The maximal runs without a separator.
WordsOf(text, separator) ==
    {SubSeq(text, q[1], q[2]) : q \in
        {p \in (DOMAIN text) \X (DOMAIN text) :
            /\ p[1] <= p[2]
            /\ \A k \in p[1]..p[2] : text[k] \notin separator
            /\ p[1] = 1 \/ text[p[1] - 1] \in separator
            /\ p[2] = Len(text) \/ text[p[2] + 1] \in separator}}

\* The terms a text is found by.
TermsOf(text, separator) ==
    {Stemmer(Trimmer(w)) : w \in WordsOf(ToLowerCase(text), separator)}

\* Pattern matching with "*" for any number of characters, as the comment on
\* fromString has it; that on lunr.Index.query's language says one or more.
Glob(pattern, word) ==
    LET from[i \in 1..(Len(pattern) + 1), j \in 1..(Len(word) + 1)] ==
            IF i > Len(pattern) THEN j > Len(word)
            ELSE IF pattern[i] = "*"
                 THEN from[i + 1, j] \/ (j <= Len(word) /\ from[i, j + 1])
            ELSE j <= Len(word) /\ pattern[i] = word[j] /\ from[i + 1, j + 1]
    IN  from[1, 1]

\* word is term after at most one edit: a deletion, an insertion anywhere, a
\* substitution, a swap of two neighbours.
OneEdit(term, word) ==
    \/ word = term
    \/ \E i \in DOMAIN term : word = RemoveAt(term, i)
    \/ \E i \in DOMAIN word : term = RemoveAt(word, i)
    \/ /\ Len(word) = Len(term)
       /\ \E i \in DOMAIN term : RemoveAt(word, i) = RemoveAt(term, i)
    \/ \E i \in 1..(Len(term) - 1) :
          word = [term EXCEPT ![i] = term[i + 1], ![i + 1] = term[i]]

\* word is term with another character after its last one: the one edit that the
\* search does not make, as it has no frame left there to insert it.
OneAppended(term, word) ==
    /\ term # <<>> /\ Len(word) = Len(term) + 1 /\ Front(word) = term
    /\ Last(word) # Last(term)

\* The terms of an index that a part means.  A wildcard's part is taken as it
\* is; any other is stemmed, and means nothing when it is a stop word.
Means(part, word, stopWords) ==
    LET asked == ToLowerCase(part.term)
        stem  == Stemmer(asked)
    IN  /\ word # <<>>
        /\ \/ Contains(asked, "*") /\ part.edits = NoEdits /\ Glob(asked, word)
           \/ /\ ~Contains(asked, "*")
              /\ stem \notin stopWords
              /\ \/ word = stem
                 \/ part.edits = 1 /\ OneEdit(stem, word)

\* The terms of an index that are found for a part: all that it means, but for the
\* insertion after the last character.
FoundFor(part, word, stopWords) ==
    /\ Means(part, word, stopWords)
    /\ part.edits = 1 => ~OneAppended(Stemmer(ToLowerCase(part.term)), word)

\* The terms of a document that are found for a query, with their fields.
Matches(doc, parts, separator, stopWords) ==
    UNION {{<<w, f>> : w \in {v \in TermsOf(doc.text[f], separator) :
                                \E part \in Range(parts) :
                                    /\ part.field \in {AnyField, f}
                                    /\ FoundFor(part, v, stopWords)}} :
           f \in DOMAIN doc.text}

\* The documents that are found for a query, and what they match by.
Answer(docs, parts, separator, stopWords) ==
    LET asked == {d \in Range(docs) : Matches(d, parts, separator, stopWords) # {}}
    IN  [h \in {d.href : d \in asked} |->
            Matches(CHOOSE d \in asked : d.href = h, parts, separator, stopWords)]

-----------------------------------------------------------------------------
\* The words a node of an automaton leads to.
Language(tokenSet, node) ==
    LET from[n \in DOMAIN tokenSet.nodes] ==
            (IF tokenSet.nodes[n].final THEN {<<>>} ELSE {})
            \cup UNION {{<<c>> \o w : w \in from[tokenSet.nodes[n].edges[c]]} :
                        c \in DOMAIN tokenSet.nodes[n].edges}
    IN  from[node]

\* The nodes that the root leads to.
Reachable(tokenSet) ==
    LET step(ns) == ns \cup UNION {Range(tokenSet.nodes[n].edges) : n \in ns}
        closure[i \in Nat] == IF i = 0 THEN {tokenSet.root}
                              ELSE step(closure[i - 1])
    IN  closure[Cardinality(DOMAIN tokenSet.nodes)]

\* A token set holds these words and no two of its nodes could be one.
IsMinimalFor(tokenSet, words) ==
    /\ Language(tokenSet, tokenSet.root) = words
    /\ \A m, n \in Reachable(tokenSet) :
          m # n => Language(tokenSet, m) # Language(tokenSet, n)

\* An index of these documents: every term of every field, filed under its
\* documents; a token set of exactly the terms; a vector for every field with
\* the field's terms by rising index.
IsIndexOf(index, docs, separator) ==
    LET terms(d, f) == TermsOf(d.text[f], separator)
        all == UNION {terms(d, f) : d \in Range(docs), f \in Range(index.fields)}
    IN  /\ DOMAIN index.invertedIndex = all
        /\ \A t \in all : \A f \in Range(index.fields) :
              index.invertedIndex[t].docs[f] =
                  {d.href : d \in {e \in Range(docs) : t \in terms(e, f)}}
        /\ IsMinimalFor(index.tokenSet, all)
        /\ \A d \in Range(docs) : \A f \in Range(index.fields) :
              LET v == index.fieldVectors[[field |-> f, doc |-> d.href]]
              IN  /\ \A i, j \in DOMAIN v : i < j => v[i][1] < v[j][1]
                  /\ {p[1] : p \in Range(v)} =
                         {index.invertedIndex[t].index : t \in terms(d, f)}
                  /\ \A p \in Range(v) : p[2] > 0

=============================================================================

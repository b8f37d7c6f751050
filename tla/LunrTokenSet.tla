---- MODULE LunrTokenSet ----
(***************************************************************************)
(* The token sets of lunr, the full-text search that runs in the pages of  *)
(* the documentation site (docs/styles/lunr.js).  A token set is a finite  *)
(* automaton: lunr.TokenSet.Builder makes a minimal one of the sorted      *)
(* words of an index, fromString and fromFuzzyString make one of a query   *)
(* term, and intersect finds the words that two of them share.             *)
(*                                                                         *)
(* A string is a sequence of characters, a character a string of length    *)
(* one.  Only the characters of Ascii occur, in their code order.          *)
(***************************************************************************)
EXTENDS Integers, SequencesExt, TLC

Ascii == <<" ", "*", "-", ".", "0", "1", "2", "3", "4", "5", "6", "7", "8",
           "9", ":", "A", "B", "C", "S", "\\", "^", "a", "b", "c", "k", "s",
           "t", "~">>

Code == [c \in Range(Ascii) |-> SelectInSeq(Ascii, LAMBDA d : d = c)]

DigitChars == SubSeq(Ascii, 5, 14)

\* v < w of JavaScript on strings.
Before(v, w) ==
    \/ IsStrictPrefix(v, w)
    \/ \E i \in DOMAIN v \cap DOMAIN w :
          /\ SubSeq(v, 1, i - 1) = SubSeq(w, 1, i - 1)
          /\ Code[v[i]] < Code[w[i]]

\* sort() of JavaScript on different strings.
SortedWords(words) ==
    LET place == [w \in words |-> Cardinality({v \in words : Before(v, w)}) + 1]
    IN  [i \in 1..Cardinality(words) |-> CHOOSE w \in words : place[w] = i]

Lower == "A" :> "a" @@ "B" :> "b" @@ "C" :> "c" @@ "S" :> "s"

ToLowerCase(str) ==
    [i \in DOMAIN str |->
        IF str[i] \in DOMAIN Lower THEN Lower[str[i]] ELSE str[i]]

\* The decimal digits of a node's number, as string concatenation writes them.
Digits[n \in Nat] ==
    IF n < 10 THEN <<DigitChars[n + 1]>>
    ELSE Digits[n \div 10] \o <<DigitChars[(n % 10) + 1]>>

-----------------------------------------------------------------------------
(* Nodes and the builder                                                   *)

\* new lunr.TokenSet: not final, no edges.
NewNode == [final |-> FALSE, edges |-> <<>>]

Root == 1

\* new lunr.TokenSet.Builder.  nodes maps each id to its node.
NewBuilder ==
    [previousWord |-> <<>>, nodes |-> Root :> NewNode, nextId |-> Root + 1,
     uncheckedNodes |-> <<>>, minimizedNodes |-> <<>>]

\* lunr.TokenSet.prototype.toString: finality, then label and id of each edge
\* in the order of the labels, with nothing between them.
NodeKey(node) ==
    LET labels == SortedWords({<<c>> : c \in DOMAIN node.edges})
    IN  <<IF node.final THEN "1" ELSE "0">>
            \o FlattenSeq([i \in DOMAIN labels |->
                              labels[i] \o Digits[node.edges[labels[i][1]]]])

\* One turn of the loop of minimize: the last unchecked child gives way to the
\* registered node of the same key, or is registered under it.
MinimizeLast(b) ==
    LET u   == Last(b.uncheckedNodes)
        key == NodeKey(b.nodes[u.child])
        popped == [b EXCEPT !.uncheckedNodes = Front(@)]
    IN  IF key \in DOMAIN b.minimizedNodes
        THEN [popped EXCEPT !.nodes[u.parent].edges[u.char] =
                                b.minimizedNodes[key]]
        ELSE [popped EXCEPT !.minimizedNodes = (key :> u.child) @@ @]

Minimize(b, downTo) ==
    FoldLeft(LAMBDA acc, i : MinimizeLast(acc), b,
             [i \in 1..(Len(b.uncheckedNodes) - downTo) |-> i])

\* The node at the end of the unchecked ones, where the next edge starts.
Tip(b) == IF b.uncheckedNodes = <<>> THEN Root ELSE Last(b.uncheckedNodes).child

AppendChar(b, c) ==
    [b EXCEPT !.nodes = (b.nextId :> NewNode)
                        @@ [@ EXCEPT ![Tip(b)].edges = (c :> b.nextId) @@ @],
              !.nextId = @ + 1,
              !.uncheckedNodes = Append(@, [parent |-> Tip(b), char |-> c,
                                            child |-> b.nextId])]

\* lunr.TokenSet.Builder.prototype.insert; the caller's words are sorted, so
\* the "Out of order word insertion" error is a precondition.
InsertWord(b, word) ==
    LET common == CHOOSE n \in 0..Len(word) :
                     /\ IsPrefix(SubSeq(word, 1, n), b.previousWord)
                     /\ \/ n = Len(word)
                        \/ ~IsPrefix(SubSeq(word, 1, n + 1), b.previousWord)
        grown  == FoldLeft(AppendChar, Minimize(b, common),
                           SubSeq(word, common + 1, Len(word)))
    IN  [grown EXCEPT !.nodes[Tip(grown)].final = TRUE, !.previousWord = word]

\* Faulty variant: finish is not called.
FromArrayUnfinished(words) ==
    LET b == FoldLeft(InsertWord, NewBuilder, words)
    IN  [root |-> Root, nodes |-> b.nodes]

\* lunr.TokenSet.fromArray, with builder.finish at its end.
FromArray(words) ==
    LET b == Minimize(FoldLeft(InsertWord, NewBuilder, words), 0)
    IN  [root |-> Root, nodes |-> b.nodes]

-----------------------------------------------------------------------------
(* The token set of a query term                                           *)

\* One character of the loop of fromString: a wildcard loops on the node it
\* follows; once one was seen, every later node leads back to the root.
StringChar(term, acc, i) ==
    IF term[i] = "*"
    THEN [acc EXCEPT !.wild = TRUE,
                     !.nodes[acc.at] = [final |-> i = Len(term),
                                        edges |-> ("*" :> acc.at) @@ @.edges]]
    ELSE LET back == IF acc.wild THEN "*" :> Root ELSE <<>>
             next == [final |-> i = Len(term), edges |-> back]
         IN  [acc EXCEPT !.at = i + 1,
                         !.nodes = (i + 1 :> next)
                             @@ [@ EXCEPT ![acc.at].edges =
                                              (term[i] :> i + 1) @@ @]]

FromString(term) ==
    LET made == FoldLeftDomain(LAMBDA acc, i : StringChar(term, acc, i),
                               [at |-> Root, wild |-> FALSE,
                                nodes |-> Root :> NewNode], term)
    IN  [root |-> Root, nodes |-> made.nodes]

\* The words the frames of fromFuzzyString mark as final, below a frame with
\* str left to read and edits left to make; "*" stands for any one character.
\* Final and done: a frame whose last character is read has no successor.
FuzzyPaths(term, distance) ==
    LET Below(c, rest, paths) ==
            IF rest = <<>> THEN {<<c>>} ELSE {<<c>> \o p : p \in paths}
        from[f \in Seq(Range(Ascii)) \X (0..distance)] ==
            LET str == f[1]
                d   == f[2]
                Then(c, rest, edits) ==
                    Below(c, rest, IF rest = <<>> THEN {} ELSE from[<<rest, edits>>])
            IN  UNION {
                  IF str = <<>> THEN {} ELSE Then(Head(str), Tail(str), d),
                  IF d = 0 \/ Len(str) < 2 THEN {}
                  ELSE Then(str[2], SubSeq(str, 3, Len(str)), d - 1)
                       \cup Then(str[2], <<str[1]>> \o SubSeq(str, 3, Len(str)),
                                 d - 1),
                  IF d > 0 /\ Len(str) = 1 THEN {<<>>} ELSE {},
                  IF d = 0 \/ str = <<>> THEN {} ELSE Then("*", Tail(str), d - 1),
                  IF d = 0 THEN {} ELSE Then("*", str, d - 1) }
    IN  from[<<term, distance>>]

\* The tree of those words: one node per prefix, as the shared edges make it.
FromFuzzyString(term, distance) ==
    LET paths == FuzzyPaths(term, distance)
    IN  [root  |-> <<>>,
         nodes |-> [p \in {<<>>} \cup UNION {Prefixes(q) : q \in paths} |->
                      LET longer == {q \in paths : IsStrictPrefix(p, q)}
                      IN  [final |-> p \in paths,
                           edges |-> [c \in {q[Len(p) + 1] : q \in longer} |->
                                        Append(p, c)]]]]

-----------------------------------------------------------------------------
(* Intersection                                                            *)

\* lunr.TokenSet.prototype.intersect and toArray of what it returns: the words
\* of token set a along whose edges the query q can follow, "*" of q matching
\* any character.  An output node is final when both nodes were on one way to
\* it; the root of the output never is.
IntersectWords(a, q) ==
    LET below[p \in (DOMAIN a.nodes) \X (DOMAIN q.nodes)] ==
            LET node  == a.nodes[p[1]]
                qNode == q.nodes[p[2]]
                pairs == {e \in (DOMAIN node.edges) \X (DOMAIN qNode.edges) :
                             e[2] \in {e[1], "*"}}
            IN  UNION { LET n == node.edges[e[1]]
                            m == qNode.edges[e[2]]
                        IN  {<<e[1]>> \o w : w \in below[<<n, m>>]}
                            \cup IF a.nodes[n].final /\ q.nodes[m].final
                                 THEN {<<e[1]>>} ELSE {}
                      : e \in pairs }
    IN  below[<<a.root, q.root>>]

=============================================================================

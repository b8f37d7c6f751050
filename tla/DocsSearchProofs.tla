-------------------------- MODULE DocsSearchProofs --------------------------
(***************************************************************************)
(* For any site, any texts and any number of keys: the search box never    *)
(* goes back to the results of an earlier text, and the breadcrumb is      *)
(* complete once both navigations are there.  The answers travel through   *)
(* two queues; what makes the first hold is that the numbers of the texts  *)
(* rise along both of them, from the page's results to the last key.       *)
(***************************************************************************)
EXTENDS DocsSearch, TLAPS

\* What an answer on its way to the page is about: the number of its text.
AnswerIn(m, low, high) == m.n \in Nat /\ low <= m.n /\ m.n <= high

\* Texts rise along the way: results shown, answers, queries, last key.
InOrder ==
    /\ \A i, j \in 1..Len(toWorker) : i <= j => toWorker[i].n <= toWorker[j].n
    /\ \A j \in 1..Len(toWorker) : toWorker[j].n <= keyups
    /\ \A i \in 1..Len(toPage) :
          toPage[i].e = "query-ready" =>
              /\ AnswerIn(toPage[i], shown.n, keyups)
              /\ \A j \in 1..Len(toWorker) : toPage[i].n <= toWorker[j].n
              /\ \A j \in i..Len(toPage) :
                    toPage[j].e = "query-ready" => toPage[i].n <= toPage[j].n
    /\ \A j \in 1..Len(toWorker) : shown.n <= toWorker[j].n

\* The shapes the steps rely on.
Shapes ==
    /\ toPage \in Seq(Range(toPage))
    /\ shown = [n |-> shown.n, hits |-> shown.hits, page |-> shown.page,
                linksOf |-> shown.linksOf]
    /\ shown.n \in Nat /\ shown.linksOf \in Nat
    /\ navbar \in BOOLEAN /\ toc \in BOOLEAN
    /\ ~navbar => keyupHandlers = 0
    /\ keyups = 0 => query = <<>>

\* What is shown of the navigations is what is loaded.
BreadcrumbInv == breadcrumb = Breadcrumb(navbar, toc)

\* The worker's index is the one of index.json, made as soon as both files are
\* there; nobody asks before index.json is.
IndexInv ==
    /\ lunrIndex # NoIndex => corpus # <<>> /\ lunrIndex = BuildIndex(corpus)
    /\ stopWordsRequest = "answered" /\ searchDataRequest = "answered" /\ corpus # <<>>
          => lunrIndex # NoIndex
    /\ indexReady \/ toPage # <<>> \/ toWorker # <<>> => searchDataRequest = "answered"

IInv == TypeOK /\ Shapes /\ InOrder /\ BreadcrumbInv /\ IndexInv

\* lunr's part in answering: search throws at no query that means something. Its
\* words and automata are recursive and stay opaque here.
LunrAnswers ==
    \A docs \in Corpora, parts \in Meanings :
        docs # <<>> => ~Search(BuildIndex(docs), TypedQuery(parts), StopWords).throws

-----------------------------------------------------------------------------
\* A sequence is one over its own elements.
LEMMA OverItsRange ==
  ASSUME NEW S, NEW s \in Seq(S)
  PROVE  s \in Seq(Range(s))
  BY DEF Range

\* What Append and Tail make of the queue to the page.
LEMMA AppendShape ==
  ASSUME NEW S, NEW s \in Seq(S), NEW x
  PROVE  /\ Append(s, x) \in Seq(Range(Append(s, x)))
         /\ Len(Append(s, x)) = Len(s) + 1
         /\ \A i \in 1..Len(s) : Append(s, x)[i] = s[i]
         /\ Append(s, x)[Len(s) + 1] = x
         /\ Range(Append(s, x)) \subseteq Range(s) \cup {x}
<1>1. s \in Seq(S \cup {x}) /\ x \in S \cup {x}
  OBVIOUS
<1>2. Append(s, x) \in Seq(S \cup {x})
  BY <1>1
<1>3. Append(s, x) \in Seq(Range(Append(s, x)))
  BY <1>2, OverItsRange
<1>4. ASSUME NEW y \in Range(Append(s, x))
      PROVE  y \in Range(s) \cup {x}
  <2>1. PICK i \in 1..(Len(s) + 1) : y = Append(s, x)[i]
    BY <1>1, <1>2, <1>4 DEF Range
  <2>2. CASE i = Len(s) + 1
    BY <2>1, <2>2, <1>1
  <2>3. CASE i \in 1..Len(s)
    BY <2>1, <2>3, <1>1 DEF Range
  <2> QED
    BY <2>1, <2>2, <2>3, <1>1
<1> QED
  BY <1>1, <1>3, <1>4

\* A message queue without the message at its head.
LEMMA TailShape ==
  ASSUME NEW S, NEW s \in Seq(S), s # <<>>
  PROVE  /\ Tail(s) \in Seq(Range(Tail(s)))
         /\ Len(s) \in Nat /\ Len(s) > 0
         /\ Len(Tail(s)) = Len(s) - 1
         /\ \A i \in 1..Len(Tail(s)) : Tail(s)[i] = s[i + 1]
         /\ Head(s) = s[1]
         /\ Range(Tail(s)) \subseteq Range(s)
<1>1. Tail(s) \in Seq(S)
  OBVIOUS
<1>2. Tail(s) \in Seq(Range(Tail(s)))
  BY <1>1, OverItsRange
<1>3. Range(Tail(s)) \subseteq Range(s)
  BY <1>1 DEF Range
<1> QED
  BY <1>2, <1>3

\* A message of the page leaves the worker's queue: it is answered, with one
\* message to the page, or not at all.
LEMMA HandledEnds ==
  ASSUME NEW m, Handled(m)
  PROVE  \/ toPage' = toPage
         \/ \E d : toPage' = Append(toPage, [e |-> "query-ready", q |-> m.q,
                                             n |-> m.n, d |-> d])
  BY DEF Handled

-----------------------------------------------------------------------------
\* Nothing is asked, answered or loaded in the initial state.
LEMMA InitialState == Init => IInv
<1> SUFFICES ASSUME Init
             PROVE  IInv
  OBVIOUS
<1>1. TypeOK
  <2>1. Range(toPage) = {} /\ toWorker \in Seq(Messages)
    BY DEF Init, Range
  <2>2. {stopWordsRequest, searchDataRequest} \subseteq {"sent", "answered", "failed"}
    BY DEF Init
  <2>3. keyups \in 0..MaxKeyups /\ shown.n <= keyups /\ shown.linksOf <= keyups
    BY BoundsAssumption DEF Init
  <2> QED
    BY <2>1, <2>2, <2>3 DEF Init, TypeOK
<1>2. Shapes
  <2>1. toPage \in Seq(Range(toPage))
    BY OverItsRange DEF Init
  <2> QED
    BY <2>1 DEF Init, Shapes
<1>3. InOrder
  BY DEF Init, InOrder
<1>4. BreadcrumbInv
  BY DEF Init, BreadcrumbInv, Breadcrumb
<1>5. IndexInv
  BY DEF Init, IndexInv
<1> QED
  BY <1>1, <1>2, <1>3, <1>4, <1>5 DEF IInv

-----------------------------------------------------------------------------
\* Every handler keeps the types; the numbers of results and links stay at or
\* below the last key's because those of the answers do.
LEMMA TypeStep == IInv /\ [Next]_vars => TypeOK'
<1> SUFFICES ASSUME IInv, [Next]_vars
             PROVE  TypeOK'
  OBVIOUS
<1> USE DEF IInv, TypeOK
<1>1. CASE StopWordsArrive
  BY <1>1 DEF StopWordsArrive, BuiltWith, layout, box
<1>2. CASE SearchDataArrives
  <2>1. CASE toPage' = Append(toPage, [e |-> "index-ready"])
    <3>1. \A m \in Range(toPage') : m \in Range(toPage) \/ m = [e |-> "index-ready"]
      BY <2>1, AppendShape DEF Shapes
    <3>2. \A m \in Range(toPage') : m.e \in {"index-ready", "query-ready"}
      BY <3>1
    <3> QED
      BY <1>2, <3>2 DEF SearchDataArrives, BuiltWith, layout, box
  <2>2. CASE UNCHANGED <<lunrIndex, toPage>> /\ searchDataRequest' = "failed"
    BY <1>2, <2>2 DEF SearchDataArrives, layout, box
  <2> QED
    BY <1>2, <2>1, <2>2 DEF SearchDataArrives
<1>3. CASE AnswerQuery
  <2>1. Tail(toWorker) \in Seq(Messages)
    BY <1>3 DEF AnswerQuery
  <2>2. \A m \in Range(toPage') : m.e \in {"index-ready", "query-ready"}
    <3>1. CASE toPage' = toPage
      BY <3>1
    <3>2. ASSUME NEW q, NEW n, NEW d,
                 toPage' = Append(toPage, [e |-> "query-ready", q |-> q,
                                           n |-> n, d |-> d])
          PROVE  \A m \in Range(toPage') : m.e \in {"index-ready", "query-ready"}
      <4> DEFINE x == [e |-> "query-ready", q |-> q, n |-> n, d |-> d]
      <4>1. \A m \in Range(toPage') : m \in Range(toPage) \/ m = x
        BY <3>2, AppendShape DEF Shapes
      <4> QED
        BY <4>1
    <3> QED
      BY <1>3, <3>1, <3>2, HandledEnds DEF AnswerQuery
  <2> QED
    BY <1>3, <2>1, <2>2 DEF AnswerQuery, worker, layout, box
<1>4. CASE NavbarLoads
  BY <1>4 DEF NavbarLoads, Shapes, worker, box
<1>5. CASE TocLoads
  BY <1>5 DEF TocLoads, worker, box
<1>6. ASSUME NEW text \in Texts, Keyup(text)
      PROVE  TypeOK'
  <2>1. keyups' \in 1..MaxKeyups /\ keyups' = keyups + 1
    BY <1>6, BoundsAssumption DEF Keyup
  <2>2. toWorker' \in Seq(Messages)
    <3> DEFINE posts == [h \in 1..keyupHandlers |-> [q |-> text, n |-> keyups + 1]]
    <3>1. posts \in Seq(Messages)
      BY <2>1 DEF Messages
    <3> HIDE DEF posts
    <3>2. toWorker \o posts \in Seq(Messages)
      BY <3>1
    <3>3. toWorker' \in {toWorker, toWorker \o posts}
      BY <1>6 DEF Keyup, posts
    <3> QED
      BY <3>2, <3>3
  <2>3. shown' = shown /\ query' \in Texts /\ resultsVisible' \in BOOLEAN
    BY <1>6 DEF Keyup, IsSearched
  <2>4. shown.n <= keyups' /\ shown.linksOf <= keyups'
    BY <2>1 DEF Shapes
  <2>5. UNCHANGED <<corpus, worker, toPage, layout, indexReady>>
    BY <1>6 DEF Keyup
  <2>6. keyups' \in 0..MaxKeyups
    BY <2>1, BoundsAssumption
  <2> QED
    BY <2>2, <2>3, <2>4, <2>5, <2>6 DEF worker, layout
<1>7. CASE HearIndexReady
  <2>1. \A m \in Range(toPage') : m.e \in {"index-ready", "query-ready"}
    BY <1>7, TailShape DEF HearIndexReady, Shapes
  <2>2. toWorker' \in Seq(Messages)
    <3>1. CASE IsSearched(query)
      <4>1. query # <<>>
        BY <3>1 DEF IsSearched
      <4>2. keyups \in 1..MaxKeyups /\ query \in Texts
        BY <4>1 DEF Shapes
      <4>3. [q |-> query, n |-> keyups] \in Messages
        BY <4>2 DEF Messages
      <4> QED
        BY <1>7, <3>1, <4>3 DEF HearIndexReady
    <3>2. CASE ~IsSearched(query)
      BY <1>7, <3>2 DEF HearIndexReady
    <3> QED
      BY <3>1, <3>2
  <2> QED
    BY <1>7, <2>1, <2>2 DEF HearIndexReady, worker, layout, box
<1>8. CASE HearQueryReady
  <2>1. \A m \in Range(toPage') : m.e \in {"index-ready", "query-ready"}
    BY <1>8, TailShape DEF HearQueryReady, Shapes
  <2>2. Head(toPage).n <= keyups
    BY <1>8, TailShape DEF HearQueryReady, Shapes, InOrder, AnswerIn
  <2>3. shown'.n <= keyups /\ shown'.linksOf <= keyups
    BY <1>8, <2>2, BoundsAssumption DEF HearQueryReady
  <2> QED
    BY <1>8, <2>1, <2>3 DEF HearQueryReady, worker, layout, box
<1>9. ASSUME NEW page \in 1..Cardinality(shown.hits), TurnPage(page)
      PROVE  TypeOK'
  <2>1. shown'.n = shown.n /\ shown'.linksOf = keyups
    BY <1>9 DEF TurnPage, Shapes
  <2> QED
    BY <1>9, <2>1, BoundsAssumption DEF TurnPage, worker, layout, box
<1>10. CASE UNCHANGED vars
  BY <1>10 DEF vars, worker, layout, box
<1> QED
  BY <1>1, <1>2, <1>3, <1>4, <1>5, <1>6, <1>7, <1>8, <1>9, <1>10 DEF Next

\* Every handler keeps the shapes.
LEMMA ShapesStep == IInv /\ [Next]_vars => Shapes'
<1> SUFFICES ASSUME IInv, [Next]_vars
             PROVE  Shapes'
  OBVIOUS
<1> USE DEF IInv, Shapes
<1>1. toPage' \in Seq(Range(toPage'))
  <2>1. CASE toPage' = toPage
    BY <2>1
  <2>2. ASSUME NEW x, toPage' = Append(toPage, x)
        PROVE  toPage' \in Seq(Range(toPage'))
    BY <2>2, AppendShape
  <2>3. CASE toPage # <<>> /\ toPage' = Tail(toPage)
    BY <2>3, TailShape
  <2>4. \/ toPage' = toPage
        \/ \E x : toPage' = Append(toPage, x)
        \/ toPage # <<>> /\ toPage' = Tail(toPage)
    <3>1. CASE AnswerQuery
      BY <3>1, HandledEnds DEF AnswerQuery
    <3>2. CASE SearchDataArrives
      BY <3>2 DEF SearchDataArrives
    <3>3. CASE ~AnswerQuery /\ ~SearchDataArrives
      BY <3>3 DEF Next, vars, StopWordsArrive, NavbarLoads, TocLoads, Keyup,
                  HearIndexReady, HearQueryReady, TurnPage
    <3> QED
      BY <3>1, <3>2, <3>3
  <2> QED
    BY <2>1, <2>2, <2>3, <2>4
<1>2. /\ shown' = [n |-> shown'.n, hits |-> shown'.hits, page |-> shown'.page,
                   linksOf |-> shown'.linksOf]
      /\ shown'.n \in Nat /\ shown'.linksOf \in Nat
  <2>1. CASE HearQueryReady
    <3>1. Head(toPage).n \in Nat
      BY <2>1, TailShape DEF HearQueryReady, InOrder, AnswerIn
    <3> QED
      BY <2>1, <3>1 DEF HearQueryReady, TypeOK
  <2>2. ASSUME NEW page \in 1..Cardinality(shown.hits), TurnPage(page)
        PROVE  /\ shown' = [n |-> shown.n, hits |-> shown.hits, page |-> page,
                            linksOf |-> keyups]
    BY <2>2 DEF TurnPage
  <2>3. CASE UNCHANGED shown
    BY <2>3
  <2>4. \/ HearQueryReady
        \/ \E page \in 1..Cardinality(shown.hits) : TurnPage(page)
        \/ UNCHANGED shown
    BY DEF Next, vars, StopWordsArrive, SearchDataArrives, AnswerQuery, NavbarLoads,
           TocLoads, Keyup, HearIndexReady
  <2> QED
    BY <2>1, <2>2, <2>3, <2>4 DEF TypeOK
<1>3. navbar' \in BOOLEAN /\ toc' \in BOOLEAN /\ (~navbar' => keyupHandlers' = 0)
  BY DEF Next, vars, layout, StopWordsArrive, SearchDataArrives, AnswerQuery,
         NavbarLoads, TocLoads, Keyup, HearIndexReady, HearQueryReady, TurnPage
<1>4. keyups' = 0 => query' = <<>>
  <2>1. ASSUME NEW text \in Texts, Keyup(text)
        PROVE  keyups' # 0
    BY <2>1 DEF Keyup, TypeOK
  <2>2. CASE UNCHANGED <<keyups, query>>
    BY <2>2
  <2>3. (\E text \in Texts : Keyup(text)) \/ UNCHANGED <<keyups, query>>
    BY DEF Next, vars, box, StopWordsArrive, SearchDataArrives, AnswerQuery,
           NavbarLoads, TocLoads, HearIndexReady, HearQueryReady, TurnPage
  <2> QED
    BY <2>1, <2>2, <2>3
<1> QED
  BY <1>1, <1>2, <1>3, <1>4

\* Only the navigations change the breadcrumb or what is loaded.
LEMMA BreadcrumbStep == IInv /\ [Next]_vars => BreadcrumbInv'
<1> SUFFICES ASSUME IInv, [Next]_vars
             PROVE  BreadcrumbInv'
  OBVIOUS
<1> USE DEF IInv, BreadcrumbInv
<1>1. CASE NavbarLoads
  BY <1>1 DEF NavbarLoads
<1>2. CASE TocLoads
  BY <1>2 DEF TocLoads
<1>3. CASE UNCHANGED <<navbar, toc, breadcrumb>>
  BY <1>3 DEF Breadcrumb
<1>4. NavbarLoads \/ TocLoads \/ UNCHANGED <<navbar, toc, breadcrumb>>
  BY DEF Next, vars, layout, StopWordsArrive, SearchDataArrives, AnswerQuery, Keyup,
         HearIndexReady, HearQueryReady, TurnPage
<1> QED
  BY <1>1, <1>2, <1>3, <1>4

\* The site stays what it is.
LEMMA CorpusStays == [Next]_vars => corpus' = corpus
  BY DEF Next, vars, StopWordsArrive, SearchDataArrives, AnswerQuery, NavbarLoads, TocLoads,
         Keyup, HearIndexReady, HearQueryReady, TurnPage

\* Every handler keeps what is known of the index: BuiltWith makes one when the
\* later of the two files arrives, and a message follows from the earlier one.
LEMMA IndexStep == IInv /\ [Next]_vars => IndexInv'
<1> SUFFICES ASSUME IInv, [Next]_vars
             PROVE  IndexInv'
  OBVIOUS
<1>1. corpus' = corpus
  BY CorpusStays
<1> USE DEF IInv, IndexInv
<1>2. BuildIndex(corpus) # NoIndex
  BY NoIndexAssumption DEF TypeOK
<1>3. CASE StopWordsArrive
  BY <1>1, <1>2, <1>3 DEF StopWordsArrive, BuiltWith
<1>4. CASE SearchDataArrives
  BY <1>1, <1>2, <1>4 DEF SearchDataArrives, BuiltWith
<1>5. CASE UNCHANGED worker /\ (indexReady' \/ toPage' # <<>> \/ toWorker' # <<>> =>
                                   indexReady \/ toPage # <<>> \/ toWorker # <<>>)
  BY <1>1, <1>5 DEF worker
<1>6. CASE AnswerQuery
  BY <1>5, <1>6 DEF AnswerQuery
<1>7. ASSUME NEW text \in Texts, Keyup(text) PROVE IndexInv'
  BY <1>5, <1>7 DEF Keyup
<1>8. CASE HearIndexReady \/ HearQueryReady
  BY <1>5, <1>8 DEF HearIndexReady, HearQueryReady
<1>9. ASSUME NEW page \in 1..Cardinality(shown.hits), TurnPage(page) PROVE IndexInv'
  BY <1>5, <1>9 DEF TurnPage
<1>10. CASE NavbarLoads \/ TocLoads
  BY <1>5, <1>10 DEF NavbarLoads, TocLoads
<1>11. CASE UNCHANGED vars
  BY <1>1, <1>11 DEF vars, worker
<1> QED
  BY <1>3, <1>4, <1>6, <1>7, <1>8, <1>9, <1>10, <1>11 DEF Next

-----------------------------------------------------------------------------
\* The texts in the worker's queue have numbers.
LEMMA QueriesAreNumbered ==
  ASSUME TypeOK
  PROVE  \A j \in 1..Len(toWorker) : toWorker[j].n \in Nat
<1> SUFFICES ASSUME NEW j \in 1..Len(toWorker)
             PROVE  toWorker[j].n \in Nat
  OBVIOUS
<1>1. toWorker[j] \in Messages
  BY DEF TypeOK
<1>2. toWorker[j].n \in 1..MaxKeyups
  BY <1>1 DEF Messages
<1> QED
  BY <1>2, BoundsAssumption

\* What joins the worker's queue at its end is about the last key: the order
\* stays, be a message of the page's queue taken (k = 1) or not.
LEMMA PostKeepsOrder ==
  ASSUME IInv, shown'.n = shown.n,
         NEW k \in {0, 1}, Len(toPage) \in Nat, Len(toPage') = Len(toPage) - k,
         \A i \in 1..Len(toPage') : toPage'[i] = toPage[i + k],
         keyups' \in Nat, keyups <= keyups',
         toWorker \in Seq(Messages), toWorker' \in Seq(Messages),
         Len(toWorker) <= Len(toWorker'),
         \A j \in 1..Len(toWorker) : toWorker'[j] = toWorker[j],
         \A j \in (Len(toWorker) + 1)..Len(toWorker') : toWorker'[j].n = keyups'
  PROVE  InOrder'
<1> USE DEF IInv, InOrder, AnswerIn, Shapes
<1>1. \A j \in 1..Len(toWorker') : \/ j \in 1..Len(toWorker)
                                   \/ j \in (Len(toWorker) + 1)..Len(toWorker')
  OBVIOUS
<1>2. \A j \in 1..Len(toWorker) : toWorker[j].n \in Nat /\ toWorker[j].n <= keyups
  BY QueriesAreNumbered
<1>3. keyups \in Nat /\ shown.n <= keyups
  BY BoundsAssumption DEF TypeOK
<1>4. \A j \in 1..Len(toWorker') : /\ toWorker'[j].n \in Nat
                                   /\ toWorker'[j].n <= keyups'
                                   /\ shown.n <= toWorker'[j].n
  BY <1>1, <1>2, <1>3
<1>5. \A i, j \in 1..Len(toWorker') : i <= j => toWorker'[i].n <= toWorker'[j].n
  <2> SUFFICES ASSUME NEW i \in 1..Len(toWorker'), NEW j \in 1..Len(toWorker'),
                      i <= j
               PROVE  toWorker'[i].n <= toWorker'[j].n
    OBVIOUS
  <2>1. CASE j \in 1..Len(toWorker)
    BY <2>1
  <2>2. CASE j \in (Len(toWorker) + 1)..Len(toWorker')
    BY <1>4, <2>2
  <2> QED
    BY <1>1, <2>1, <2>2
<1>6. \A i \in 1..Len(toPage') : toPage'[i].e = "query-ready" =>
         /\ AnswerIn(toPage'[i], shown.n, keyups')
         /\ \A j \in 1..Len(toWorker') : toPage'[i].n <= toWorker'[j].n
         /\ \A j \in i..Len(toPage') :
               toPage'[j].e = "query-ready" => toPage'[i].n <= toPage'[j].n
  <2> SUFFICES ASSUME NEW i \in 1..Len(toPage'), toPage'[i].e = "query-ready"
               PROVE  /\ AnswerIn(toPage'[i], shown.n, keyups')
                      /\ \A j \in 1..Len(toWorker') : toPage'[i].n <= toWorker'[j].n
                      /\ \A j \in i..Len(toPage') :
                            toPage'[j].e = "query-ready"
                                => toPage'[i].n <= toPage'[j].n
    OBVIOUS
  <2>1. i + k \in 1..Len(toPage) /\ toPage'[i] = toPage[i + k]
    OBVIOUS
  <2>2. AnswerIn(toPage'[i], shown.n, keyups)
    BY <2>1
  <2>3. \A j \in 1..Len(toWorker') : toPage'[i].n <= toWorker'[j].n
    <3> SUFFICES ASSUME NEW j \in 1..Len(toWorker')
                 PROVE  toPage'[i].n <= toWorker'[j].n
      OBVIOUS
    <3>1. CASE j \in 1..Len(toWorker)
      BY <2>1, <3>1
    <3>2. CASE toWorker'[j].n = keyups'
      BY <1>3, <2>2, <3>2
    <3> QED
      BY <1>1, <3>1, <3>2
  <2>4. ASSUME NEW j \in i..Len(toPage'), toPage'[j].e = "query-ready"
        PROVE  toPage'[i].n <= toPage'[j].n
    <3>1. j + k \in (i + k)..Len(toPage) /\ toPage'[j] = toPage[j + k]
      OBVIOUS
    <3> QED
      BY <2>1, <2>4, <3>1
  <2> QED
    BY <1>3, <2>2, <2>3, <2>4
<1> QED
  BY <1>4, <1>5, <1>6

\* A message at the head of the worker's queue becomes the answer at the end of
\* the page's queue, or goes unanswered.
LEMMA AnswerKeepsOrder == IInv /\ AnswerQuery => InOrder'
<1> SUFFICES ASSUME IInv, AnswerQuery
             PROVE  InOrder'
  OBVIOUS
<1> USE DEF IInv, InOrder, AnswerIn, Shapes
<1>1. /\ toWorker \in Seq(Messages) /\ toWorker # <<>>
      /\ toWorker' = Tail(toWorker)
      /\ UNCHANGED <<keyups, shown>>
      /\ keyups \in Nat
  BY BoundsAssumption DEF AnswerQuery, box, TypeOK
<1>2. /\ Len(toWorker) \in Nat /\ Len(toWorker) > 0
      /\ Len(toWorker') = Len(toWorker) - 1
      /\ \A j \in 1..Len(toWorker') : toWorker'[j] = toWorker[j + 1]
      /\ Head(toWorker) = toWorker[1]
  BY <1>1, TailShape
<1>3. \A j \in 1..Len(toWorker) : toWorker[j].n \in Nat
  BY QueriesAreNumbered
<1>4. \A j \in 1..Len(toWorker') : j + 1 \in 1..Len(toWorker)
  BY <1>2
<1>5. /\ \A i, j \in 1..Len(toWorker') : i <= j => toWorker'[i].n <= toWorker'[j].n
      /\ \A j \in 1..Len(toWorker') : /\ toWorker'[j].n <= keyups
                                      /\ shown.n <= toWorker'[j].n
                                      /\ toWorker[1].n <= toWorker'[j].n
  <2> SUFFICES ASSUME NEW i \in 1..Len(toWorker'), NEW j \in 1..Len(toWorker')
               PROVE  /\ i <= j => toWorker'[i].n <= toWorker'[j].n
                      /\ toWorker'[j].n <= keyups
                      /\ shown.n <= toWorker'[j].n
                      /\ toWorker[1].n <= toWorker'[j].n
    OBVIOUS
  <2>1. /\ i + 1 \in 1..Len(toWorker) /\ j + 1 \in 1..Len(toWorker)
        /\ 1 \in 1..Len(toWorker) /\ 1 <= j + 1
        /\ i <= j => i + 1 <= j + 1
    BY <1>2, <1>4
  <2>2. toWorker'[i] = toWorker[i + 1] /\ toWorker'[j] = toWorker[j + 1]
    BY <1>2
  <2> QED
    BY <2>1, <2>2
<1>6. \A i \in 1..Len(toPage) :
         toPage[i].e = "query-ready" =>
             /\ toPage[i].n <= toWorker[1].n
             /\ \A j \in 1..Len(toWorker') : toPage[i].n <= toWorker'[j].n
  <2>1. 1 \in 1..Len(toWorker)
    BY <1>2
  <2> QED
    BY <1>2, <1>4, <2>1
<1>7. CASE toPage' = toPage
  BY <1>1, <1>5, <1>6, <1>7
<1>8. ASSUME NEW d,
             toPage' = Append(toPage, [e |-> "query-ready", q |-> toWorker[1].q,
                                       n |-> toWorker[1].n, d |-> d])
      PROVE  InOrder'
  <2>1. /\ Len(toPage) \in Nat
        /\ Len(toPage') = Len(toPage) + 1
        /\ \A i \in 1..Len(toPage) : toPage'[i] = toPage[i]
        /\ toPage'[Len(toPage')].n = toWorker[1].n
    BY <1>8, AppendShape
  <2>2. \A i \in 1..Len(toPage') : i \in 1..Len(toPage) \/ i = Len(toPage')
    BY <2>1
  <2>3. AnswerIn(toPage'[Len(toPage')], shown.n, keyups)
    BY <1>2, <1>3, <2>1
  <2>4. \A i \in 1..Len(toPage') :
           toPage'[i].e = "query-ready" =>
               /\ AnswerIn(toPage'[i], shown.n, keyups)
               /\ \A j \in 1..Len(toWorker') : toPage'[i].n <= toWorker'[j].n
               /\ toPage'[i].n <= toWorker[1].n
    BY <1>3, <1>5, <1>6, <2>1, <2>2, <2>3
  <2>5. \A i \in 1..Len(toPage') : \A j \in i..Len(toPage') :
           toPage'[i].e = "query-ready" /\ toPage'[j].e = "query-ready"
               => toPage'[i].n <= toPage'[j].n
    <3> SUFFICES ASSUME NEW i \in 1..Len(toPage'), NEW j \in i..Len(toPage'),
                        toPage'[i].e = "query-ready", toPage'[j].e = "query-ready"
                 PROVE  toPage'[i].n <= toPage'[j].n
      OBVIOUS
    <3>1. CASE j = Len(toPage')
      BY <2>1, <2>4, <3>1
    <3>2. CASE j # Len(toPage')
      <4>1. i \in 1..Len(toPage) /\ j \in i..Len(toPage)
        BY <2>1, <3>2
      <4> QED
        BY <2>1, <4>1
    <3> QED
      BY <3>1, <3>2
  <2> QED
    BY <1>1, <1>5, <2>4, <2>5
<1> QED
  BY <1>2, <1>7, <1>8, HandledEnds DEF AnswerQuery

\* A message of the worker's leaves the page's queue: the answers behind it are
\* about the same text or later ones.
LEMMA HearKeepsOrder == IInv /\ HearQueryReady => InOrder'
<1> SUFFICES ASSUME IInv, HearQueryReady
             PROVE  InOrder'
  OBVIOUS
<1> USE DEF IInv, InOrder, AnswerIn, Shapes
<1>1. /\ toPage # <<>> /\ toPage' = Tail(toPage) /\ Head(toPage).e = "query-ready"
      /\ shown'.n = Head(toPage).n
      /\ UNCHANGED <<toWorker, keyups>>
  BY DEF HearQueryReady, box
<1>2. /\ Len(toPage) \in Nat /\ Len(toPage) > 0
      /\ Len(toPage') = Len(toPage) - 1
      /\ \A i \in 1..Len(toPage') : toPage'[i] = toPage[i + 1]
      /\ Head(toPage) = toPage[1]
  BY <1>1, TailShape
<1>3. 1 \in 1..Len(toPage) /\ \A i \in 1..Len(toPage') : i + 1 \in 1..Len(toPage)
  BY <1>2
<1>4. \A i \in 1..Len(toPage') : toPage'[i].e = "query-ready" =>
         /\ AnswerIn(toPage'[i], shown'.n, keyups)
         /\ \A j \in 1..Len(toWorker) : toPage'[i].n <= toWorker[j].n
  <2> SUFFICES ASSUME NEW i \in 1..Len(toPage'), toPage'[i].e = "query-ready"
               PROVE  /\ AnswerIn(toPage'[i], shown'.n, keyups)
                      /\ \A j \in 1..Len(toWorker) : toPage'[i].n <= toWorker[j].n
    OBVIOUS
  <2>1. i + 1 \in 1..Len(toPage) /\ toPage'[i] = toPage[i + 1]
    BY <1>2, <1>3
  <2>2. toPage[1].n <= toPage[i + 1].n
    BY <1>1, <1>2, <1>3, <2>1
  <2> QED
    BY <1>1, <1>2, <2>1, <2>2
<1>5. \A i \in 1..Len(toPage') : \A j \in i..Len(toPage') :
         toPage'[i].e = "query-ready" /\ toPage'[j].e = "query-ready"
             => toPage'[i].n <= toPage'[j].n
  <2> SUFFICES ASSUME NEW i \in 1..Len(toPage'), NEW j \in i..Len(toPage'),
                      toPage'[i].e = "query-ready", toPage'[j].e = "query-ready"
               PROVE  toPage'[i].n <= toPage'[j].n
    OBVIOUS
  <2>1. i + 1 \in 1..Len(toPage) /\ j + 1 \in (i + 1)..Len(toPage)
    BY <1>2
  <2>2. toPage'[i] = toPage[i + 1] /\ toPage'[j] = toPage[j + 1]
    BY <1>2
  <2> QED
    BY <2>1, <2>2
<1>6. \A j \in 1..Len(toWorker) : shown'.n <= toWorker[j].n
  BY <1>1, <1>2, <1>3
<1> QED
  BY <1>1, <1>4, <1>5, <1>6

\* "index-ready" leaves the page's queue and the text typed by then joins the
\* worker's.
LEMMA IndexReadyKeepsOrder == IInv /\ HearIndexReady => InOrder'
<1> SUFFICES ASSUME IInv, HearIndexReady
             PROVE  InOrder'
  OBVIOUS
<1> USE DEF IInv, Shapes
<1>1. /\ Len(toPage) \in Nat /\ Len(toPage') = Len(toPage) - 1
      /\ \A i \in 1..Len(toPage') : toPage'[i] = toPage[i + 1]
  BY TailShape DEF HearIndexReady
<1>2. UNCHANGED <<shown, keyups>> /\ keyups \in Nat
  BY BoundsAssumption DEF HearIndexReady, box, TypeOK
<1>3. /\ toWorker' \in Seq(Messages) /\ toWorker \in Seq(Messages)
      /\ Len(toWorker) <= Len(toWorker')
      /\ \A j \in 1..Len(toWorker) : toWorker'[j] = toWorker[j]
      /\ \A j \in (Len(toWorker) + 1)..Len(toWorker') : toWorker'[j].n = keyups
  <2>1. toWorker' \in Seq(Messages) /\ toWorker \in Seq(Messages)
    BY TypeStep DEF TypeOK, Next
  <2>2. CASE toWorker' = toWorker
    BY <2>1, <2>2
  <2>3. CASE toWorker' = Append(toWorker, [q |-> query, n |-> keyups])
    BY <2>1, <2>3, AppendShape
  <2> QED
    BY <2>1, <2>2, <2>3 DEF HearIndexReady
<1> QED
  BY <1>1, <1>2, <1>3, PostKeepsOrder

\* Every handler keeps the order of the texts.
LEMMA OrderStep == IInv /\ [Next]_vars => InOrder'
<1> SUFFICES ASSUME IInv, [Next]_vars
             PROVE  InOrder'
  OBVIOUS
<1>1. ASSUME NEW text \in Texts, Keyup(text)
      PROVE  InOrder'
  <2>1. /\ toPage' = toPage /\ shown' = shown /\ Len(toPage) \in Nat
        /\ \A i \in 1..Len(toPage') : toPage'[i] = toPage[i + 0]
    BY <1>1 DEF Keyup, IInv, Shapes
  <2>2. keyups \in Nat /\ keyups' = keyups + 1
    BY <1>1, BoundsAssumption DEF Keyup, IInv, TypeOK
  <2>3. /\ toWorker' \in Seq(Messages) /\ toWorker \in Seq(Messages)
        /\ Len(toWorker) <= Len(toWorker')
        /\ \A j \in 1..Len(toWorker) : toWorker'[j] = toWorker[j]
        /\ \A j \in (Len(toWorker) + 1)..Len(toWorker') : toWorker'[j].n = keyups'
    <3>1. toWorker' \in Seq(Messages) /\ toWorker \in Seq(Messages)
      BY TypeStep DEF IInv, TypeOK
    <3>2. CASE toWorker' = toWorker
      BY <3>1, <3>2
    <3>3. CASE toWorker' = toWorker \o [h \in 1..keyupHandlers |->
                                          [q |-> text, n |-> keyups + 1]]
      <4> DEFINE posts == [h \in 1..keyupHandlers |-> [q |-> text, n |-> keyups + 1]]
      <4>1. /\ posts \in Seq(Messages)
            /\ \A h \in 1..Len(posts) : posts[h].n = keyups'
        <5>1. keyups + 1 \in 1..MaxKeyups
          BY <1>1, <2>2, BoundsAssumption DEF Keyup
        <5>2. keyupHandlers \in Nat
          BY DEF IInv, TypeOK
        <5> QED
          BY <5>1, <5>2, <2>2 DEF Messages
      <4>2. toWorker' = toWorker \o posts
        BY <3>3
      <4> HIDE DEF posts
      <4>3. /\ Len(toWorker') = Len(toWorker) + Len(posts)
            /\ Len(posts) \in Nat /\ Len(toWorker) \in Nat
            /\ \A j \in 1..Len(toWorker) : toWorker'[j] = toWorker[j]
        BY <3>1, <4>1, <4>2
      <4>4. ASSUME NEW j \in (Len(toWorker) + 1)..Len(toWorker')
            PROVE  toWorker'[j].n = keyups'
        <5>1. j - Len(toWorker) \in 1..Len(posts)
          BY <4>3
        <5>2. toWorker'[j] = posts[j - Len(toWorker)]
          BY <3>1, <4>1, <4>2, <4>3
        <5> QED
          BY <4>1, <5>1, <5>2
      <4> QED
        BY <3>1, <4>3, <4>4
    <3> QED
      BY <1>1, <3>2, <3>3 DEF Keyup
  <2> QED
    BY <2>1, <2>2, <2>3, PostKeepsOrder
<1>2. CASE SearchDataArrives
  <2>1. CASE toPage' = toPage
    BY <1>2, <2>1 DEF SearchDataArrives, box, IInv, InOrder, AnswerIn
  <2>2. CASE toPage' = Append(toPage, [e |-> "index-ready"])
    <3>1. /\ Len(toPage) \in Nat /\ Len(toPage') = Len(toPage) + 1
          /\ \A i \in 1..Len(toPage) : toPage'[i] = toPage[i]
          /\ toPage'[Len(toPage')].e # "query-ready"
      BY <2>2, AppendShape DEF IInv, Shapes
    <3>2. \A i \in 1..Len(toPage') : toPage'[i].e = "query-ready" =>
              i \in 1..Len(toPage)
      BY <3>1
    <3> QED
      BY <1>2, <3>1, <3>2 DEF SearchDataArrives, box, IInv, InOrder, AnswerIn
  <2> QED
    BY <1>2, <2>1, <2>2 DEF SearchDataArrives
<1>3. ASSUME NEW page \in 1..Cardinality(shown.hits), TurnPage(page)
      PROVE  InOrder'
  <2>1. shown'.n = shown.n
    BY <1>3 DEF TurnPage, IInv, Shapes
  <2> QED
    BY <1>3, <2>1 DEF TurnPage, box, IInv, InOrder, AnswerIn
<1>4. CASE UNCHANGED <<toWorker, toPage, keyups, shown>>
  BY <1>4 DEF IInv, InOrder, AnswerIn
<1>5. \/ AnswerQuery \/ HearIndexReady \/ HearQueryReady \/ SearchDataArrives
      \/ \E text \in Texts : Keyup(text)
      \/ \E page \in 1..Cardinality(shown.hits) : TurnPage(page)
      \/ UNCHANGED <<toWorker, toPage, keyups, shown>>
  BY DEF Next, vars, box, StopWordsArrive, NavbarLoads, TocLoads
<1> QED
  BY <1>1, <1>2, <1>3, <1>4, <1>5, AnswerKeepsOrder, HearKeepsOrder,
     IndexReadyKeepsOrder

-----------------------------------------------------------------------------
\* The invariant holds in every state.
LEMMA Invariant == Spec => []IInv
<1>1. IInv /\ [Next]_vars => IInv'
  BY TypeStep, ShapesStep, OrderStep, BreadcrumbStep, IndexStep DEF IInv
<1> QED
  BY InitialState, <1>1, PTL DEF Spec

\* Worker and page keep to their types: an index is made of both files alone,
\* and no result in the page is of a text not typed yet.
THEOREM TypeCorrect == Spec => []TypeOK
<1>1. IInv => TypeOK
  BY DEF IInv
<1> QED
  BY Invariant, <1>1, PTL

\* Whatever the answers are and whichever came late, the page never goes back to
\* the results of an earlier text.
THEOREM NeverGoesBack == Spec => ResultsNeverGoBack
<1>1. IInv /\ IInv' /\ [Next]_vars => [shown'.n >= shown.n]_shown
  <2> SUFFICES ASSUME IInv, [Next]_vars
               PROVE  [shown'.n >= shown.n]_shown
    OBVIOUS
  <2>1. CASE HearQueryReady
    <3>1. 1 \in 1..Len(toPage) /\ Head(toPage) = toPage[1]
      BY <2>1, TailShape DEF HearQueryReady, IInv, Shapes
    <3>2. shown'.n = toPage[1].n /\ toPage[1].e = "query-ready"
      BY <2>1, <3>1 DEF HearQueryReady
    <3> QED
      BY <3>1, <3>2 DEF IInv, Shapes, InOrder, AnswerIn
  <2>2. ASSUME NEW page \in 1..Cardinality(shown.hits), TurnPage(page)
        PROVE  [shown'.n >= shown.n]_shown
    BY <2>2 DEF TurnPage, IInv, Shapes
  <2>3. \/ HearQueryReady
        \/ \E page \in 1..Cardinality(shown.hits) : TurnPage(page)
        \/ UNCHANGED shown
    BY DEF Next, vars, StopWordsArrive, SearchDataArrives, AnswerQuery, NavbarLoads,
           TocLoads, Keyup, HearIndexReady
  <2> QED
    BY <2>1, <2>2, <2>3
<1> QED
  BY Invariant, <1>1, PTL DEF Spec, ResultsNeverGoBack

\* Whichever navigation loads first, the breadcrumb names both in the end.
THEOREM BreadcrumbComplete == Spec => []BreadcrumbIsComplete
<1>1. IInv => BreadcrumbIsComplete
  <2>1. <<"navbar">> \o <<"toc">> = <<"navbar", "toc">>
    <3> DEFINE both == <<"navbar">> \o <<"toc">>
    <3>1. both \in Seq({"navbar", "toc"}) /\ Len(both) = 2
      OBVIOUS
    <3>2. both[1] = "navbar" /\ both[2] = "toc"
      OBVIOUS
    <3> HIDE DEF both
    <3>3. both = <<"navbar", "toc">>
      BY <3>1, <3>2
    <3> QED
      BY <3>3 DEF both
  <2> QED
    BY <2>1 DEF IInv, BreadcrumbInv, Breadcrumb, BreadcrumbIsComplete
<1> QED
  BY Invariant, <1>1, PTL

\* Given that lunr answers what is a query, the worker answers it, too, unless it
\* is asked before it has an index: then the stop words have not come, or the site
\* is empty.
THEOREM AnsweredOrCaused ==
  ASSUME LunrAnswers
  PROVE  Spec => []UnansweredHasACause
<1>1. Init => UnansweredHasACause
  BY DEF Init, UnansweredHasACause
<1>2. IInv /\ UnansweredHasACause /\ [Next]_vars => UnansweredHasACause'
  <2> SUFFICES ASSUME IInv, UnansweredHasACause, [Next]_vars
               PROVE  UnansweredHasACause'
    OBVIOUS
  <2>1. corpus' = corpus
    BY CorpusStays
  <2>2. CASE UNCHANGED unanswered
    BY <2>1, <2>2 DEF UnansweredHasACause
  <2>3. CASE AnswerQuery
    <3> DEFINE m == Head(toWorker)
               u == [n |-> m.n, q |-> m.q, indexed |-> lunrIndex # NoIndex,
                     stopWords |-> stopWordsRequest]
    <3>1. m \in Messages /\ Handled(m) /\ searchDataRequest = "answered"
      BY <2>3 DEF AnswerQuery, IInv, TypeOK, IndexInv
    <3>2. m.q \in Malformed \/ \E parts \in Meanings : m.q = TypedQuery(parts)
      BY <3>1 DEF Messages, Texts
    <3> HIDE DEF m
    <3>3. CASE lunrIndex = NoIndex
      <4>1. ~u.indexed /\ (u.stopWords # "answered" \/ corpus = <<>>)
        BY <3>1, <3>3 DEF IInv, IndexInv
      <4>2. unanswered' = unanswered \cup {u}
        BY <3>1, <3>3 DEF Handled
      <4> HIDE DEF u
      <4> QED
        BY <2>1, <4>1, <4>2 DEF UnansweredHasACause
    <3>4. CASE lunrIndex # NoIndex /\ Search(lunrIndex, m.q, StopWords).throws
      <4>1. corpus \in Corpora /\ corpus # <<>> /\ lunrIndex = BuildIndex(corpus)
        BY <3>4 DEF IInv, TypeOK, IndexInv
      <4>2. u.q \in Malformed
        BY <3>2, <3>4, <4>1 DEF LunrAnswers
      <4>3. unanswered' = unanswered \cup {u}
        BY <3>1, <3>4 DEF Handled
      <4> HIDE DEF u
      <4> QED
        BY <2>1, <4>2, <4>3 DEF UnansweredHasACause
    <3>5. CASE lunrIndex # NoIndex /\ ~Search(lunrIndex, m.q, StopWords).throws
      BY <2>2, <3>1, <3>5 DEF Handled
    <3> QED
      BY <3>3, <3>4, <3>5
  <2>4. AnswerQuery \/ UNCHANGED unanswered
    BY DEF Next, vars, StopWordsArrive, SearchDataArrives, NavbarLoads, TocLoads, Keyup,
           HearIndexReady, HearQueryReady, TurnPage
  <2> QED
    BY <2>2, <2>3, <2>4
<1> QED
  BY Invariant, <1>1, <1>2, PTL DEF Spec
=============================================================================

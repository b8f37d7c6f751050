---- MODULE DocsSearch ----
(***************************************************************************)
(* The search box of the documentation site: the page (docs/styles/        *)
(* docfx.js) and the web worker it starts (docs/styles/search-worker.js).  *)
(* The worker asks for the stop words and for the site's index.json, makes *)
(* a lunr index when it has both, and answers the page's queries; the page *)
(* asks at every key and shows whatever answer comes.  Both run one event  *)
(* handler at a time, and messages keep their order on the way.            *)
(***************************************************************************)
EXTENDS SearchMeaning

CONSTANTS
    Corpora,       \* the documents that index.json may hold, in its order
    StopWords,     \* the words of search-stopwords.json
    Meanings,      \* the queries a user types, as parts
    Malformed,     \* texts a user types that are no query
    MaxKeyups,     \* bound: how often the user types
    NumPerPage,    \* numPerPage of handleSearchResults (10 in the code)
    NoIndex        \* lunrIndex before it is assigned

ASSUME BoundsAssumption == MaxKeyups \in Nat /\ NumPerPage \in Nat \ {0}

VARIABLES
    corpus,             \* what index.json holds on the server
    stopWordsRequest,   \* the worker's two requests: "sent", "answered", "failed"
    searchDataRequest,
    lunrIndex,          \* the worker's index
    toWorker,           \* messages on their way to the worker
    toPage,             \* and to the page
    navbar,             \* FALSE until the navigation bar is loaded
    toc,                \* FALSE until the table of contents is loaded
    breadcrumb,         \* the active items the breadcrumb names
    keyupHandlers,      \* handlers of the search box's keyup event
    indexReady,         \* whether the Deferred of webWorkerSearch is resolved
    query,              \* the text in the search box
    keyups,             \* history: how many times the user has typed
    shown,              \* the results in the page
    resultsVisible,     \* whether they are in sight (flipContents)
    unanswered          \* history: the queries the worker threw an exception at

worker == <<stopWordsRequest, searchDataRequest, lunrIndex>>
layout == <<navbar, toc, breadcrumb, keyupHandlers>>
box    == <<query, keyups, resultsVisible>>
vars   == <<corpus, worker, toWorker, toPage, layout, indexReady, box, shown,
            unanswered>>

\* The fields the worker indexes, "title" and "keywords" by their initials.
Fields == << <<"t">>, <<"k">> >>

\* lunr.tokenizer.separator as the worker sets it.
Separator == {" ", "-", "."}

Texts == {TypedQuery(parts) : parts \in Meanings} \cup Malformed

Messages == [q : Texts, n : 1..MaxKeyups]

TypeOK ==
    /\ corpus \in Corpora
    /\ {stopWordsRequest, searchDataRequest} \subseteq {"sent", "answered", "failed"}
    /\ lunrIndex # NoIndex => stopWordsRequest = "answered"
                              /\ searchDataRequest = "answered"
    /\ toWorker \in Seq(Messages)
    /\ \A m \in Range(toPage) : m.e \in {"index-ready", "query-ready"}
    /\ keyupHandlers \in {0, 2}
    /\ indexReady \in BOOLEAN /\ resultsVisible \in BOOLEAN
    /\ query \in Texts \cup {<<>>}
    /\ keyups \in 0..MaxKeyups
    /\ shown.n <= keyups /\ shown.linksOf <= keyups

-----------------------------------------------------------------------------
(* The worker                                                              *)

\* The function that buildIndex gives to lunr: no stopWordFilter, two fields,
\* every document, and only then the site's own filter, in both pipelines.
BuildIndex(docs) ==
    LET config == [NewIndexBuilder(Fields) EXCEPT
                      !.pipeline = RemoveFirst(@, "stopWordFilter")]
        filled == FoldLeft(LAMBDA b, d : AddDocument(b, d, Separator, StopWords),
                           config, docs)
    IN  BuildOf([filled EXCEPT
                    !.pipeline = Append(@, "docfxStopWordFilter"),
                    !.searchPipeline = Append(@, "docfxStopWordFilter")])

\* undefined is not an index.
ASSUME NoIndexAssumption == \A docs \in Corpora : BuildIndex(docs) # NoIndex

\* Faulty variant: one file is enough.
BuiltWithEither(stopWordsState, searchDataState) ==
    IF (stopWordsState = "answered" \/ searchDataState = "answered") /\ corpus # <<>>
    THEN BuildIndex(corpus)
    ELSE lunrIndex

\* buildIndex does nothing until both files are there; an empty index.json
\* never is.
BuiltWith(stopWordsState, searchDataState) ==
    IF stopWordsState = "answered" /\ searchDataState = "answered" /\ corpus # <<>>
    THEN BuildIndex(corpus)
    ELSE lunrIndex

\* Faulty variant: only the arrival of index.json builds the index.
StopWordsArriveQuietly ==
    /\ stopWordsRequest = "sent"
    /\ stopWordsRequest' \in {"answered", "failed"}
    /\ UNCHANGED <<corpus, searchDataRequest, lunrIndex, toWorker, toPage, layout,
                   indexReady, box, shown, unanswered>>

StopWordsArrive ==
    /\ stopWordsRequest = "sent"
    /\ \E outcome \in {"answered", "failed"} :
          /\ stopWordsRequest' = outcome
          /\ lunrIndex' = BuiltWith(outcome, searchDataRequest)
    /\ UNCHANGED <<corpus, searchDataRequest, toWorker, toPage, layout,
                   indexReady, box, shown, unanswered>>

\* The page is told that the index is ready, be it there or not.
SearchDataArrives ==
    /\ searchDataRequest = "sent"
    /\ \/ /\ searchDataRequest' = "answered"
          /\ lunrIndex' = BuiltWith(stopWordsRequest, "answered")
          /\ toPage' = Append(toPage, [e |-> "index-ready"])
       \/ /\ searchDataRequest' = "failed"
          /\ UNCHANGED <<lunrIndex, toPage>>
    /\ UNCHANGED <<corpus, stopWordsRequest, toWorker, layout, indexReady, box,
                   shown, unanswered>>

\* What onmessage makes of a message.  Without an index, or when search
\* throws, no answer is posted.  An answer is kept here as search returns it;
\* of each hit the page gets what index.json says of it.
Handled(m) ==
    LET result == IF lunrIndex = NoIndex THEN [throws |-> TRUE]
                  ELSE Search(lunrIndex, m.q, StopWords)
    IN  IF result.throws
        THEN /\ unanswered' = unanswered \cup
                   {[n |-> m.n, q |-> m.q, indexed |-> lunrIndex # NoIndex,
                     stopWords |-> stopWordsRequest]}
             /\ UNCHANGED toPage
        ELSE /\ toPage' = Append(toPage, [e |-> "query-ready", q |-> m.q,
                                          n |-> m.n, d |-> result.hits])
             /\ UNCHANGED unanswered

\* Faulty variant: the latest query first.
AnswerLatest ==
    /\ toWorker # <<>>
    /\ Handled(Last(toWorker))
    /\ toWorker' = Front(toWorker)
    /\ UNCHANGED <<corpus, worker, layout, indexReady, box, shown>>

\* onmessage of the worker.
AnswerQuery ==
    /\ toWorker # <<>>
    /\ Handled(Head(toWorker))
    /\ toWorker' = Tail(toWorker)
    /\ UNCHANGED <<corpus, worker, layout, indexReady, box, shown>>

-----------------------------------------------------------------------------
(* The page                                                                *)

\* renderBreadcrumb: the active items that are in the page by now.
Breadcrumb(hasNavbar, hasToc) ==
    (IF hasNavbar THEN <<"navbar">> ELSE <<>>) \o (IF hasToc THEN <<"toc">> ELSE <<>>)

\* The callback of loadNavbar calls showSearch, and so does the second
\* renderNavbar it ends with: each binds a keyup handler to the search box.
NavbarLoads ==
    /\ ~navbar
    /\ navbar' = TRUE
    /\ keyupHandlers' = keyupHandlers + 2
    /\ breadcrumb' = Breadcrumb(TRUE, toc)
    /\ UNCHANGED <<corpus, worker, toWorker, toPage, toc, indexReady, box, shown,
                   unanswered>>

\* Faulty variant: only the navigation bar renders the breadcrumb.
TocLoadsSilently ==
    /\ ~toc
    /\ toc' = TRUE
    /\ UNCHANGED <<corpus, worker, toWorker, toPage, navbar, breadcrumb,
                   keyupHandlers, indexReady, box, shown, unanswered>>

TocLoads ==
    /\ ~toc
    /\ toc' = TRUE
    /\ breadcrumb' = Breadcrumb(navbar, TRUE)
    /\ UNCHANGED <<corpus, worker, toWorker, toPage, navbar, keyupHandlers,
                   indexReady, box, shown, unanswered>>

IsSearched(text) == Len(text) >= 3

\* The user types, and every keyup handler runs: a text of three characters
\* or more hides the page and, once the index is said to be ready, is posted.
Keyup(text) ==
    /\ keyupHandlers > 0
    /\ keyups < MaxKeyups
    /\ keyups' = keyups + 1
    /\ query' = text
    /\ resultsVisible' = IsSearched(text)
    /\ toWorker' = IF IsSearched(text) /\ indexReady
                   THEN toWorker \o [h \in 1..keyupHandlers |->
                                        [q |-> text, n |-> keyups + 1]]
                   ELSE toWorker
    /\ UNCHANGED <<corpus, worker, toPage, layout, indexReady, shown, unanswered>>

\* Faulty variant: what was typed before the index was ready stays unasked.
HearIndexReadyOnly ==
    /\ toPage # <<>>
    /\ Head(toPage).e = "index-ready"
    /\ toPage' = Tail(toPage)
    /\ indexReady' = TRUE
    /\ UNCHANGED <<corpus, worker, toWorker, layout, box, shown, unanswered>>

\* worker.onmessage, "index-ready": the Deferred is resolved, queryReady is
\* bound and the text typed so far is posted.
HearIndexReady ==
    /\ toPage # <<>>
    /\ Head(toPage).e = "index-ready"
    /\ toPage' = Tail(toPage)
    /\ indexReady' = TRUE
    /\ toWorker' = IF IsSearched(query)
                   THEN Append(toWorker, [q |-> query, n |-> keyups])
                   ELSE toWorker
    /\ UNCHANGED <<corpus, worker, layout, box, shown, unanswered>>

\* worker.onmessage, "query-ready", and handleSearchResults: the hits replace
\* those in the page, whatever was typed since; their links are made with the
\* text that is in the box now.
HearQueryReady ==
    /\ toPage # <<>>
    /\ Head(toPage).e = "query-ready"
    /\ toPage' = Tail(toPage)
    /\ shown' = [n |-> Head(toPage).n, hits |-> DOMAIN Head(toPage).d, page |-> 1,
                 linksOf |-> keyups]
    /\ UNCHANGED <<corpus, worker, toWorker, layout, indexReady, box, unanswered>>

\* onPageClick: another slice of the hits.
TurnPage(page) ==
    /\ resultsVisible
    /\ (page - 1) * NumPerPage < Cardinality(shown.hits)
    /\ shown' = [shown EXCEPT !.page = page, !.linksOf = keyups]
    /\ UNCHANGED <<corpus, worker, toWorker, toPage, layout, indexReady, box,
                   unanswered>>

-----------------------------------------------------------------------------
Init ==
    /\ corpus \in Corpora
    /\ stopWordsRequest = "sent" /\ searchDataRequest = "sent"
    /\ lunrIndex = NoIndex
    /\ toWorker = <<>> /\ toPage = <<>>
    /\ navbar = FALSE /\ toc = FALSE /\ breadcrumb = <<>>
    /\ keyupHandlers = 0
    /\ indexReady = FALSE
    /\ query = <<>> /\ keyups = 0
    /\ shown = [n |-> 0, hits |-> {}, page |-> 1, linksOf |-> 0]
    /\ resultsVisible = FALSE
    /\ unanswered = {}

Next ==
    \/ StopWordsArrive
    \/ SearchDataArrives
    \/ AnswerQuery
    \/ NavbarLoads
    \/ TocLoads
    \/ \E text \in Texts : Keyup(text)
    \/ HearIndexReady
    \/ HearQueryReady
    \/ \E page \in 1..Cardinality(shown.hits) : TurnPage(page)

Answered(request) == request = "sent" /\ request' \in {"answered", "failed"}

Delivered(channel) == channel # <<>> /\ channel' = Tail(channel)

\* The browser delivers an answer or an error for every request, and every
\* message; it owes nothing to the user, nor the navigation to the page.
\* Each of these steps is one action's: StopWordsArrive, SearchDataArrives,
\* AnswerQuery, and HearIndexReady or HearQueryReady.
Fairness ==
    /\ WF_stopWordsRequest(Answered(stopWordsRequest))
    /\ WF_searchDataRequest(Answered(searchDataRequest))
    /\ WF_toWorker(Delivered(toWorker))
    /\ WF_toPage(Delivered(toPage))

Spec == Init /\ [][Next]_vars /\ Fairness

-----------------------------------------------------------------------------
(* Properties                                                              *)

\* An index, when the worker has made one, is an index of index.json: every
\* term of every document is filed under it and under no other, the token set
\* is the minimal automaton of exactly the terms, the vectors are sorted; and
\* an index that is written out and loaded again is the same automaton.
IndexHoldsTheCorpus ==
    [][lunrIndex' # lunrIndex =>
          /\ IsIndexOf(lunrIndex', corpus, Separator)
          /\ Load(ToJSON(lunrIndex')).tokenSet = lunrIndex'.tokenSet]_lunrIndex

\* An answer to a query that means something holds exactly the documents it
\* asks for, through lexer, parser, expansion and postings, each of them with
\* the terms it was asked for by and with a score above zero; of the edits that
\* fromFuzzyString lists, one is left out: a character after the last one.
AnswersMeanTheirQueries ==
    [][\A parts \in Meanings :
          LET m == Last(toPage')
          IN  (Len(toPage') > Len(toPage) /\ m.e = "query-ready"
                  /\ m.q = TypedQuery(parts)) =>
                /\ [d \in DOMAIN m.d |-> m.d[d].matchData] =
                       Answer(corpus, parts, Separator, StopWords)
                /\ \A d \in DOMAIN m.d : m.d[d].score > 0]_toPage

\* The results in the page never give way to the answer of an earlier query.
ResultsNeverGoBack == [][shown'.n >= shown.n]_shown

\* The worker leaves a query without an answer for two reasons only: its text
\* is no query, or the page was told of the index before there was one - and
\* then the stop words had not come, or the site is empty.
UnansweredHasACause ==
    \A u \in unanswered :
        \/ u.q \in Malformed
        \/ ~u.indexed /\ (u.stopWords # "answered" \/ corpus = <<>>)

\* The breadcrumb names the active items of both navigations once both are
\* loaded, whichever came first.
BreadcrumbIsComplete == navbar /\ toc => breadcrumb = <<"navbar", "toc">>

\* The last text typed has its results shown in the end, unless the worker
\* threw at it or index.json could not be had.
LastQueryIsShown ==
    \A n \in 1..MaxKeyups :
        (keyups = n /\ IsSearched(query)) ~>
            \/ keyups > n
            \/ shown.n = n
            \/ \E u \in unanswered : u.n = n
            \/ searchDataRequest = "failed"

\* A page is found by its title: an answer to a text that is some document's
\* title holds that document.
TitleFindsItsPage ==
    \A m \in Range(toPage) : \A d \in Range(corpus) :
        (m.e = "query-ready" /\ d.text[Fields[1]] = m.q) => d.href \in DOMAIN m.d

=============================================================================

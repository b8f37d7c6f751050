---- MODULE MCDocsSearch ----
(* Three sites, one of them empty, and queries that between them use every *)
(* construct of the query language.                                        *)
EXTENDS DocsSearch

Chars(str) == [i \in 1..Len(str) |-> SubSeq(str, i, i)]

Doc(href, title, keywords) ==
    [href |-> href, text |-> <<"t">> :> Chars(title) @@ <<"k">> :> Chars(keywords)]

SomeCorpora ==
    { <<>>,
      << Doc("d1", "Cab.Stack", "a cat tabs"),
         Doc("d2", "back tack", "cats-12 stack tack"),
         Doc("d3", "Tack a 12", "stack cats tabs cab 1a back") >>,
      << Doc("e1", "abc", "10 a:b 1"),
         Doc("e2", "~ :ABC: act", ""),
         Doc("e3", "cab ack", "abcs abc") >> }

SomeStopWords == {Chars("tab"), Chars("act")}

Part(field, term, edits, boost) ==
    [field |-> Chars(field), term |-> Chars(term), edits |-> edits, boost |-> boost]

SomeMeanings ==
    { << Part("", "Cats", NoEdits, 1), Part("", "a:b", NoEdits, 1) >>,
      << Part("k", "tabs", NoEdits, 2), Part("", "bac", 1, 1) >>,
      << Part("t", "*ac*", NoEdits, 1) >>,
      << Part("", "a*", NoEdits, 1), Part("k", "abc", NoEdits, 2) >>,
      << Part("", "sack", 1, 1) >> }

SomeMalformed == {Chars("abc~"), Chars("b:abc"), Chars("ab")}

SomeTitles ==
    { << Part("", "abc", NoEdits, 1) >>,
      << Part("", "back", NoEdits, 1), Part("", "tack", NoEdits, 1) >>,
      << Part("", "Cab.Stack", NoEdits, 1) >> }
=============================================================================

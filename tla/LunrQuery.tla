---- MODULE LunrQuery ----
(***************************************************************************)
(* The query language of lunr (docs/styles/lunr.js): QueryLexer cuts the   *)
(* text a user typed into lexemes, QueryParser makes the clauses of a      *)
(* lunr.Query of them.  The functions of both that return the next one are *)
(* the states of two small machines; here the lexer is a function of the   *)
(* position it has reached and the parser a fold over the lexemes.         *)
(***************************************************************************)
EXTENDS LunrTokenSet

\* lunr.QueryLexer.termSeparator: the tokenizer's separator at the time that
\* lunr.js was loaded.
TermSeparator == {" ", "-"}

Delimiters == {":", "~", "^"} \cup TermSeparator

\* lexText: the first delimiter from position p on; a backslash takes the next
\* character with it.  One past the end (QueryLexer.EOS) when there is none.
Delimiter(str, p) ==
    LET scan[i \in Nat] ==
            IF i > Len(str) THEN Len(str) + 1
            ELSE IF str[i] = "\\" THEN scan[i + 2]
            ELSE IF str[i] \in Delimiters THEN i
            ELSE scan[i + 1]
    IN  scan[p]

\* sliceString: the text without the backslashes.
Unescaped(str) ==
    LET from[i \in Nat] ==
            IF i > Len(str) THEN <<>>
            ELSE IF str[i] = "\\"
                 THEN SubSeq(str, i + 1, Min({i + 1, Len(str)})) \o from[i + 2]
                 ELSE <<str[i]>> \o from[i + 1]
    IN  from[1]

\* acceptDigitRun: the position after the digits that start at p.
AfterDigits(str, p) ==
    Min({i \in p..(Len(str) + 1) :
            i = Len(str) + 1 \/ str[i] \notin Range(DigitChars)})

Lexeme(type, str) == <<[type |-> type, str |-> str]>>

\* lunr.QueryLexer.run.  A term of width 0 is not emitted, a field always is.
Lexemes(str) ==
    LET from[p \in Nat] ==
            LET d    == Delimiter(str, p)
                text == Unescaped(SubSeq(str, p, d - 1))
                term == IF d > p THEN Lexeme("TERM", text) ELSE <<>>
                after == AfterDigits(str, d + 1)
                amount == SubSeq(str, d + 1, after - 1)
            IN  IF d > Len(str) THEN term
                ELSE CASE str[d] = ":" -> Lexeme("FIELD", text) \o from[d + 1]
                       [] str[d] = "~" -> term \o Lexeme("EDIT_DISTANCE", amount)
                                               \o from[after]
                       [] str[d] = "^" -> term \o Lexeme("BOOST", amount)
                                               \o from[after]
                       [] str[d] \in TermSeparator -> term \o from[d + 1]
    IN  from[1]

-----------------------------------------------------------------------------
NoEditDistance == -1

\* The clause the parser starts with, with the defaults of Query.clause.
NewClause(allFields) ==
    [fields |-> allFields, term |-> <<>>, boost |-> 1,
     editDistance |-> NoEditDistance, usePipeline |-> TRUE]

\* parseInt(str, 10) on a run of digits that is not empty.
ParseInt(digits) ==
    FoldLeft(LAMBDA n, c : 10 * n + SelectInSeq(DigitChars, LAMBDA d : d = c) - 1,
             0, digits)

\* What the parser has behind it: "start" nothing, "field" a field that waits
\* for its term, "term" a clause that may take modifiers, "error" a
\* QueryParseError.
NewParse(allFields) ==
    [state |-> "start", clauses |-> <<>>, current |-> NewClause(allFields)]

\* nextClause: a term or a field after a clause completes the clause.
Completed(parse) ==
    IF parse.state = "term" THEN Append(parse.clauses, parse.current)
    ELSE parse.clauses

ParseField(parse, name, allFields) ==
    [state   |-> IF name \in Range(allFields) THEN "field" ELSE "error",
     clauses |-> Completed(parse),
     current |-> [NewClause(allFields) EXCEPT !.fields = <<name>>]]

\* Faulty variant: the clause before it is not left behind.
ParseTermOnClause(parse, str, allFields) ==
    [state   |-> "term",
     clauses |-> Completed(parse),
     current |-> [parse.current EXCEPT !.term = ToLowerCase(str),
                                       !.usePipeline = ~Contains(str, "*")]]

ParseTerm(parse, str, allFields) ==
    LET clause == IF parse.state = "field" THEN parse.current
                  ELSE NewClause(allFields)
    IN  [state   |-> "term",
         clauses |-> Completed(parse),
         current |-> [clause EXCEPT !.term = ToLowerCase(str),
                                    !.usePipeline = ~Contains(str, "*")]]

\* An amount without digits is no number.
ParseEditDistance(parse, digits) ==
    IF digits = <<>> THEN [parse EXCEPT !.state = "error"]
    ELSE [parse EXCEPT !.current.editDistance = ParseInt(digits)]

ParseBoost(parse, digits) ==
    IF digits = <<>> THEN [parse EXCEPT !.state = "error"]
    ELSE [parse EXCEPT !.current.boost = ParseInt(digits)]

\* One lexeme, by its type and by what precedes it.
ParseLexeme(parse, lexeme, allFields) ==
    CASE lexeme.type = "FIELD" /\ parse.state \in {"start", "term"} ->
             ParseField(parse, lexeme.str, allFields)
      [] lexeme.type = "TERM" /\ parse.state # "error" ->
             ParseTerm(parse, lexeme.str, allFields)
      [] lexeme.type = "EDIT_DISTANCE" /\ parse.state = "term" ->
             ParseEditDistance(parse, lexeme.str)
      [] lexeme.type = "BOOST" /\ parse.state = "term" ->
             ParseBoost(parse, lexeme.str)
      [] OTHER -> [parse EXCEPT !.state = "error"]

\* lunr.QueryParser.parse: the clauses, or that the text is no query.
ParseQuery(str, allFields) ==
    LET parse == FoldLeft(LAMBDA p, x : ParseLexeme(p, x, allFields),
                          NewParse(allFields), Lexemes(str))
    IN  [error   |-> parse.state \in {"field", "error"},
         clauses |-> Completed(parse)]

=============================================================================

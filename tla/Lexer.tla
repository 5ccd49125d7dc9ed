------------------------------- MODULE Lexer -------------------------------
(***************************************************************************)
(* The lexer (src/atalan/lexer.c): lines into tokens, and the ends of the  *)
(* blocks of lines, parentheses and indentation into TOKEN_BLOCK_END.      *)
(*                                                                         *)
(* A line is its indent and its tokens; a token is [t, v, near]: its kind, *)
(* its name or number, and whether no space is before it.  Empty and       *)
(* comment lines have no tokens.  The state of the parser, of which the    *)
(* lexer's variables are a part, is a record p:                            *)
(*   lines, no, pos  the current file, LINE_NO and LINE_POS                *)
(*   tok, tpos       TOK (with NAME, LEX.n, TOK_NO_SPACES) and TOKEN_POS   *)
(*   blk             the stack BLK                                         *)
(*   open            the files being parsed: names and where they stopped  *)
(*   known           the names of all files loaded                         *)
(*   dir             FILE_DIR                                              *)
(*   errors          ERROR_CNT                                             *)
(*   hangs           whether a loop of the parser takes no token any more  *)
(***************************************************************************)
EXTENDS Integers, Sequences, SequencesExt, FiniteSets

CONSTANT Files      \* <<directory, name>> -> lines

Undefined == 65535  \* UNDEFINED_INDENT

Token(t)    == [t |-> t, v |-> "", near |-> FALSE]
TokenEnd    == Token("block_end")
Keywords    == {"goto", "if", "unless", "then", "else", "proc", "macro", "and", "or", "not",
                "while", "until", "where", "const", "for", "times", "use", "step", "return",
                "scope", "sequence", "assert", "either", "in", "out", "param", "type", "debug", "mod",
                "bitand", "bitor", "bitxor", "lo", "hi"}
Top(p)      == Last(p.blk)
Is(p, t)    == p.tok.t = t
Failed(p)   == p.tok.t = "error"
EndedStops(b) == [b EXCEPT !.end = "block_end"]     \* mutant: the stop token is kept
Ended(b) == [b EXCEPT !.end = "block_end", !.stop = "void"]

SyntaxError(p) == [p EXCEPT !.tok = Token("error"), !.errors = @ + 1]
ErrorIf(bad, p) == IF bad THEN SyntaxError(p) ELSE p

\* The file of a block is at the bottom of the lexer's blocks.
LexerInit == [blk |-> <<[end |-> "void", stop |-> "void", indent |-> 0]>>,
              lines |-> <<>>, no |-> 0, pos |-> 1, tok |-> Token("void"), tpos |-> 1,
              open |-> <<>>, known |-> {}, dir |-> "", errors |-> 0,
              hangs |-> FALSE]

Line(p)      == p.lines[p.no]
LineDone(p)  == p.no = 0 \/ p.no > Len(p.lines) \/ p.pos > Len(Line(p).toks) + 1
NextToRead(p) == LET more == {k \in p.no + 1 .. Len(p.lines) : p.lines[k].toks # <<>>}
                 IN IF more = {} THEN Len(p.lines) + 1 ELSE CHOOSE k \in more : \A m \in more : k <= m

\* Blocks from the n-th to the top of the stack, and those on the top for which Test
\* holds; block 1 is the root.
EndFrom(blk, n, End(_)) == SubSeq(blk, 1, n - 1) \o [k \in 1 .. Len(blk) - n + 1 |-> End(blk[n + k - 1])]
EndWhile(blk, Test(_), End(_)) ==
    LET tops == {k \in 2 .. Len(blk) + 1 : \A m \in k..Len(blk) : Test(blk[m])}
    IN  EndFrom(blk, CHOOSE k \in tops : \A l \in tops : k <= l, End)

\* At the end of a file all its blocks end, parentheses with an error.
EndOfFile(p) ==
    LET files   == {k \in 2..Len(p.blk) : p.blk[k].end = "eof"}
        file    == IF files = {} THEN 2 ELSE CHOOSE k \in files : \A l \in files : l <= k
        missing == \E k \in file..Len(p.blk) : p.blk[k].end = ")"
    IN  ErrorIf(missing, [p EXCEPT !.blk = EndFrom(@, file, Ended)])

\* A line that is indented less than a block ends it.
NewIndent(p, indent) ==
    LET n    == Len(p.blk)
        open == p.blk[n].indent = Undefined
        lost(top) == indent < p.blk[top].indent /\ \A k \in 2..top : p.blk[k].indent # indent
    IN  ErrorIf(lost(IF open THEN n - 1 ELSE n),
                [p EXCEPT !.blk[n].indent = CASE ~open -> @
                                              [] open /\ indent <= p.blk[n - 1].indent -> indent + 1
                                              [] OTHER -> indent,
                          !.blk = EndWhile(@, LAMBDA b : /\ b.end \in {"block_end", "outdent", "eol"}
                                                         /\ b.indent > indent, Ended)])

ReadNext(p) == IF p.no > Len(p.lines) THEN EndOfFile(p) ELSE NewIndent(p, Line(p).indent)
ReadLine(p) == ReadNext([p EXCEPT !.no = NextToRead(p), !.pos = 1])

\* A new line ends the blocks that are lines; those ended before keep their stop.
LineRead(p) ==
    [ReadLine(p) EXCEPT !.blk = EndWhile(@, LAMBDA b : b.end \in {"eol", "block_end"},
                                         LAMBDA b : IF b.end = "eol" THEN Ended(b) ELSE b)]

\* The token at the position of the line.
Scanned(p) ==
    [p EXCEPT !.tpos = p.pos, !.pos = @ + 1,
              !.tok = IF p.pos > Len(Line(p).toks) THEN Token("eol") ELSE Line(p).toks[p.pos]]

\* The end token of the block on the top may be the token.
EndsHere(q, top) ==
    CASE q.tok.t = "eol"    -> q
      [] q.tok.t = top.stop -> [q EXCEPT !.tok = [TokenEnd EXCEPT !.near = q.tok.near],
                                         !.blk[Len(q.blk)].end = "block_end"]
      [] q.tok.t = top.end  -> [q EXCEPT !.tok = [TokenEnd EXCEPT !.near = q.tok.near],
                                         !.blk = Front(@)]
      [] OTHER -> q

RECURSIVE NextToken(_)
NextToken(p) ==
    CASE Top(p).end = "block_end" ->
           [p EXCEPT !.tok = IF Top(p).stop = "void" THEN TokenEnd ELSE Token(Top(p).stop),
                     !.blk = Front(@)]
      [] Top(p).end # "block_end" /\ LineDone(p) -> NextToken(LineRead(p))
      [] OTHER -> EndsHere(Scanned(p), Top(p))

\* Whether a space, or the end of the line, follows the token.
Spaces(p) == \/ p.no = 0 \/ p.no > Len(p.lines)
             \/ p.pos > Len(Line(p).toks)
             \/ ~Line(p).toks[p.pos].near

\* Skip a token that may be there; IF Is(p, t) tells whether it was.
NextIs(p, t) == IF Is(p, t) THEN NextToken(p) ELSE p

\* The next token must be an identifier: a keyword is read as one.
AsId(q) == CASE Is(q, "id") -> q
             [] q.tok.t \in Keywords -> [q EXCEPT !.tok = [@ EXCEPT !.t = "id", !.v = q.tok.t]]
             [] OTHER -> SyntaxError(q)
ExpectId(p) == IF Failed(p) THEN p ELSE AsId(NextToken(p))

Push(p, end, stop, indent) ==
    [p EXCEPT !.blk = Append(@, [end |-> end, stop |-> stop, indent |-> indent])]

Closing == "(" :> ")" @@ "[" :> "]" @@ "eol" :> "outdent"
EnterBlockWithStop(p, stop) ==
    LET indent == Top(p).indent
    IN  CASE p.tok.t \in DOMAIN Closing ->
               NextToken(Push(p, Closing[p.tok.t], "void", IF Is(p, "eol") THEN Undefined ELSE indent))
          [] Is(p, "block_end") -> Push(p, "block_end", "void", indent)
          [] Is(p, stop)  -> [p EXCEPT !.pos = p.tpos, !.tok = TokenEnd]
          [] OTHER        -> Push(p, "eol", stop, indent)

EnterBlock(p) == EnterBlockWithStop(p, "void")

\* Leave a block before its end; the token may be the end of the next one.
ExitBlock(p) ==
    LET below == Front(p.blk)
    IN  IF Last(below).end = p.tok.t THEN [p EXCEPT !.blk = Front(below), !.tok = TokenEnd]
        ELSE [p EXCEPT !.blk = below]

-----------------------------------------------------------------------------
(* Source files. *)

ParseStateLabel(p) == [lines |-> p.lines, no |-> p.no, pos |-> p.pos, tok |-> p.tok]
ParseStateGoto(p, s) == [p EXCEPT !.lines = s.lines, !.no = s.no, !.pos = s.pos, !.tok = s.tok]

\* The first of the directories that has the file.
FindFile(p, name) ==
    LET has == SelectSeq(<<p.dir, "project", "platform", name, "module">>,
                         LAMBDA d : <<d, name>> \in DOMAIN Files)
    IN  IF has = <<>> THEN "" ELSE has[1]

\* { name "=" value ["," name "=" value]* } in parentheses; the values are
\* constants of the file.
ParameterValue(x, name) == [p |-> NextToken(x.p), values |-> (name :> x.p.tok.v) @@ x.values]
Named(x, name) == IF Is(x.p, "=") THEN ParameterValue([x EXCEPT !.p = NextToken(@)], name) ELSE x
OneParameter(x) == IF Is(x.p, "id") THEN Named([x EXCEPT !.p = NextToken(@)], x.p.tok.v) ELSE x

RECURSIVE Parameters(_)
AfterParameter(x) ==
    CASE Is(x.p, ",")         -> Parameters([x EXCEPT !.p = NextToken(@)])
      [] Is(x.p, "block_end") -> [x EXCEPT !.p = NextToken(@)]
      [] Is(x.p, "id")        -> Parameters(x)
      [] OTHER                -> [x EXCEPT !.p.hangs = TRUE]
Parameters(x) == AfterParameter(OneParameter(x))

ParametersIn(q) ==
    IF Is(q, "(") THEN Parameters([p |-> EnterBlock(q), values |-> <<>>])
    ELSE [p |-> q, values |-> <<>>]
ParseModuleParameters(p) == ParametersIn(NextToken(p))

\* The lines become the input; where the using file goes on is kept.
Opened(p, name, values, lines) ==
    [p EXCEPT !.open = Append(@, [name |-> name, values |-> values, state |-> ParseStateLabel(p)]),
              !.known = @ \cup {name}, !.lines = lines, !.no = 0, !.pos = 1, !.tok = Token("eol")]

\* Use a file as the input, unless it is loaded; cyclic uses are an error.
SrcOpen(p, name, options) ==
    LET dir    == FindFile(p, name)
        here   == [p EXCEPT !.dir = dir]
        cyclic == \E k \in 1..Len(p.open) : p.open[k].name = name
        fresh  == ~cyclic /\ name \notin p.known
        input(x) == IF fresh THEN Opened(x.p, name, x.values, Files[<<dir, name>>]) ELSE x.p
        given(q) == input(IF options THEN ParseModuleParameters(q) ELSE [p |-> q, values |-> <<>>])
    IN  IF dir = "" THEN [SyntaxError([p EXCEPT !.blk = Front(@)]) EXCEPT !.tok = p.tok]
        ELSE given(CASE cyclic -> SyntaxError(here)
                     [] fresh  -> Push(here, "eof", "void", 0)
                     [] OTHER  -> here)

SrcClose(p) ==
    LET q == ParseStateGoto([p EXCEPT !.open = Front(@)], Last(p.open).state)
    IN  IF Failed(p) THEN [q EXCEPT !.tok = p.tok] ELSE q
=============================================================================

------------------------------ MODULE Scanner ------------------------------
(***************************************************************************)
(* The scanner (src/frontend/scanner.cpp): a source text, given as a       *)
(* sequence of characters, becomes a sequence of tokens, one step of the   *)
(* machine for each turn of the loop of scanTokens.                        *)
(*                                                                         *)
(* Positions are counted from 0.  The end of the source reads as NUL.  An  *)
(* escape in the value of a string is one symbol.                          *)
(***************************************************************************)
EXTENDS Integers, FiniteSetsExt, SequencesExt

CONSTANTS Texts,               \* the source files, sequences of characters
          Keywords             \* a function from the texts of keywords to their token types

VARIABLES file,                \* the source file
          mode,                \* LEGACY or CST
          scanner,             \* the state of the scanner
          done

scannerVars == << file, mode, scanner, done >>

NUL == "NUL"
CR  == "CR"
LF  == "LF"
QUOTES == {"\"", "'"}
Digits  == {"0", "1"}
Letters == {"a", "e", "f", "i", "m", "n", "s", "t", "_"}

isDigit(c) == c \in Digits
isAlpha(c) == c \in Letters
isAlphaNumeric(c) == isDigit(c) \/ isAlpha(c)

\* CRLF and a CR alone become LF.
normalizeLineEndings(s) ==
  LET kept == SelectSeq([i \in DOMAIN s |-> i], LAMBDA i : ~(s[i] = LF /\ i > 1 /\ s[i - 1] = CR))
  IN [i \in DOMAIN kept |-> IF s[kept[i]] = CR THEN LF ELSE s[kept[i]]]

\* A scanner at the start of a text.
New(s, m) == [source |-> normalizeLineEndings(s), mode |-> m, start |-> 0, current |-> 0, line |-> 1,
              tokens |-> <<>>, triviaBuffer |-> <<>>, errors |-> 0]

isAtEnd(st) == st.current >= Len(st.source)
At(st, i)   == IF i < Len(st.source) THEN st.source[i + 1] ELSE NUL
peek(st)     == At(st, st.current)
peekNext(st) == At(st, st.current + 1)
Slice(st, i, j) == SubSeq(st.source, i + 1, j)

Skip(st, n)  == [st EXCEPT !.current = @ + n]
error(st)    == [st EXCEPT !.errors = @ + 1]

\* The first position from i on where a character with P stands, or the end.
First(st, i, P(_)) == Min({j \in i .. Len(st.source) : j = Len(st.source) \/ P(At(st, j))})
SkipTo(st, P(_))   == [st EXCEPT !.current = First(st, st.current, P)]

LinesIn(st, i, j) == Cardinality({k \in i .. j - 1 : At(st, k) = LF})

Token(type, text, line, from, to, trivia) ==
  [type |-> type, lexeme |-> text, line |-> line, start |-> from, end |-> to, leadingTrivia |-> trivia]

\* Mutant: the first part of a string with interpolations leaves the buffer alone.
attachTriviaToToken_left(st, t) ==
  IF t.type = "INTERPOLATION_START" THEN [st EXCEPT !.tokens = Append(@, t)]
  ELSE [st EXCEPT !.tokens = Append(@, [t EXCEPT !.leadingTrivia = st.triviaBuffer]), !.triviaBuffer = <<>>]

\* The buffered trivia go with the token.
attachTriviaToToken(st, t) == [st EXCEPT !.tokens = Append(@, [t EXCEPT !.leadingTrivia = st.triviaBuffer]), !.triviaBuffer = <<>>]

addText(st, type, text) ==
  attachTriviaToToken(st, Token(type, text, st.line, st.start, st.current, <<>>))

\* An empty text stands for the source text of the token.
addToken(st, type) == addText(st, type, Slice(st, st.start, st.current))

\* Only the CST mode keeps trivia.
collectTrivia(st, type) ==
  IF st.mode # "CST" THEN st
  ELSE [st EXCEPT !.triviaBuffer =
          Append(@, [type |-> type, lexeme |-> Slice(st, st.start, st.current), start |-> st.start, end |-> st.current])]

------------------------------------------------------------------------------
Operators ==
  << << << "(" >>, "LEFT_PAREN" >>, << << ")" >>, "RIGHT_PAREN" >>, << << "{" >>, "LEFT_BRACE" >>, << << "}" >>, "RIGHT_BRACE" >>,
     << << "[" >>, "LEFT_BRACKET" >>, << << "]" >>, "RIGHT_BRACKET" >>, << << "," >>, "COMMA" >>,
     << << ".", ".", "." >>, "ELLIPSIS" >>, << << ".", "." >>, "RANGE" >>, << << "." >>, "DOT" >>,
     << << "-", ">" >>, "ARROW" >>, << << "-", "=" >>, "MINUS_EQUAL" >>, << << "-" >>, "MINUS" >>,
     << << "+", "=" >>, "PLUS_EQUAL" >>, << << "+" >>, "PLUS" >>, << << "?" >>, "QUESTION" >>, << << ":" >>, "COLON" >>,
     << << ";" >>, "SEMICOLON" >>, << << "*", "*" >>, "POWER" >>, << << "*", "=" >>, "STAR_EQUAL" >>, << << "*" >>, "STAR" >>,
     << << "!", "=" >>, "BANG_EQUAL" >>, << << "!" >>, "BANG" >>, << << "=", "=" >>, "EQUAL_EQUAL" >>, << << "=", ">" >>, "ARROW" >>,
     << << "=" >>, "EQUAL" >>, << << "<", "=" >>, "LESS_EQUAL" >>, << << "<" >>, "LESS" >>, << << ">", "=" >>, "GREATER_EQUAL" >>,
     << << ">" >>, "GREATER" >>, << << "/", "=" >>, "SLASH_EQUAL" >>, << << "/" >>, "SLASH" >>,
     << << "%", "=" >>, "MODULUS_EQUAL" >>, << << "%" >>, "MODULUS" >>, << << "|" >>, "PIPE" >>, << << "&" >>, "AMPERSAND" >>,
     << << "^" >>, "CARET" >>, << << "~" >>, "TILDE" >> >>

OperatorStarts == {Operators[i][1][1] : i \in DOMAIN Operators}

\* The first alternative of the list that matches: the longer ones come first.
Operator(st) ==
  LET fits == {i \in DOMAIN Operators : IsPrefix(Operators[i][1], Slice(st, st.start, Len(st.source)))}
      o == Operators[Min(fits)]
  IN addToken([st EXCEPT !.current = st.start + Len(o[1])], o[2])

\* A comment starts at the / before current; the second character of its opening is current.
LineComment(st) ==
  collectTrivia(SkipTo(Skip(st, 1), LAMBDA c : c = LF), "COMMENT_LINE")

BlockComment(st) ==
  LET from == st.current + 1
      close == {j \in from .. Len(st.source) - 2 : At(st, j) = "*" /\ At(st, j + 1) = "/"}
      end == IF close = {} THEN Len(st.source) ELSE Min(close) + 2
  IN collectTrivia([st EXCEPT !.current = end, !.line = @ + LinesIn(st, from, end)], "COMMENT_BLOCK")

scanWhitespace(st) == IF st.mode = "CST" THEN SkipTo(st, LAMBDA c : c \notin {" ", CR, "TAB"}) ELSE st

checkKeyword(text) == IF text \in DOMAIN Keywords THEN Keywords[text] ELSE "IDENTIFIER"

identifier(st) ==
  LET end == SkipTo(st, LAMBDA c : ~isAlphaNumeric(c))
  IN addToken(end, checkKeyword(Slice(end, end.start, end.current)))

\* An unknown annotation is a token of its own, and then once more an identifier: both from the @.
annotation(st) ==
  LET end == SkipTo(st, LAMBDA c : ~isAlphaNumeric(c))
      name == Slice(end, end.start + 1, end.current)
  IN IF name = << "f", "t" >> THEN addToken(end, "KNOWN_ANNOTATION")
     ELSE identifier([addToken(end, "AT_SIGN") EXCEPT !.current = st.start + 1])

\* Digits, a fraction, an exponent that is taken back when it has no digits, a unit of time.
number(st) ==
  LET DigitsFrom(s) == SkipTo(s, LAMBDA c : ~isDigit(c))
      whole == DigitsFrom(st)
      hasDecimal == peek(whole) = "." /\ isDigit(peekNext(whole))
      fraction == IF hasDecimal THEN DigitsFrom(Skip(whole, 1)) ELSE whole
      sign == IF peekNext(fraction) \in {"+", "-"} THEN 2 ELSE 1
      hasScientific == peek(fraction) = "e" /\ isDigit(At(fraction, fraction.current + sign))
      exponent == IF hasScientific THEN DigitsFrom(Skip(fraction, sign)) ELSE fraction
      suffix == CASE peek(exponent) = "s" /\ ~isAlphaNumeric(peekNext(exponent)) -> 1
                  [] /\ peek(exponent) \in {"m", "u", "n"} /\ peekNext(exponent) = "s"
                     /\ ~isAlphaNumeric(At(exponent, exponent.current + 2)) -> 2
                  [] OTHER -> 0
  IN addToken(Skip(exponent, suffix),
              IF hasScientific THEN "SCIENTIFIC_LITERAL" ELSE IF hasDecimal THEN "FLOAT_LITERAL" ELSE "INT_LITERAL")

------------------------------------------------------------------------------
\* What an escape adds to the value: a control character, the character itself, or both.
Escape(c) ==
  CASE c \in {"n", "t", "r", "0", "a", "b", "f", "v"} -> << << "control", c >> >>
    [] c \in {"\\", "'", "\"", "{", "}"} -> << c >>
    [] OTHER -> << "\\", c >>

\* A brace opens an interpolation unless only digits, commas and blanks follow it up to the next
\* closing brace or quote.
isInterpolation(st, quote) ==
  LET end == First(st, st.current + 1, LAMBDA c : c \in {"}", quote})
  IN \E j \in st.current + 1 .. end - 1 : ~isDigit(At(st, j)) /\ At(st, j) \notin {",", " "}

\* The position of the brace that closes the one before current, or the end.
ClosingBrace(st) ==
  LET Depth(j) == 1 + Cardinality({k \in st.current .. j : At(st, k) = "{"}) - Cardinality({k \in st.current .. j : At(st, k) = "}"})
  IN Min({j \in st.current .. Len(st.source) : j = Len(st.source) \/ Depth(j) = 0})

RECURSIVE scanToken(_), ScanLoop(_), StringFrom(_, _, _, _)

Quoted(quote, value) == << quote >> \o value \o << quote >>

\* The { at current: the text so far, the tokens of the expression from a scanner of its own, and
\* the closing brace.  The tokens get the line and the position of the closing brace.
Interpolation(st, quote, value) ==
  LET open  == addText(Skip(st, 1), "INTERPOLATION_START", Quoted(quote, value))
      close == [open EXCEPT !.current = ClosingBrace(open)]
      inner == ScanLoop(New(Slice(open, open.current, close.current), "LEGACY"))
      moved == [i \in DOMAIN inner.tokens |->
                  Token(inner.tokens[i].type, inner.tokens[i].lexeme, open.line, close.current, close.current, <<>>)]
      after == [close EXCEPT !.tokens = @ \o moved, !.current = @ + 1, !.start = close.current + 1, !.errors = @ + inner.errors]
  IN IF isAtEnd(close) THEN [ok |-> FALSE, st |-> error(close)]
     ELSE [ok |-> TRUE, st |-> addToken(after, "INTERPOLATION_END")]

\* The rest of a string: value is its text since the start or since the last interpolation.
StringFrom(st, quote, value, hasInterpolation) ==
  CASE isAtEnd(st) -> error(st)
    [] ~isAtEnd(st) /\ peek(st) = quote ->
         IF hasInterpolation THEN addText(Skip(st, 1), "STRING", Quoted(quote, value)) ELSE addToken(Skip(st, 1), "STRING")
    [] ~isAtEnd(st) /\ peek(st) = "\\" -> StringFrom(Skip(st, 2), quote, value \o Escape(peekNext(st)), hasInterpolation)
    [] ~isAtEnd(st) /\ peek(st) = "{" /\ isInterpolation(st, quote) ->
         LET r == Interpolation(st, quote, value)
         IN IF r.ok THEN StringFrom(r.st, quote, <<>>, TRUE) ELSE r.st
    [] OTHER ->
         StringFrom([Skip(st, 1) EXCEPT !.line = @ + (IF peek(st) = LF THEN 1 ELSE 0)], quote, Append(value, peek(st)), hasInterpolation)

string(st) == StringFrom([st EXCEPT !.current = st.start + 1], At(st, st.start), <<>>, FALSE)

\* In CST mode an unexpected character is a token; it leaves the trivia for the next token.
createErrorToken(st) ==
  [st EXCEPT !.tokens = Append(@, Token("ERROR", Slice(st, st.start, st.current), st.line, st.start, st.current, <<>>))]

scanToken(st0) ==
  LET st == [st0 EXCEPT !.start = st0.current, !.current = @ + 1]
      c == peek(st0)
  IN CASE c = "/" /\ peek(st) = "/" -> LineComment(st)
       [] c = "/" /\ peek(st) = "*" -> BlockComment(st)
       [] c \in OperatorStarts /\ ~(c = "/" /\ peek(st) \in {"/", "*"}) -> Operator(st)
       [] c = "_" -> IF isAlpha(peek(st)) THEN identifier(st) ELSE addToken(st, "DEFAULT")
       [] c = "@" -> annotation(st)
       [] c \in {" ", CR, "TAB"} -> collectTrivia(scanWhitespace(st), "WHITESPACE")
       [] c = LF -> [collectTrivia(st, "NEWLINE") EXCEPT !.line = @ + 1]
       [] c \in QUOTES -> string(st)
       [] isDigit(c) -> number(st)
       [] isAlpha(c) /\ c # "_" -> identifier(st)
       [] OTHER -> IF st.mode = "CST" THEN createErrorToken(st) ELSE error(st)

ScanLoop(st) == IF isAtEnd(st) THEN st ELSE ScanLoop(scanToken(st))

------------------------------------------------------------------------------
ScannerInit ==
  /\ file \in Texts /\ mode \in {"LEGACY", "CST"}
  /\ scanner = New(file, mode) /\ done = FALSE

ScanToken ==
  /\ ~done /\ ~isAtEnd(scanner)
  /\ scanner' = scanToken(scanner)
  /\ UNCHANGED << file, mode, done >>

\* The EOF token: it takes no trivia with it.
EndOfFile ==
  /\ ~done /\ isAtEnd(scanner)
  /\ scanner' = [scanner EXCEPT !.tokens = Append(@, Token("EOF_TOKEN", <<>>, scanner.line, 0, 0, <<>>))]
  /\ done' = TRUE
  /\ UNCHANGED << file, mode >>

ScannerNext == ScanToken \/ EndOfFile

------------------------------------------------------------------------------
\* The pieces of the source text that a caller is given: the tokens and the trivia that go with them.
Pieces == scanner.tokens \o FlattenSeq([i \in DOMAIN scanner.tokens |-> scanner.tokens[i].leadingTrivia])

\* The tokens that take trivia: an unexpected character and the end of the file do not.
TakesTrivia(t) == t.type \notin {"ERROR", "EOF_TOKEN"}
EndBefore(i) == Max({0} \cup {scanner.tokens[j].end : j \in {j \in 1 .. i - 1 : TakesTrivia(scanner.tokens[j])}})

\* The number of pieces position k lies in.
Readings(k) == Cardinality({i \in DOMAIN Pieces : k \in Pieces[i].start .. Pieces[i].end - 1})

\* Position k is in the expression of an interpolation, or in an annotation the scanner does not know.
Excepted(k) ==
  \E i \in DOMAIN scanner.tokens :
    LET t == scanner.tokens[i]
    IN \/ t.type = "AT_SIGN" /\ k \in t.start .. t.end - 1
       \/ /\ t.type = "INTERPOLATION_START" /\ k >= t.end
          /\ \A j \in DOMAIN scanner.tokens : j > i /\ scanner.tokens[j].type = "INTERPOLATION_END" => k < scanner.tokens[j].start
       \/ /\ t.type = "INTERPOLATION_END" /\ k = t.start - 1

Shown(tokens) ==
  LET shown == SelectSeq(tokens, LAMBDA t : t.type \notin {"ERROR", "EOF_TOKEN"})
  IN [i \in DOMAIN shown |-> << shown[i].type, shown[i].lexeme, shown[i].line >>]

\* In CST mode the tokens of a source without errors hold its text up to the last of them that takes
\* trivia: every position is in exactly one token or trivia, and the trivia of a token lie between the
\* one before and itself.  What follows is lost but for unexpected characters (scanTokens).  Without
\* trivia the scanner finds the same tokens.
TextKept ==
  done /\ mode = "CST" =>
    /\ scanner.errors = 0 =>
         /\ \A k \in 0 .. EndBefore(Len(scanner.tokens)) - 1 : Readings(k) = 1 \/ Excepted(k)
         /\ \A k \in EndBefore(Len(scanner.tokens)) .. Len(scanner.source) - 1 :
              Readings(k) = Cardinality({i \in DOMAIN scanner.tokens : scanner.tokens[i].type = "ERROR" /\ scanner.tokens[i].start = k})
         /\ \A i \in DOMAIN scanner.tokens : \A j \in DOMAIN scanner.tokens[i].leadingTrivia :
              LET t == scanner.tokens[i].leadingTrivia[j]
              IN EndBefore(i) <= t.start /\ t.end <= scanner.tokens[i].start
    /\ Shown(scanner.tokens) = Shown(ScanLoop(New(file, "LEGACY")).tokens)

\* An unknown annotation is the sign and then its name (scanner.cpp, "process the identifier
\* separately"): no two tokens share text.
TokensDisjoint ==
  done => \A k \in 0 .. Len(scanner.source) - 1 : Readings(k) <= 1
==============================================================================

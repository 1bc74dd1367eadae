-------------------------------- MODULE Parser --------------------------------
(***************************************************************************)
(* LM::Frontend::Parser at work on a token stream: the methods of Grammar  *)
(* executed one step at a time.  todo is the C++ call stack: what is still *)
(* to be done, innermost method first.  The tokens are chosen when the     *)
(* parser first looks at them, each from the set the input allows there.   *)
(***************************************************************************)
EXTENDS Grammar, SequencesExt

CONSTANTS
  MAX_ERRORS,     \* errors after which error() throws
  Inputs,         \* sequences of sets of tokens: what may stand at each position
  CstModes        \* the values of cstMode: modules are parsed with TRUE, other files with either

ASSUME MaxErrorsAssumption == MAX_ERRORS \in Nat \ {0}
ASSUME CstModesAssumption == CstModes \subseteq BOOLEAN

VARIABLES
  input,          \* the member of Inputs this run reads
  toks,           \* the tokens chosen so far, EOF last when all are
  current,        \* Parser::current: how many tokens are consumed
  todo,           \* the rest of the computation
  errors,         \* errors.size()
  blockStack,     \* Parser::blockStack, by the kind of block
  cstMode,        \* Parser::cstMode
  cstStack,       \* Parser::cstContextStack, by the kind of node
  in_concurrent_block,
  nodes,          \* the current expression statement's expression nodes in postfix order
  arrows, cases,  \* match cases whose '=>' was found, and match cases kept
  outcome         \* "parsing", "done", or "aborted" when the exception leaves parse()

context == << blockStack, cstStack, in_concurrent_block >>
built   == << nodes, arrows, cases >>
vars    == << input, toks, current, todo, errors, context, cstMode, built, outcome >>

Dead == "dead Program node"   \* pushed by parse() after it was freed, see RootStays
Root == "cstRoot"

parse == << Until({}, << Call("declaration") >>) >>

Init ==
  /\ input \in Inputs
  /\ toks = <<>> /\ current = 0 /\ todo = parse /\ errors = 0
  /\ blockStack = <<>> /\ in_concurrent_block = FALSE
  /\ cstMode \in CstModes /\ cstStack = IF cstMode THEN << Dead, Root >> ELSE <<>>
  /\ nodes = <<>> /\ arrows = 0 /\ cases = 0
  /\ outcome = "parsing"

------------------------------------------------------------------------------
AllRead == toks # <<>> /\ Last(toks) = EOF

\* A call in front is entered: what is to be done next comes first.
entered == IF todo # <<>> /\ Head(todo).op = "call" THEN Procedures[Head(todo).m] \o Tail(todo) ELSE todo
Op      == Head(entered)

\* How many tokens from current on the next step looks at.
Looks == IF todo = <<>> THEN 0
         ELSE CASE Op.op \in {"consume", "advance", "check", "match", "switch", "while", "until",
                              "binary", "assign"} -> 1
                [] Op.op = "ahead" -> Len(Op.next)
                [] OTHER -> 0

Ready == AllRead \/ Len(toks) >= current + Looks

\* The next token of the stream.
Scan ==
  /\ outcome = "parsing" /\ ~Ready
  /\ \E t \in IF Len(toks) < Len(input) THEN input[Len(toks) + 1] ELSE {EOF} :
        toks' = Append(toks, t)
  /\ UNCHANGED << input, current, todo, errors, context, cstMode, built, outcome >>

peek    == toks[current + 1]
isAtEnd == peek = EOF

\* A step that goes on with p and changes nothing else of the parser but the variables it names.
Continues(p) == todo' = p /\ UNCHANGED << input, toks, cstMode, outcome >>

\* error(): counted; the last one allowed throws, and no handler on the way keeps it.
report == /\ errors' = errors + 1
          /\ outcome' = IF errors + 1 >= MAX_ERRORS THEN "aborted" ELSE outcome

\* consume(): on a mismatch, an error and one token skipped.
consume(op, rest) ==
  /\ op.op = "consume"
  /\ IF peek \in op.K
     THEN current' = current + 1 /\ UNCHANGED << errors, outcome >>
     ELSE /\ report
          /\ current' = IF isAtEnd \/ outcome' = "aborted" THEN current ELSE current + 1
  /\ arrows' = IF peek = "=>" /\ op.K = {"=>"} THEN arrows + 1 ELSE arrows
  /\ todo' = rest
  /\ UNCHANGED << input, toks, context, cstMode, nodes, cases >>

advance(op, rest) ==
  /\ op.op = "advance"
  /\ current' = IF isAtEnd THEN current ELSE current + 1
  /\ Continues(rest) /\ UNCHANGED << errors, context, built >>

error(op, rest) ==
  /\ op.op = "error"
  /\ report /\ todo' = rest
  /\ UNCHANGED << input, toks, current, context, cstMode, built >>

check(op, rest) ==
  /\ op.op = "check"
  /\ Continues((IF peek \in op.K THEN op.then ELSE op.else) \o rest)
  /\ UNCHANGED << current, errors, context, built >>

match(op, rest) ==
  /\ op.op = "match"
  /\ IF peek \in op.K THEN current' = current + 1 /\ Continues(op.then \o rest)
                      ELSE current' = current /\ Continues(op.else \o rest)
  /\ UNCHANGED << errors, context, built >>

\* A chain of if (match(...)): the first case that has the token.
switch(op, rest) ==
  /\ op.op = "switch"
  /\ LET i == SelectInSeq(op.chain, LAMBDA c : peek \in c[1])
     IN IF i # 0 THEN current' = current + 1 /\ Continues(op.chain[i][2] \o rest)
                 ELSE current' = current /\ Continues(op.else \o rest)
  /\ UNCHANGED << errors, context, built >>

\* Looking at tokens[current + 1], or saving current and restoring it.
ahead(op, rest) ==
  /\ op.op = "ahead"
  /\ LET found == \A i \in 1..Len(op.next) : current + i <= Len(toks) /\ toks[current + i] \in op.next[i]
     IN Continues((IF found THEN op.then ELSE op.else) \o rest)
  /\ UNCHANGED << current, errors, context, built >>

while(op, rest) ==
  /\ op.op = "while"
  /\ IF peek \in op.K THEN current' = current + 1 /\ Continues(op.body \o << op >> \o rest)
                      ELSE current' = current /\ Continues(rest)
  /\ UNCHANGED << errors, context, built >>

\* Whether the loop at the head of todo goes round again.
Iterates(op) == ~isAtEnd /\ peek \notin op.K

until(op, rest) ==
  /\ op.op = "until"
  /\ Continues(IF Iterates(op) THEN op.body \o << [op EXCEPT !.at = current] >> \o rest ELSE rest)
  /\ UNCHANGED << current, errors, context, built >>

\* break, continue and return drop what is left of the innermost loop's body or of the method.
leave(op, rest) ==
  /\ op.op \in {"break", "continue", "return", "end"}
  /\ LET Ends(o) == IF op.op = "return" THEN o.op = "end" ELSE o.op \in {"while", "until"}
         i       == SelectInSeq(entered, Ends)
     IN Continues(CASE op.op = "end"      -> rest
                    [] op.op = "continue" -> SubSeq(entered, i, Len(entered))
                    [] OTHER              -> SubSeq(entered, i + 1, Len(entered)))
  /\ UNCHANGED << current, errors, context, built >>

\* while (match(K)) { operand; the binary node }
binary(op, rest) ==
  /\ op.op = "binary"
  /\ IF peek \in op.K THEN current' = current + 1 /\ Continues(<< Call(op.m), Emit(peek), op >> \o rest)
                      ELSE current' = current /\ Continues(rest)
  /\ UNCHANGED << errors, context, built >>

\* assignment(): the target is looked at only after the value has been parsed.
assign(op, rest) ==
  /\ op.op = "assign"
  /\ IF peek \in AssignOp
     THEN current' = current + 1 /\ Continues(<< Call("assignment"), Assigned(Last(nodes), peek) >> \o rest)
     ELSE current' = current /\ Continues(rest)
  /\ UNCHANGED << errors, context, built >>

assigned(op, rest) ==
  /\ op.op = "assigned"
  /\ IF op.target \in {"var", "member", "index"}
     THEN nodes' = Append(nodes, op.tok) /\ UNCHANGED << errors, outcome >>
     ELSE nodes' = nodes /\ report
  /\ todo' = rest
  /\ UNCHANGED << input, toks, current, context, cstMode, arrows, cases >>

build(op, rest) ==
  /\ op.op \in {"emit", "fresh", "case"}
  /\ nodes' = CASE op.op = "emit" -> Append(nodes, op.node) [] op.op = "fresh" -> <<>> [] OTHER -> nodes
  /\ cases' = IF op.op = "case" THEN cases + 1 ELSE cases
  /\ Continues(rest) /\ UNCHANGED << current, errors, context, arrows >>

isContainerNode(kind) ==
  kind \in {"PROGRAM", "BLOCK_STATEMENT", "IF_STATEMENT", "FOR_STATEMENT", "WHILE_STATEMENT",
            "ITER_STATEMENT", "FUNCTION_DECLARATION", "CLASS_DECLARATION", "MATCH_STATEMENT",
            "PARALLEL_STATEMENT", "CONCURRENT_STATEMENT"}

\* createNodeWithContext, pushCSTContext and popCSTContext.
cst(op, rest) ==
  /\ op.op \in {"node", "push_cst", "pop_cst"}
  /\ cstStack' = IF ~cstMode \/ (op.op = "node" /\ ~isContainerNode(op.kind)) THEN cstStack
                 ELSE IF op.op # "pop_cst" THEN Append(cstStack, op.kind)
                 ELSE IF cstStack = <<>> THEN cstStack ELSE Front(cstStack)
  /\ Continues(rest) /\ UNCHANGED << current, errors, blockStack, in_concurrent_block, built >>

\* pushBlockContext and popBlockContext.
blockContext(op, rest) ==
  /\ op.op \in {"push_block", "pop_block"}
  /\ blockStack' = IF op.op = "push_block" THEN Append(blockStack, op.kind)
                   ELSE IF blockStack = <<>> THEN blockStack ELSE Front(blockStack)
  /\ Continues(rest) /\ UNCHANGED << current, errors, cstStack, in_concurrent_block, built >>

concurrent(op, rest) ==
  /\ op.op \in {"concurrent", "if_concurrent"}
  /\ IF op.op = "concurrent"
     THEN in_concurrent_block' = op.to /\ Continues(rest)
     ELSE /\ in_concurrent_block' = in_concurrent_block
          /\ Continues((IF in_concurrent_block THEN op.then ELSE op.else) \o rest)
  /\ UNCHANGED << current, errors, blockStack, cstStack, built >>

finish ==
  /\ outcome = "parsing" /\ todo = <<>>
  /\ outcome' = "done"
  /\ UNCHANGED << input, toks, current, todo, errors, context, cstMode, built >>

Step ==
  /\ outcome = "parsing" /\ todo # <<>> /\ Ready
  /\ LET op   == Head(entered)
         rest == Tail(entered)
     IN \/ consume(op, rest) \/ advance(op, rest) \/ error(op, rest)
        \/ check(op, rest) \/ match(op, rest) \/ switch(op, rest) \/ ahead(op, rest)
        \/ while(op, rest) \/ until(op, rest) \/ leave(op, rest)
        \/ binary(op, rest) \/ assign(op, rest) \/ assigned(op, rest) \/ build(op, rest)
        \/ cst(op, rest) \/ blockContext(op, rest) \/ concurrent(op, rest)

Next == Scan \/ Step \/ finish

\* The parser runs in one thread that is never blocked.
Spec == Init /\ [][Next]_vars /\ WF_vars(Next)

------------------------------------------------------------------------------
Closers == {"}", ")", "]"}

\* A loop has come round without consuming a token, is about to go round again, and stands
\* at a closing token.
StuckAtCloser ==
  /\ outcome = "parsing" /\ todo # <<>> /\ Op.op = "until" /\ Ready
  /\ Op.at = current /\ Iterates(Op) /\ peek \in Closers

(***************************************************************************)
(* The parser ends on every input, except where a closing token that opens *)
(* nothing stands at the start of a statement: error() does not throw, so  *)
(* synchronize() never runs, and progress rests on each method consuming   *)
(* something or its caller noticing.                                       *)
(***************************************************************************)
EndsUnlessAtCloser == <>(outcome # "parsing" \/ StuckAtCloser)

(***************************************************************************)
(* consume() says it advances "to ensure progress and avoid infinite       *)
(* loops": the parser ends on every input.                                 *)
(***************************************************************************)
Terminates == <>(outcome # "parsing")

(***************************************************************************)
(* Every method leaves the context stacks as it found them, whatever the   *)
(* errors on the way: between two declarations of the program no block is  *)
(* open and no concurrent block is assumed.  In CST mode more nodes are    *)
(* pushed than popped, but never the other way round: parse() leaves a     *)
(* dangling pointer (the Program node it created before there was a root)  *)
(* at the bottom of the stack, and nothing is ever added to that node.     *)
(***************************************************************************)
ContextsBalanced ==
  /\ todo # <<>> /\ Tail(todo) = <<>> => blockStack = <<>> /\ ~in_concurrent_block
  /\ cstMode => SubSeq(cstStack, 1, 2) = << Dead, Root >>

(***************************************************************************)
(* Operators by precedence, loosest first, as the methods assignment() to  *)
(* power() nest; '=' and '**' associate to the right.                      *)
(***************************************************************************)
Levels     == << {"=", "+="}, {"or"}, {"and"}, {"=="}, {"<"}, {"+", "-"}, {"*"}, {"**"} >>
RightAssoc == {1, 8}
Level(o)   == CHOOSE l \in DOMAIN Levels : o \in Levels[l]

\* The postfix form of s, identifiers and binary operators in turn: split at the loosest
\* operator, the last one of its level or the first where the level associates to the right.
Postfix(s) ==
  LET P[i, j \in 1..Len(s)] ==
        IF i = j THEN << "var" >>
        ELSE LET at    == {k \in i..j : (k - i) % 2 = 1}
                 loose == CHOOSE l \in {Level(s[k]) : k \in at} : \A k \in at : l <= Level(s[k])
                 ks    == {k \in at : Level(s[k]) = loose}
                 split == IF loose \in RightAssoc THEN CHOOSE k \in ks : \A m \in ks : k <= m
                                                  ELSE CHOOSE k \in ks : \A m \in ks : m <= k
             IN P[i, split - 1] \o P[split + 1, j] \o << s[split] >>
  IN P[1, Len(s)]

\* An expression of identifiers and operators in which only identifiers are assigned to.
PlainExpression(s) ==
  /\ Len(s) % 2 = 1
  /\ \A k \in DOMAIN s : IF k % 2 = 1 THEN s[k] = "id" ELSE \E l \in DOMAIN Levels : s[k] \in Levels[l]
  /\ \A k \in DOMAIN s : s[k] \in Levels[1] => \A m \in 1..k : m % 2 = 0 => s[m] \in Levels[1]

PowerAfterFactor(s) == \E k \in 1..(Len(s) - 2) : s[k] = "*" /\ s[k + 2] = "**"

Parsed(s) == errors = 0 /\ nodes = Postfix(s)

(***************************************************************************)
(* An expression without parentheses is parsed, without errors, into the   *)
(* tree that the precedence of its operators gives; but a power cannot be  *)
(* the right operand of '*', '/' or '%', whose method asks for a unary     *)
(* expression.                                                             *)
(***************************************************************************)
PrecedenceKept ==
  outcome = "done" /\ PlainExpression(Front(toks)) /\ ~PowerAfterFactor(Front(toks))
    => Parsed(Front(toks))

(***************************************************************************)
(* Every case of a match statement that was parsed without errors is one   *)
(* of the cases of its AST node.                                           *)
(***************************************************************************)
CasesKept == outcome = "done" /\ errors = 0 => cases = arrows

==============================================================================

------------------------------- MODULE MCParser -------------------------------
(* The token streams TLC considers: each sequence of sets stands for every choice of one token
   per position.  For every method of the parser there is one that reaches it, with room for
   a wrong token in each of its parts. *)
EXTENDS Parser

\* The tokens of fixed, then n positions at which any token of K may stand.
Then(fixed, n, K) == [i \in 1..(Len(fixed) + n) |-> IF i <= Len(fixed) THEN {fixed[i]} ELSE K]

Expressions ==
  { LET B == {"=", "or", "and", "==", "<", "+", "*", "**"}
    IN << {"id"}, B, {"id"}, B, {"id"}, B, {"id"} >>,
    Then(<<>>, 3, {"id", "1", "-", "(", ")", ",", "=", "."}),
    Then(<<"id">>, 3, {"[", "]", "(", "=", "id", "?", "else", "1.5"}),
    Then(<<"id">>, 3, {"..", "as", "int", "<", "1", "{", ":", "}"}),
    Then(<<"fn", "(">>, 4, {"id", ":", "int", ")", "{", "}"}),
    Then(<<"{">>, 4, {"id", ":", "}", ",", "interp_start", "interp_end"}),
    Then(<<"err", "(">>, 3, {"id", ")", "ok", "(", "super", "this", "sleep"}),
    << {"id"}, {"(", "["}, {"id"}, {"=", ","}, {"id", "true"}, {")", "]", ";"}, {"=", "?"}, {"string", "else"} >> }

Statements ==
  { Then(<<"if", "(", "id", ")">>, 4, {"{", "}", "elif", "else", ";", "id"}),
    << {"if"}, {"("}, {"id"}, {")"}, {"{"}, {"}"}, {"elif"}, {"("}, {"id", ")"}, {")", "{"}, {"{", ";"}, {"}"}, {"else"}, {"{"} >>,
    Then(<<"for", "(">>, 4, {"var", "id", ";", ")", "=", "{"}),
    << {"while", "iter", "print"}, {"("}, {"var", "id"}, {"id", "in", ")"}, {"in", ",", "{"}, {"id", "}"}, {")", "in"},
       {"{", "id"}, {"}", ";", "break", "return"} >>,
    Then(<<"match", "(", "id", ")", "{">>, 4, {"id", "=>", ",", "}", "where"}),
    << {"match"}, {"("}, {"id"}, {")"}, {"{"}, {"_", "id", "1"}, {"=>"}, {"1", "{"}, {",", "}"}, {"id", "}"},
       {"=>", "}"}, {"1"}, {",", "}"}, {"}"} >>,
    << {"match"}, {"("}, {"id"}, {")"}, {"{"}, {"val", "err", "IOError", "int", "id", "[", "{", "("}, {"id", "...", "(", "."},
       {":", ",", ")", "("}, {"id", "]", "}"}, {"=>", ")", "]", "}"}, {"1", "=>"} >>,
    << {"parallel", "concurrent"}, {"(", "ch", "id", "{"}, {"ch", "id", ")", "="}, {"=", ":", "{"},
       {"id", "string", "1", ")"}, {")", ",", "ms", "{"}, {"{", ")"}, {"task", "worker", "}"} >>,
    << {"concurrent"}, {"{"}, {"task", "worker", "id"}, {"("}, {"id", "1"}, {"in", ")"}, {"id", "{"}, {")", "}"},
       {"{", "}"}, {"concurrent", "}"}, {"{", "}"}, {"}"} >>,
    << {"unsafe", "comptime", "contract"}, {"{", "(", "var"}, {"id"}, {",", ";", "}"}, {"string", "id"}, {")"}, {";"} >> }

Declarations ==
  { << {"pub", "static"}, {"var", "frame", "fn"}, {"id", "("}, {":", "=", "(", "{"}, {"int", "id", ")"}, {";", "=", "{", ","} >>,
    Then(<<"frame", "id", "{">>, 4, {"init", "deinit", "fn", "id", ":", "(", ")"}),
    << {"frame"}, {"id"}, {":", "{"}, {"id", "init", "deinit", "pub"}, {"{", "(", "var"}, {"id", ")"}, {":", "{"}, {"int", "}"},
       {";", "=", "}"}, {"}", "1"} >>,
    << {"trait", "interface", "module"}, {"open", "@", "id"}, {"id", ":", "{"}, {"{", "id"}, {"fn", "}", "@"},
       {"id", "fn"}, {"(", "{"}, {")", "id"}, {":", ";", "{", "}"} >>,
    << {"import"}, {"id", "("}, {".", "string", "as"}, {"id", ")", "module"}, {"as", "show", ";", "1"}, {"id", "1"}, {",", ";"}, {"id", "}"} >>,
    Then(<<"enum", "id", "{">>, 4, {"id", "(", ")", ",", "}", "int"}),
    << {"type"}, {"id"}, {"="}, {"[", "{", "int", "nil", "id", ";"}, {"]", "...", "id", "int", "|", "and", "where", "?"},
       {":", ",", "}", "id", ";"}, {"int", "[", "id", "}"}, {"}", ",", ";"}, {";", "]"} >>,
    << {"var"}, {"id"}, {":"}, {"fn", "function", "{", "(", "[", "tuple", "list"}, {"(", "int", "string_name", "...", "?"},
       {"id", "string_name", ")", ":", "int"}, {":", "?", ")", ","}, {"int", ":", "}"}, {")", "]", "}", ";"} >> }

MCInputs == Expressions \cup Statements \cup Declarations
==============================================================================

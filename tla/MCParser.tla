------------------------------ MODULE MCParser ------------------------------
(***************************************************************************)
(* Parser on inputs written step by step: an expression grows by a token,  *)
(* or by an operator and an operand; a program that a tree says is edited  *)
(* by inserting, replacing and removing tokens.  A text grows by lexemes,  *)
(* which the tokenizer reads; it reads the programs too.                   *)
(***************************************************************************)
EXTENDS Parser, FiniteSets, TLC

CONSTANTS MaxPieces,    \* pieces of an expression
          MaxEdits,     \* edits of a program
          MaxLexemes,   \* lexemes of a text
          IdentLimit, WordSize, DollarSign

VARIABLES kind, tokens, steps
vars == <<kind, tokens, steps>>

Lexer == INSTANCE Tokenizer

---------------------------------------------------------------------------
Single == {"a", "1", "(", ")", "[", "]", ",", "++", "!", "-", "."}
Infix == {"=", "$=", "&&", "??", "<", "<=>", "$", "&", "-", "*", "."}
Pieces == {<<t>> : t \in Single} \cup {<<t, "a">> : t \in Infix}

Programs ==
  {<<"if", "(", "a", ")", "b", ";", "else", "{", "c", "=", "1", ";", "}">>,
   <<"while", "(", "a", ")", "break", "2", ";">>,
   <<"do", ";", "while", "(", "a", "(", "b", ",", "c", ")", ")">>,
   <<"for", "(", "var", "a", "=", "1", ";", "a", ";", "a", "++", ")", "{", "}">>,
   <<"for", "a", ":", ".", "(", "1", ",", "2", ",", "a", ")", "a", ";">>,
   <<"for", "a", ":", "(", "1", ")", "continue", ";">>,
   <<"foreach", "(", "a", ",", "b", ":", "b", ")", "{", "continue", "1", ";", "}">>,
   <<"foreach", "(", "a", ":", "b", ")", "return", "a", ";">>,
   <<"function", "a", ".", "b", "(", "c", "=", "1", ")", "use", "(", "a", ")", "{", "}">>,
   <<"function", "a", "(", ")", "=", "b", ",", "1", ";">>,
   <<"a", "=", "function", "(", ")", "{", "}", "(", "b", ")", ";">>,
   <<"defer", "thread", "a", "(", ")", ";">>,
   <<"new", "a", "(", "1", ")", ";", "subthread", "b", "(", ")", ";">>,
   <<"decltree", "a", ":", "b", "{", "c", "=", "1", ";", "c", "(", "1", ")", "{", "}", "}">>,
   <<"decltree", "a", ":", "b", "{", "c", "{", "b", "{", "}", "}", "}">>,
   <<"class", "a", ":", "b", "{", "global", "c", "=", "1", ";", "function", "b", "(", ")", "{", "}", "}">>,
   <<"print", "a", ",", "b", ";", "include", "'s'", ",", "a", ";">>,
   <<"a", "=", "map", "{", "[", "a", "]", "=", "1", ",", "c", "}", ";">>,
   <<"a", ".", "{", "b", "=", "1", "}", ";", "a", "[", "]", "{", "'s'", "=", "1", "}", ";">>,
   <<"global", "a", "=", "[", "1", ",", "]", ",", "b", ";", "'s'", "c", ";">>}
Edits == {"a", "1", "(", ")", "{", "}", ",", ";", ":", "=", "else", "0"}

(* What may be written, and the token that it means.                       *)
Lexemes ==
    ("a" :> <<"ident", "a">>) @@ ("_b1" :> <<"ident", "_b1">>) @@ ("thread" :> <<"keyword", "thread">>)
    @@ ("7" :> <<"int", 7>>) @@ ("70000" :> <<"int", 4464>>) @@ ("0x1F" :> <<"int", 31>>)
    @@ ("0o17" :> <<"int", 15>>) @@ ("0b11" :> <<"int", 3>>) @@ ("5p" :> <<"ptr", 5>>)
    @@ ("1.5" :> <<"real", <<15, -1>>>>) @@ ("2." :> <<"real", <<2, 0>>>>) @@ ("3f" :> <<"real", <<3, 0>>>>)
    @@ ("1e+2" :> <<"real", <<1, 2>>>>) @@ ("15E-1" :> <<"real", <<15, -1>>>>)
    @@ ("''" :> <<"string", <<>>>>) @@ ("'s'" :> <<"string", <<"s">>>>) @@ ("\"'\"" :> <<"string", <<"'">>>>)
    @@ ("'\\x41\\n\\1012'" :> <<"string", <<"A", "\n", "A", "2">>>>) @@ ("'\\\\'" :> <<"string", <<"\\">>>>)
    @@ ("'''\\'''" :> <<"string", <<"\\">>>>) @@ ("'\\''" :> <<"string", <<"'">>>>)
    @@ ("(" :> <<"symbol", "(">>) @@ (";" :> <<"symbol", ";">>)
    @@ ("=" :> <<"op", "=">>) @@ ("." :> <<"op", ".">>) @@ (".." :> <<"op", "$">>) @@ ("..=" :> <<"op", "$=">>)
    @@ ("/" :> <<"op", "/">>) @@ ("*" :> <<"op", "*">>) @@ ("<=>" :> <<"op", "<=>">>) @@ ("<" :> <<"op", "<">>)
    @@ ("??" :> <<"op", "??">>) @@ ("--" :> <<"op", "--">>)

Init == \/ kind \in {"expression", "text"} /\ tokens = <<>> /\ steps = 0
        \/ kind = "program" /\ tokens \in Programs /\ steps = 0

Write == /\ kind = "expression" /\ steps < MaxPieces
         /\ \E piece \in Pieces : tokens' = tokens \o piece
Edit ==
    /\ kind = "program" /\ steps < MaxEdits
    /\ \E k \in DOMAIN tokens :
        LET before == SubSeq(tokens, 1, k - 1)
            behind == SubSeq(tokens, k + 1, Len(tokens))
        IN  \/ tokens' = before \o behind
            \/ \E t \in Edits : tokens' = before \o <<t>> \o behind
            \/ \E t \in Edits : tokens' = before \o <<t, tokens[k]>> \o behind

Type == /\ kind = "text" /\ steps < MaxLexemes
        /\ \E lexeme \in DOMAIN Lexemes : tokens' = Append(tokens, lexeme)

Next == (Write \/ Edit \/ Type) /\ steps' = steps + 1 /\ UNCHANGED kind
Spec == Init /\ [][Next]_vars

---------------------------------------------------------------------------
RECURSIVE Nodes(_)
Nodes(n) == {n} \cup UNION {Nodes(n.child[k]) : k \in DOMAIN n.child}

(* What the parser accepts beyond the grammar: ++ between two operands, ++ *)
(* before !, and text behind the braces of a multi-set.                    *)
Odd(n) == \/ n.type = "oper" /\ n.tok \in IncDec /\ Len(n.child) = 2
          \/ n.type = "oper" /\ n.tok \in IncDec /\ IsOper(n.child[1]) /\ n.child[1].tok = "!"
          \/ n.type \in {"mpropset", "midxset"} /\ Len(n.child) > 2

Expression(p) == Exp(Append(p, ";"), 1, {";"}).node

(* Splitting the flat list at the operator of the largest weight, again    *)
(* and again, groups an expression as the levels of precedence do, and     *)
(* refuses what is none.                                                   *)
SameTreeAs(n) == (\E m \in Nodes(n) : Odd(m)) \/ n = Grammatical(tokens)
SameTree == kind = "expression" /\ tokens # <<>> => SameTreeAs(Expression(tokens))

(* The tokens without commas behind the last element of a list.            *)
Plain(p) ==
    LET Superfluous(k) == p[k] = "," /\ Tok(p, k + 1) \in {")", "]", "}"}
    IN  FlattenSeq([k \in DOMAIN p |-> IF Superfluous(k) THEN <<>> ELSE <<p[k]>>])

(* A text: lexemes with a gap behind each, or with blanks where two would  *)
(* be read as one.                                                         *)
Gaps == (" " :> 0) @@ ("\r\n" :> 1) @@ ("\t\n\r" :> 2) @@ (" /*\n*/" :> 1) @@ (" // a\n" :> 1) @@ (" /*/" :> 0)
Wordlike == {"ident", "keyword", "int", "real", "ptr"}
Merge(a, b) ==
    LET s == Lexemes[a][1]
        t == Lexemes[b][1]
    IN  \/ {s, t} \subseteq Wordlike \/ {s, t} = {"op"}
        \/ s \in {"int", "real", "ptr"} /\ b \in {".", "..", "..="}
        \/ a = "''" /\ SubSeq(b, 1, 1) = "'"
Tight(k) == IF k < Len(tokens) /\ Merge(tokens[k], tokens[k + 1]) THEN " " ELSE ""
Source(Gap(_)) == Lexer!Chars(Lexer!Concat([k \in DOMAIN tokens |-> tokens[k] \o Gap(k)]))

Meant(lines) == [k \in DOMAIN tokens |-> [type |-> Lexemes[tokens[k]][1], val |-> Lexemes[tokens[k]][2],
                                          line |-> 1 + (k - 1) * lines]]
TypesOf(ts) == [k \in DOMAIN ts |-> ts[k].type]

(* The texts of the lexemes with each gap, those that are refused, and the *)
(* text that is made of the tokens: if they are written in full, and wide  *)
(* if a number comes before a point.                                       *)
Wanted(text, lines) == [text |-> text, good |-> TRUE, tokens |-> Meant(lines)]
Refused == {"'s", "''''s''", "\"s'", "'\\'", "<=>=", "=-++", "abcdefghijklm"}
InFull(t) == t.type \in {"ident", "keyword", "int", "symbol"} \/ (t.type = "op" /\ t.val # "??")
Pointed(ts) == \E k \in 1 .. Len(ts) - 1 : ts[k].type = "int" /\ ts[k + 1].type = "op" /\ ts[k + 1].val = "."
WrittenBack ==
    LET ts == Meant(0)
    IN  IF \E k \in DOMAIN ts : ~InFull(ts[k]) THEN {}
        ELSE {Wanted(Lexer!TokenString(ts, xs), 0) : xs \in {wide \in BOOLEAN : wide \/ ~Pointed(ts)}}
WholeText == Source(LAMBDA k : IF steps = 0 THEN " // a\n" ELSE " ")
Cases ==
    IF kind = "program" THEN {[text |-> WholeText, good |-> TRUE, tokens |-> tokens]}
    ELSE {Wanted(Source(Tight), 0)} \cup {Wanted(Source(LAMBDA k : gap), Gaps[gap]) : gap \in DOMAIN Gaps}
         \cup {[text |-> Source(Tight) \o Lexer!Chars(" " \o bad), good |-> FALSE, tokens |-> <<>>] : bad \in Refused}
         \cup WrittenBack

(* The parser's names of the tokens that were read.                        *)
Named(t) == CASE t.type = "int" -> ToString(t.val)
              [] t.type = "string" -> "'" \o Lexer!Concat(t.val) \o "'"
              [] OTHER -> t.val
SameTokens(ts, expected) ==
    IF kind = "program" THEN [k \in DOMAIN ts |-> Named(ts[k])] = expected
    ELSE TypesOf(ts) = TypesOf(expected) /\ ts = expected

(* The tokenizer reads every lexeme as the token that it means, in the     *)
(* line where it is; and refuses strings without an end, four characters   *)
(* of operators in a row and names that are too long.                      *)
ReadsText ==
    \A c \in Cases : \E s \in {Lexer!Gen(c.text)} : s.ok = c.good /\ (c.good => SameTokens(s.tokens, c.tokens))

(* The tree of a program says what the program says: no token is dropped,  *)
(* moved or read twice, from its text on.  An edited program may also be   *)
(* refused.                                                                *)
AllKept(n) == \/ steps > 0 /\ (Bad(n) \/ \E m \in Nodes(n) : Odd(m))
              \/ ~Bad(n) /\ ProgramText(n) = Plain(tokens)
KeepsTokens == (kind # "expression" => ReadsText) /\ (kind = "program" => AllKept(Compile(tokens)))
=============================================================================

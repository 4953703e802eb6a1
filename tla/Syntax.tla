------------------------------- MODULE Syntax -------------------------------
(***************************************************************************)
(* Tokens and syntax trees, and two references for Parser: a grammar of    *)
(* expressions by levels of precedence, and the tokens of a tree.          *)
(*                                                                         *)
(* A token is a string.  A node has a type, the token it was made of and   *)
(* its children.                                                           *)
(***************************************************************************)
EXTENDS Integers, Sequences, SequencesExt

Idents == {"a", "b", "c", "class", "print", "include", "map"}
Numbers == {"0", "1", "2", "256"}
Strings == {"'s'", "'ss'"}
Consts == Numbers \cup Strings
Keywords == {"var", "global", "function", "use", "if", "else", "while", "do", "for", "foreach", "break",
             "continue", "return", "defer", "decltree", "thread", "subthread", "new", "true"}
Ops == {"=", "+=", "$=", "&&", "||", "??", "==", "<", "<=>", "$", "&", "<<", "+", "-", "*", "%", "!", "~",
        "@", "++", "--", ".", "?"}

Node(type, tok, child) == [type |-> type, tok |-> tok, child |-> child]
NoNode == Node("none", "", <<>>)

(* A result of parsing: the node, and the position of the next token; at   *)
(* is 0 if there is an error.                                              *)
Result(at, node) == [at |-> at, node |-> node]
Failed == Result(0, NoNode)
Tok(p, i) == IF i <= Len(p) THEN p[i] ELSE ""
Upon(r, F(_)) == IF r.at = 0 THEN r ELSE F(r)

---------------------------------------------------------------------------
(* The grammar of expressions.  Assignments group to the right, all other  *)
(* binary operators to the left, by levels from loose to tight; then come  *)
(* the operators in front of an operand, and behind it.                    *)
Assigning == {"=", "+=", "$="}
Levels == <<{"&&", "||"}, {"??", "==", "<"}, {"<=>"}, {"$"}, {"&", "<<"}, {"+", "-"}, {"*", "%"}>>
Leading == {"+", "-", "!", "~", "@", "++", "--"}

(* Concatenations are one node with all their operands.                    *)
Joined(tok, l, r) ==
    LET Parts(n) == IF n.type = "oper" /\ n.tok = "$" THEN n.child ELSE <<n>>
    IN  Node("oper", tok, CASE tok = "$" -> Parts(l) \o Parts(r)
                            [] tok = "$=" -> <<l>> \o Parts(r)
                            [] OTHER -> <<l, r>>)

RECURSIVE Expr(_, _), Binary(_, _, _), BinaryRest(_, _, _, _), Primary(_, _), Properties(_, _, _),
          Operand(_, _), Called(_, _, _), Listed(_, _, _, _)

Expr(p, i) ==
    Upon(Binary(p, i, 1), LAMBDA l :
        IF Tok(p, l.at) \notin Assigning THEN l
        ELSE Upon(Expr(p, l.at + 1), LAMBDA r : Result(r.at, Joined(p[l.at], l.node, r.node))))

Binary(p, i, k) ==
    IF k > Len(Levels) THEN Operand(p, i)
    ELSE Upon(Binary(p, i, k + 1), LAMBDA l : BinaryRest(p, l.at, k, l.node))

BinaryRest(p, i, k, l) ==
    IF Tok(p, i) \notin Levels[k] THEN Result(i, l)
    ELSE Upon(Binary(p, i + 1, k + 1), LAMBDA r : BinaryRest(p, r.at, k, Joined(p[i], l, r.node)))

(* Expressions between brackets, with an optional comma behind the last.   *)
Listed(p, i, end, nodes) ==
    IF Tok(p, i) = end THEN Result(i + 1, Node("", "", nodes))
    ELSE Upon(Expr(p, i), LAMBDA e :
            CASE Tok(p, e.at) = end -> Result(e.at + 1, Node("", "", Append(nodes, e.node)))
              [] Tok(p, e.at) = "," -> Listed(p, e.at + 1, end, Append(nodes, e.node))
              [] OTHER -> Failed)

(* What an operand starts with.                                            *)
Primary(p, i) ==
    LET t == Tok(p, i)
    IN  CASE t \in Idents -> Result(i + 1, Node("ident", t, <<>>))
          [] t \in Consts -> Result(i + 1, Node("const", t, <<>>))
          [] t = "(" -> Upon(Listed(p, i + 1, ")", <<>>), LAMBDA r :
                            Result(r.at, Node("explist", "(", r.node.child)))
          [] t = "[" -> Upon(Listed(p, i + 1, "]", <<>>), LAMBDA r :
                            Result(r.at, Node("arrlist", "[", r.node.child)))
          [] OTHER -> Failed

(* An increment is the innermost of the operators in front.                *)
Operand(p, i) ==
    LET t == Tok(p, i)
        increment == t \in {"++", "--"} /\ Tok(p, i + 1) \in Leading
    IN  IF t \in Leading
        THEN IF increment THEN Failed
             ELSE Upon(Operand(p, i + 1), LAMBDA r : Result(r.at, Node("oper", t, <<r.node>>)))
        ELSE Upon(Primary(p, i), LAMBDA r : Called(p, r.at, r.node))

(* a.b!c.d(e) calls the function c.d for the object a.b.                   *)
Properties(p, i, l) ==
    IF Tok(p, i) # "." THEN Result(i, l)
    ELSE Upon(Primary(p, i + 1), LAMBDA r : Properties(p, r.at, Node("oper", ".", <<l, r.node>>)))

(* What follows an operand: properties, calls and indices, at last ++ or --. *)
Called(p, i, l) ==
    LET t == Tok(p, i)
    IN  CASE t = "." -> Upon(Properties(p, i, l), LAMBDA r : Called(p, r.at, r.node))
          [] t = "!" /\ Tok(p, i + 1) \in Idents \cup Consts ->
                Upon(Primary(p, i + 1), LAMBDA f : Upon(Properties(p, f.at, f.node), LAMBDA r :
                    Called(p, r.at, Node("oper", t, <<l, r.node>>))))
          [] t = "(" -> Upon(Listed(p, i + 1, ")", <<>>), LAMBDA r :
                            Called(p, r.at, Node("fcall", "(", <<l, Node("explist", "(", r.node.child)>>)))
          [] t = "[" -> Upon(Listed(p, i + 1, "]", <<>>), LAMBDA r :
                            IF Len(r.node.child) # 1 THEN Failed
                            ELSE Called(p, r.at, Node("index", "[", <<l, r.node.child[1]>>)))
          [] t \in {"++", "--"} -> Result(i + 1, Node("operp", t, <<l>>))
          [] OTHER -> Result(i, l)

Grammatical(p) == LET r == Expr(p, 1) IN IF r.at = Len(p) + 1 THEN r.node ELSE NoNode

---------------------------------------------------------------------------
(* The tokens of a tree: what a program says is the tree, read from left   *)
(* to right.                                                               *)
RECURSIVE Text(_), StmtText(_)

Texts(ns) == FlattenSeq([k \in DOMAIN ns |-> Text(ns[k])])
Commas(ns) == FlattenSeq([k \in DOMAIN ns |-> (IF k = 1 THEN <<>> ELSE <<",">>) \o Text(ns[k])])
Bracketed(open, ns, close) == <<open>> \o Commas(ns) \o <<close>>

OperText(n) ==
    IF Len(n.child) = 1 THEN <<n.tok>> \o Text(n.child[1])
    ELSE Text(n.child[1]) \o
         FlattenSeq([k \in 1..Len(n.child) - 1 |->
                        <<IF n.tok = "$=" /\ k > 1 THEN "$" ELSE n.tok>> \o Text(n.child[k + 1])])

(* Pairs of keys and values; a key without a value stands for the variable. *)
PairText(key, v) ==
    LET name == IF key.type = "argmt" THEN <<key.tok>> ELSE <<"[">> \o Text(key) \o <<"]">>
    IN  IF key.type = "argmt" /\ key.tok \in Idents \cup Keywords /\ v = Node("ident", key.tok, <<>>) THEN name
        ELSE name \o <<"=">> \o Text(v)
DictText(ns) ==
    LET Pair(k) == (IF k = 1 THEN <<>> ELSE <<",">>) \o PairText(ns[2 * k - 1], ns[2 * k])
    IN  <<"{">> \o FlattenSeq([k \in 1..Len(ns) \div 2 |-> Pair(k)]) \o <<"}">>

FunctionText(n) ==
    LET named == IF Len(n.child) < 4 THEN <<>>
                 ELSE IF n.child[4].type = "clspfx" THEN <<n.child[4].child[1].tok>> ELSE Text(n.child[4])
        body == IF n.child[3].type = "block" THEN Text(n.child[3])
                ELSE <<"=">> \o Commas(n.child[3].child) \o <<";">>
    IN  <<"function">> \o named \o Bracketed("(", n.child[1].child, ")")
            \o (IF n.child[2].tok = "" THEN <<>> ELSE <<"use">> \o Bracketed("(", n.child[2].child, ")"))
            \o body

BranchText(n) ==
    CASE n.type = "dtenter" -> <<"{">>
      [] n.type = "dtexit" -> <<"}">>
      [] n.type = "ident" ->
            <<n.tok>> \o (IF n.child = <<>> THEN <<>>
                          ELSE IF n.child[1].type = "dtnprm" THEN Bracketed("(", n.child[1].child, ")")
                          ELSE <<"=">> \o Text(n.child[1]) \o <<";">>)
DeclText(ns) ==
    <<"decltree", ns[1].tok, ":", ns[2].tok, "{">>
        \o FlattenSeq([k \in 1..Len(ns) - 2 |-> BranchText(ns[k + 2])]) \o <<"}">>

ClassText(ns) ==
    LET Member(n) == CASE n.type = "clsinh" -> <<>>
                       [] n.type = "clsglob" -> <<"global">> \o Commas(n.child) \o <<";">>
                       [] OTHER -> Text(n)
        inherits == Len(ns) > 1 /\ ns[2].type = "clsinh"
    IN  <<"class", ns[1].tok>> \o (IF inherits THEN <<":", ns[2].tok>> ELSE <<>>) \o <<"{">>
            \o FlattenSeq([k \in 1..Len(ns) - 1 |-> Member(ns[k + 1])]) \o <<"}">>

ForText(n) ==
    CASE n.type = "for" -> <<"for", "(">> \o Commas(n.child[1].child) \o <<";">> \o Commas(n.child[2].child)
                                \o <<";">> \o Commas(n.child[3].child) \o <<")">>
      [] n.type = "fornumi" -> <<"for", n.child[1].tok, ":">> \o Bracketed("(", n.child[2].child, ")")
      [] n.type = "fornumr" -> <<"for", n.child[1].tok, ":", ".">> \o Bracketed("(", n.child[2].child, ")")
      [] n.type = "foreach" ->
            <<"foreach", "(">> \o (CASE n.child[1].type = "null" -> <<n.child[2].tok>>
                                     [] n.child[2].type = "null" -> <<n.child[1].tok, ",">>
                                     [] OTHER -> <<n.child[1].tok, ",", n.child[2].tok>>)
                \o <<":">> \o Commas(n.child[3].child) \o <<")">>

(* An expression statement or a command ends with a semicolon.             *)
StmtText(n) ==
    CASE n.type = "explist" /\ n.tok = "" -> Commas(n.child) \o <<";">>
      [] n.type = "fcall" -> <<n.tok>> \o Commas(n.child[2].child) \o <<";">>
      [] n.type = "block" /\ n.tok = "include" ->
            <<"include">> \o Commas(FlattenSeq([k \in DOMAIN n.child |-> n.child[k].child[2].child])) \o <<";">>
      [] n.type \in {"varlist", "gvlist"} -> Text(n) \o <<";">>
      [] n.type = "ifelse" -> <<"if", "(">> \o Text(n.child[1]) \o <<")">> \o StmtText(n.child[2])
            \o (IF Len(n.child) = 3 THEN <<"else">> \o StmtText(n.child[3]) ELSE <<>>)
      [] n.type = "while" -> <<"while", "(">> \o Text(n.child[1]) \o <<")">> \o StmtText(n.child[2])
      [] n.type = "dowhile" ->
            <<"do">> \o StmtText(n.child[2]) \o <<"while", "(">> \o Text(n.child[1]) \o <<")">>
      [] n.type \in {"for", "fornumi", "fornumr", "foreach"} ->
            ForText(n) \o StmtText(n.child[Len(n.child)])
      [] n.type = "break" -> <<"break">> \o (IF n.tok = "" THEN <<>> ELSE <<n.tok>>) \o <<";">>
      [] n.type = "cont" -> <<"continue">> \o (IF n.tok = "" THEN <<>> ELSE <<n.tok>>) \o <<";">>
      [] n.type = "return" -> <<"return">> \o Commas(n.child) \o <<";">>
      [] n.type = "defer" -> <<"defer">> \o StmtText(n.child[1])
      [] n.type = "dcltree" -> DeclText(n.child)
      [] n.type = "class" -> ClassText(n.child)
      [] OTHER -> Text(n)

Text(n) ==
    CASE n.type \in {"ident", "const", "keyword"} -> <<n.tok>>
      [] n.type = "argmt" -> IF n.child = <<>> THEN <<n.tok>> ELSE <<n.tok, "=">> \o Text(n.child[1])
      [] n.type = "char" -> <<n.tok, "c">>
      [] n.type = "oper" -> OperText(n)
      [] n.type = "operp" -> Text(n.child[1]) \o <<n.tok>>
      [] n.type = "explist" -> Bracketed("(", n.child, ")")
      [] n.type = "arrlist" -> Bracketed("[", n.child, "]")
      [] n.type = "dctlist" -> DictText(n.child)
      [] n.type = "maplist" -> <<"map">> \o DictText(n.child)
      [] n.type = "fcall" -> Texts(n.child)
      [] n.type = "thrcall" -> <<"thread">> \o Texts(n.child)
      [] n.type = "sthcall" -> <<"subthread">> \o Texts(n.child)
      [] n.type = "newcall" -> <<"new">> \o Texts(n.child)
      [] n.type = "index" -> Text(n.child[1]) \o <<"[">> \o Text(n.child[2]) \o <<"]">>
      [] n.type = "mpropset" -> Text(n.child[1]) \o <<".">> \o Text(n.child[2])
      [] n.type = "midxset" -> Text(n.child[1]) \o <<"[", "]">> \o Text(n.child[2])
      [] n.type \in {"varlist", "gvlist"} ->
            <<IF n.type = "varlist" THEN "var" ELSE "global">> \o Commas(n.child)
      [] n.type = "func" -> FunctionText(n)
      [] n.type = "block" -> <<"{">> \o FlattenSeq([k \in DOMAIN n.child |-> StmtText(n.child[k])]) \o <<"}">>

ProgramText(n) == FlattenSeq([k \in DOMAIN n.child |-> StmtText(n.child[k])])
=============================================================================

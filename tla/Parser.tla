------------------------------- MODULE Parser -------------------------------
(***************************************************************************)
(* The parser, sgs_fnt.c: statements by recursive descent; an expression   *)
(* first as a flat list of nodes, which level_exp splits at the operator   *)
(* of the largest weight, again and again.                                 *)
(***************************************************************************)
EXTENDS Syntax

---------------------------------------------------------------------------
(* Classes of operators                                                    *)
Assigns == {"=", "+=", "$="}
Bools == {"&&", "||"}
Compares == {"==", "<", "<=>"}
Bits == {"&", "<<"}
BinaryOps == Ops \ {"@", "!", "~", "++", "--", "?"}
UnaryOps == {"@", "+", "-", "!", "~", "++", "--"}
IncDec == {"++", "--"}

IsOper(n) == n.type = "oper"
Crash == Node("crash", "", <<>>)    \* the parser reads through a null pointer

(* part_weight, for an operator or a list in brackets.                     *)
BinaryWeight(tok) ==
    CASE tok \in Bools -> 30
      [] tok = "??" \/ tok \in Compares \ {"<=>"} -> 29
      [] tok = "<=>" -> 28
      [] tok = "$" -> 27
      [] tok \in Bits -> 26
      [] tok \in {"+", "-"} -> 25
      [] tok \in {"*", "%"} -> 24
      [] tok = "!" -> 8
      [] tok = "." -> 7
      [] tok \in {"~", "@", "++", "--", "?"} -> 11
Weight(n, isfcall, binary) ==
    CASE IsOper(n) /\ n.tok \in Assigns -> 40
      [] IsOper(n) /\ n.tok \notin Assigns -> IF binary THEN BinaryWeight(n.tok) ELSE 10
      [] ~IsOper(n) -> IF isfcall THEN 9 ELSE -1

(* How level_exp sees the i-th node of the list ns.                        *)
Considered(ns, i) == ns[i].type \in {"oper", "explist", "arrlist"}
IsCall(ns, i) ==
    /\ ns[i].type \in {"explist", "arrlist"} /\ i > 1
    /\ i = Len(ns) \/ (ns[i].type = "arrlist" /\ ns[i + 1].type = "dctlist")
    /\ ~(IsOper(ns[i - 1]) /\ ns[i - 1].tok \in BinaryOps)
AfterOperand(ns, i) == i > 1 /\ (IsOper(ns[i - 1]) => ns[i - 1].tok \in IncDec)
IsBinary(ns, i) == IsOper(ns[i]) /\ i < Len(ns) /\ AfterOperand(ns, i)
Leftmost(ns, i) == IsOper(ns[i]) /\ (ns[i].tok \in Assigns \/ ~IsBinary(ns, i))

(* Mutant of Heavier: operators of the same weight group to the right.     *)
HeavierRight(ns, i, w, best) == w > best

Heavier(ns, i, w, best) == IF Leftmost(ns, i) THEN w > best ELSE w >= best

(* The most powerful part, 0 if there is none.                             *)
MostPowerful(ns) ==
    LET Seen(best, i) ==
            LET w == Weight(ns[i], IsCall(ns, i), IsBinary(ns, i))
            IN  IF Considered(ns, i) /\ Heavier(ns, i, w, best.weight)
                THEN [weight |-> w, at |-> i] ELSE best
    IN  FoldLeft(Seen, [weight |-> 0, at |-> 0], [i \in DOMAIN ns |-> i]).at

---------------------------------------------------------------------------
(* level_exp returns a node: NoNode after an error.                        *)
Bad(n) == n \in {NoNode, Crash}
And2(l, r, F(_, _)) == IF Bad(l) THEN l ELSE IF Bad(r) THEN r ELSE F(l, r)

(* Concatenations in the operands become operands of their own.            *)
Merged(tok, l, r) ==
    LET left == IF tok = "$" /\ l.tok = "$" THEN l.child ELSE <<l>>
        right == IF tok \in {"$", "$="} /\ r.tok = "$" THEN r.child ELSE <<r>>
    IN  Node("oper", tok, left \o right)

RECURSIVE Level(_)

Behind(ns, m) == SubSeq(ns, m + 1, Len(ns))
Before(ns, m) == SubSeq(ns, 1, m - 1)

SplitCall(ns, m) ==
    LET list == ns[m]
        Call(l, r) ==
            IF list.type = "explist" THEN Node("fcall", "(", <<l, r>>)
            ELSE IF Len(r.child) # 1 THEN NoNode
            ELSE Node("index", "[", <<l, r.child[1]>>)
        MultiSet(l) == IF Bad(l) THEN l ELSE Node("midxset", "[", <<l>> \o Behind(ns, m))
    IN  IF list.type = "arrlist" /\ list.child = <<>> /\ m < Len(ns)
        THEN MultiSet(Level(Before(ns, m)))
        ELSE And2(Level(Before(ns, m)), Level(SubSeq(ns, m, Len(ns))), Call)

SplitBinary(ns, m) ==
    LET Oper(l, r) == Merged(ns[m].tok, l, r)
        MultiSet(l) == IF Bad(l) THEN l ELSE Node("mpropset", ".", <<l>> \o Behind(ns, m))
    IN  IF ns[m].tok = "." /\ ns[m + 1].type = "dctlist" THEN MultiSet(Level(Before(ns, m)))
        ELSE And2(Level(Before(ns, m)), Level(Behind(ns, m)), Oper)

SplitUnary(ns, m) ==
    LET Applied(n) == IF Bad(n) THEN n ELSE Node(IF m = Len(ns) THEN "operp" ELSE "oper", ns[m].tok, <<n>>)
    IN  IF m = Len(ns) /\ m = 1 THEN NoNode
        ELSE IF m = Len(ns) THEN Applied(Level(Before(ns, m))) ELSE Applied(Level(Behind(ns, m)))

Split(ns, m) ==
    CASE m = 0 -> IF Len(ns) > 1 THEN NoNode ELSE IF ns = <<>> THEN Crash ELSE ns[1]
      [] m > 0 /\ ~IsOper(ns[m]) -> SplitCall(ns, m)
      [] m > 0 /\ IsOper(ns[m]) /\ m < Len(ns) /\ AfterOperand(ns, m) -> SplitBinary(ns, m)
      [] m > 0 /\ IsOper(ns[m]) /\ ~(m < Len(ns) /\ AfterOperand(ns, m)) ->
            IF ns[m].tok \in UnaryOps /\ (m = 1 \/ (ns[m].tok \in IncDec /\ m = Len(ns)))
            THEN SplitUnary(ns, m) ELSE NoNode

(* thread, subthread and new in front of a call.                           *)
PrefixWords == <<"thread", "subthread", "new">>
WithoutPrefix(ns) ==
    LET Strip(rest, word) ==
            IF rest # <<>> /\ rest[1] = Node("keyword", word, <<>>) THEN Tail(rest) ELSE rest
    IN  FoldLeft(Strip, ns, PrefixWords)
PrefixType == [thread |-> "thrcall", subthread |-> "sthcall", new |-> "newcall"]

Prefixed(word, n) ==
    IF Bad(n) THEN n
    ELSE IF n.type # "fcall" \/ (word = "new" /\ IsOper(n.child[1])) THEN NoNode
    ELSE [n EXCEPT !.type = PrefixType[word]]

LevelFrom(ns, rest) ==
    IF Len(rest) = Len(ns) THEN Split(ns, MostPowerful(ns))
    ELSE Prefixed(ns[Len(ns) - Len(rest)].tok, Split(rest, MostPowerful(rest)))
Level(ns) == IF ns = <<>> THEN NoNode ELSE LevelFrom(ns, WithoutPrefix(ns))

---------------------------------------------------------------------------
(* Lists of expressions and arguments, and the parts of an expression.     *)
RECURSIVE Exp(_, _, _), Items(_, _, _, _, _), Exps(_, _, _, _), Args(_, _, _, _), Dict(_, _, _),
          Brackets(_, _, _, _, _), Stmt(_, _), Stmts(_, _, _, _), Branches(_, _, _, _), Members(_, _, _, _)

List(nodes) == Node("", "", nodes)
With(r, type, tok) == IF r.at = 0 THEN r ELSE Result(r.at, Node(type, tok, r.node.child))
Skipped(r) == IF r.at = 0 THEN r ELSE Result(r.at + 1, r.node)

(* parse_arg and parse_arglist, up to the closing token.                   *)
Arg(p, i, end) ==
    IF Tok(p, i) \notin Idents THEN Failed
    ELSE IF Tok(p, i + 1) # "=" THEN Result(i + 1, Node("argmt", p[i], <<>>))
    ELSE Upon(Exp(p, i + 2, {",", end}), LAMBDA e : Result(e.at, Node("argmt", p[i], <<e.node>>)))

Args(p, i, end, nodes) ==
    IF Tok(p, i) = end THEN Result(i, List(nodes))
    ELSE IF nodes # <<>> /\ Tok(p, i) # "," THEN Failed
    ELSE Upon(Arg(p, IF nodes = <<>> THEN i ELSE i + 1, end), LAMBDA a :
            Args(p, a.at, end, Append(nodes, a.node)))

(* parse_explist, up to the closing token.                                 *)
Exps(p, i, end, nodes) ==
    IF Tok(p, i) = end THEN Result(i, List(nodes))
    ELSE IF nodes # <<>> /\ Tok(p, i) # "," THEN Failed
    ELSE Upon(Exp(p, IF nodes = <<>> THEN i ELSE i + 1, {",", end}), LAMBDA e :
            Exps(p, e.at, end, Append(nodes, e.node)))

(* A bracket in an expression: a comma behind the last element is allowed  *)
(* unless the token before the bracket is an identifier.                   *)
Brackets(p, i, end, isidx, nodes) ==
    IF Tok(p, i) = end /\ (nodes = <<>> \/ ~isidx) THEN Result(i + 1, List(nodes))
    ELSE Upon(Exp(p, i, {",", end}), LAMBDA e :
            IF Tok(p, e.at) = end THEN Result(e.at + 1, List(Append(nodes, e.node)))
            ELSE Brackets(p, e.at + 1, end, isidx, Append(nodes, e.node)))

(* parse_dict: keys and values in turn, behind the closing brace.          *)
DictKey(p, i) ==
    CASE Tok(p, i) \in Idents \cup Keywords \cup Strings -> Result(i + 1, Node("argmt", p[i], <<>>))
      [] Tok(p, i) = "[" -> Skipped(Exp(p, i + 1, {"]"}))
      [] OTHER -> Failed
DictValue(p, i, k) ==
    CASE Tok(p, k) = "=" -> Exp(p, k + 1, {",", "}"})
      [] Tok(p, k) \in {",", "}"} /\ p[i] \in Idents \cup Keywords -> Result(k, Node("ident", p[i], <<>>))
      [] OTHER -> Failed
Dict(p, i, nodes) ==
    IF Tok(p, i) = "}" THEN Result(i + 1, List(nodes))
    ELSE Upon(DictKey(p, i), LAMBDA key :
         Upon(DictValue(p, i, key.at), LAMBDA v :
            Dict(p, IF Tok(p, v.at) = "," THEN v.at + 1 ELSE v.at, nodes \o <<key.node, v.node>>)))
---------------------------------------------------------------------------
(* A form is a sequence of parts; each adds its node to those before it.   *)
Need(tok) == [kind |-> "token", end |-> tok]
Word == [kind |-> "word", end |-> ""]
Cond == [kind |-> "cond", end |-> ")"]
ListTo(end) == [kind |-> "list", end |-> end]
Statement == [kind |-> "statement", end |-> ""]

Part(p, i, part) ==
    CASE part.kind = "token" -> IF Tok(p, i) = part.end THEN Result(i + 1, List(<<>>)) ELSE Failed
      [] part.kind = "word" ->
            IF Tok(p, i) \in Idents THEN Result(i + 1, List(<<Node("ident", p[i], <<>>)>>)) ELSE Failed
      [] part.kind = "cond" ->
            Upon(Exp(p, i, {")"}), LAMBDA e : Result(e.at + 1, List(<<e.node>>)))
      [] part.kind = "list" ->
            Upon(With(Exps(p, i, part.end, <<>>), "explist", ""), LAMBDA e : Result(e.at + 1, List(<<e.node>>)))
      [] part.kind = "statement" -> Upon(Stmt(p, i), LAMBDA s : Result(s.at, List(<<s.node>>)))

Form(p, i, parts) ==
    LET Then(r, part) == Upon(r, LAMBDA q : Upon(Part(p, q.at, part), LAMBDA t :
                                Result(t.at, List(q.node.child \o t.node.child))))
    IN  FoldLeft(Then, Result(i, List(<<>>)), parts)

---------------------------------------------------------------------------
(* parse_function; i is behind the word function.  In a class, own is the  *)
(* name of the class.                                                      *)
FunctionName(p, i, inexp, own) ==
    CASE Tok(p, i) \notin Idents -> IF inexp \/ own # "" THEN Result(i, List(<<>>)) ELSE Failed
      [] Tok(p, i) \in Idents /\ own # "" ->
            Result(i + 1, List(<<Node("clspfx", own, <<Node("ident", p[i], <<>>)>>)>>))
      [] Tok(p, i) \in Idents /\ own = "" ->
            IF Tok(p, i + 1) # "." THEN Form(p, i, <<Word>>)
            ELSE Upon(Form(p, i, <<Word, Need("."), Word>>), LAMBDA r :
                    Result(r.at, List(<<Node("oper", ".", r.node.child)>>)))

Closed(p, i) ==
    IF Tok(p, i) # "use" THEN Result(i, Node("uselist", "", <<>>))
    ELSE IF Tok(p, i + 1) # "(" THEN Failed
    ELSE Skipped(With(Args(p, i + 2, ")", <<>>), "uselist", "use"))

Body(p, i) ==
    CASE Tok(p, i) = "=" -> Skipped(With(Exps(p, i + 1, ";", <<>>), "return", ""))
      [] Tok(p, i) = "{" -> Stmt(p, i)
      [] OTHER -> Failed

Function(p, i, inexp, own) ==
    Upon(FunctionName(p, i, inexp, own), LAMBDA name :
        IF Tok(p, name.at) # "(" THEN Failed
        ELSE Upon(Skipped(With(Args(p, name.at + 1, ")", <<>>), "arglist", "")), LAMBDA args :
             Upon(Closed(p, args.at), LAMBDA uses :
             Upon(Body(p, uses.at), LAMBDA body :
                Result(body.at, Node("func", "function",
                                     <<args.node, uses.node, body.node>> \o name.node.child))))))

---------------------------------------------------------------------------
(* parse_exp: the flat list of an expression, up to one of the ends.       *)
(* prev is the token before, unless that closed a bracket or a function.   *)
Items(p, i, ends, nodes, prev) ==
    LET t == Tok(p, i)
        One(type) == Items(p, i + 1, ends, Append(nodes, Node(type, t, <<>>)), t)
        Inner(r, last) == Upon(r, LAMBDA q : Items(p, q.at, ends, Append(nodes, q.node), last))
    IN  CASE t \in ends -> Result(i, List(nodes))
          [] t \in Strings \ ends ->
                IF Tok(p, i + 1) # "c" THEN One("const")
                ELSE IF t # "'s'" THEN Failed
                ELSE Items(p, i + 2, ends, Append(nodes, Node("char", t, <<>>)), "c")
          [] t \in Numbers -> One("const")
          [] t \in Idents -> IF t = "map" /\ Tok(p, i + 1) = "{"
                             THEN Inner(With(Dict(p, i + 2, <<>>), "maplist", "map"), "}")
                             ELSE One("ident")
          [] t = "function" -> Inner(Function(p, i + 1, TRUE, ""), prev)
          [] t \in Keywords \ {"function"} -> One("keyword")
          [] t \in Ops -> One("oper")
          [] t = "(" -> Inner(With(Brackets(p, i + 1, ")", prev \in Idents, <<>>), "explist", "("), prev)
          [] t = "[" -> Inner(With(Brackets(p, i + 1, "]", prev \in Idents, <<>>), "arrlist", "["), prev)
          [] t = "{" -> Inner(With(Dict(p, i + 1, <<>>), "dctlist", "{"), "}")
          [] OTHER -> Failed

(* A list of declarations ends at the token that is not the comma.         *)
DeclarationEnd(ends) == CHOOSE t \in ends : t # ","
Levelled(at, n) == IF Bad(n) THEN Result(0, n) ELSE Result(at, n)
Exp(p, i, ends) ==
    CASE Tok(p, i) = "var" -> With(Args(p, i + 1, DeclarationEnd(ends), <<>>), "varlist", "var")
      [] Tok(p, i) = "global" -> With(Args(p, i + 1, DeclarationEnd(ends), <<>>), "gvlist", "global")
      [] OTHER -> Upon(Items(p, i, ends, <<>>, ""), LAMBDA r : Levelled(r.at, Level(r.node.child)))
---------------------------------------------------------------------------
(* Statements; i is behind their first word.                               *)
Made(r, type, tok) == Upon(r, LAMBDA q : Result(q.at, Node(type, tok, q.node.child)))

If(p, i) ==
    Upon(Form(p, i, <<Need("("), Cond, Statement>>), LAMBDA r :
        IF Tok(p, r.at) # "else" THEN Made(r, "ifelse", "if")
        ELSE Upon(Stmt(p, r.at + 1), LAMBDA s :
                Result(s.at, Node("ifelse", "if", Append(r.node.child, s.node)))))

While(p, i) == Made(Form(p, i, <<Need("("), Cond, Statement>>), "while", "while")

DoWhile(p, i) ==
    Upon(Form(p, i, <<Statement, Need("while"), Need("("), Cond>>), LAMBDA r :
        Result(r.at, Node("dowhile", "do", <<r.node.child[2], r.node.child[1]>>)))

NumericFor(p, i) ==
    LET real == Tok(p, i + 2) = "."
        parts == <<Word, Need(":")>> \o (IF real THEN <<Need(".")>> ELSE <<>>)
                    \o <<Need("("), ListTo(")"), Statement>>
    IN  Upon(Form(p, i, parts), LAMBDA r :
            IF Len(r.node.child[2].child) \in 1..3
            THEN Made(r, IF real THEN "fornumr" ELSE "fornumi", "for") ELSE Failed)
For(p, i) ==
    IF Tok(p, i) = "("
    THEN Made(Form(p, i + 1, <<ListTo(";"), ListTo(";"), ListTo(")"), Statement>>), "for", "for")
    ELSE NumericFor(p, i)

(* parse_foreach: the variable of the key, or of the value, may be missing. *)
Loop(p, i, key, val) ==
    Upon(Form(p, i, <<Need(":"), ListTo(")"), Statement>>), LAMBDA r :
        Result(r.at, Node("foreach", "foreach", <<key, val>> \o r.node.child)))
ForEach(p, i) ==
    LET name(k) == Node("ident", Tok(p, k), <<>>)
        null == Node("null", "", <<>>)
    IN  IF Tok(p, i) # "(" \/ Tok(p, i + 1) \notin Idents THEN Failed
        ELSE IF Tok(p, i + 2) # "," THEN Loop(p, i + 2, null, name(i + 1))
        ELSE IF Tok(p, i + 3) \in Idents THEN Loop(p, i + 4, name(i + 1), name(i + 3))
        ELSE Loop(p, i + 3, name(i + 1), null)

(* break and continue, with the number of loops.                           *)
Leave(p, i, type) ==
    LET n == Tok(p, i)
        end == IF n \in Numbers THEN i + 1 ELSE i
    IN  IF n \in {"0", "256"} \/ Tok(p, end) # ";" THEN Failed
        ELSE Result(end + 1, Node(type, IF n \in Numbers THEN n ELSE "", <<>>))

(* print and include; i is behind the word.                                *)
Commanded(name, exps) ==
    Node("fcall", name, <<Node("ident", name, <<>>), Node("explist", "", exps)>>)
Command(p, i, name) ==
    Upon(Skipped(Exps(p, i, ";", <<>>)), LAMBDA r : Result(r.at, Commanded(name, r.node.child)))

(* Mutant of MultiCommand: each file keeps its link to those behind it.    *)
MultiCommandLinked(p, i, name) ==
    LET Each(es, k) == Commanded(name, SubSeq(es, k, Len(es)))
    IN  Upon(Skipped(Exps(p, i, ";", <<>>)), LAMBDA r :
            Result(r.at, Node("block", name, [k \in DOMAIN r.node.child |-> Each(r.node.child, k)])))

MultiCommand(p, i, name) ==
    LET Each(e) == Commanded(name, <<e>>)
    IN  Upon(Skipped(Exps(p, i, ";", <<>>)), LAMBDA r :
            Result(r.at, Node("block", name, [k \in DOMAIN r.node.child |-> Each(r.node.child[k])])))

---------------------------------------------------------------------------
(* parse_decltree: a flat list in which enter and exit mark the levels.    *)
Mark(type) == Node(type, "", <<>>)
Branches(p, i, level, nodes) ==
    LET t == Tok(p, i)
        Named(child) == Node("ident", t, child)
    IN  CASE t = "}" /\ level = 1 -> Result(i + 1, List(nodes))
          [] t = "}" /\ level > 1 -> Branches(p, i + 1, level - 1, Append(nodes, Mark("dtexit")))
          [] t \in Idents /\ Tok(p, i + 1) = "=" ->
                Upon(Skipped(Exp(p, i + 2, {";"})), LAMBDA e :
                    Branches(p, e.at, level, Append(nodes, Named(<<e.node>>))))
          [] t \in Idents /\ Tok(p, i + 1) = "{" ->
                Branches(p, i + 2, level + 1, nodes \o <<Named(<<>>), Mark("dtenter")>>)
          [] t \in Idents /\ Tok(p, i + 1) = "(" ->
                Upon(Skipped(With(Exps(p, i + 2, ")", <<>>), "dtnprm", "")), LAMBDA e :
                    IF Tok(p, e.at) # "{" THEN Failed
                    ELSE Branches(p, e.at + 1, level + 1,
                                  nodes \o <<Named(<<e.node>>), Mark("dtenter")>>))
          [] OTHER -> Failed
DeclTree(p, i) ==
    Upon(Form(p, i, <<Word, Need(":"), Word, Need("{")>>), LAMBDA r :
        Made(Branches(p, r.at, 1, r.node.child), "dcltree", "decltree"))

(* parse_class: globals and functions, which are its methods.              *)
Members(p, i, own, nodes) ==
    CASE Tok(p, i) = "}" -> Result(i + 1, List(nodes))
      [] Tok(p, i) = "global" ->
            Upon(Skipped(With(Args(p, i + 1, ";", <<>>), "clsglob", "global")), LAMBDA g :
                Members(p, g.at, own, Append(nodes, g.node)))
      [] Tok(p, i) = "function" ->
            Upon(Function(p, i + 1, FALSE, own), LAMBDA f : Members(p, f.at, own, Append(nodes, f.node)))
      [] OTHER -> Failed
Class(p, i) ==
    LET name == Tok(p, i)
        inherits == Tok(p, i + 1) = ":"
        parts == <<Word>> \o (IF inherits THEN <<Need(":"), Word>> ELSE <<>>) \o <<Need("{")>>
        Heading(ns) == IF inherits THEN <<ns[1], [ns[2] EXCEPT !.type = "clsinh"]>> ELSE ns
    IN  IF name = "class" THEN Failed
        ELSE Upon(Form(p, i, parts), LAMBDA r :
             Made(Members(p, r.at, name, Heading(r.node.child)), "class", name))

---------------------------------------------------------------------------
(* parse_stmt and parse_stmtlist.                                          *)
Stmt(p, i) ==
    LET t == Tok(p, i)
        command == Tok(p, i + 1) # "("
    IN  CASE t = "if" -> If(p, i + 1)
          [] t = "while" -> While(p, i + 1)
          [] t = "do" -> DoWhile(p, i + 1)
          [] t = "for" -> For(p, i + 1)
          [] t = "foreach" -> ForEach(p, i + 1)
          [] t = "break" -> Leave(p, i + 1, "break")
          [] t = "continue" -> Leave(p, i + 1, "cont")
          [] t = "function" -> Function(p, i + 1, FALSE, "")
          [] t = "return" -> Skipped(With(Exps(p, i + 1, ";", <<>>), "return", "return"))
          [] t \in {"var", "global"} -> Skipped(Exp(p, i, {";"}))
          [] t = "defer" -> Upon(Stmt(p, i + 1), LAMBDA s : Result(s.at, Node("defer", t, <<s.node>>)))
          [] t = "decltree" -> DeclTree(p, i + 1)
          [] t = "class" /\ command -> Class(p, i + 1)
          [] t = "print" /\ command -> Command(p, i + 1, t)
          [] t = "include" /\ command -> MultiCommand(p, i + 1, t)
          [] t = "{" -> Skipped(Stmts(p, i + 1, "}", <<>>))
          [] t = "else" -> Failed
          [] OTHER -> Skipped(With(Exps(p, i, ";", <<>>), "explist", ""))

Stmts(p, i, end, nodes) ==
    IF Tok(p, i) = end THEN Result(i, Node("block", "{", nodes))
    ELSE Upon(Stmt(p, i), LAMBDA s : Stmts(p, s.at, end, Append(nodes, s.node)))

Compile(p) == Stmts(p, 1, "", <<>>).node
=============================================================================

---------------------------- MODULE MCInterpreter ----------------------------
(* Programs for Interpreter: expressions in all positions, loops of every  *)
(* kind whose bodies leave them in every way, and one program or a few for *)
(* each of the other features of the language.                             *)
EXTENDS Interpreter

CONSTANTS null, warned

GlobalVars ==
    "g" :> I(7) @@ "t1" :> [thread |-> 1] @@ "t2" :> [thread |-> 2] @@ "t3" :> [thread |-> 3]
    @@ [name \in {"ask", "emit", "thread_create", "subthread_create"} |-> Native(name)]

---------------------------------------------------------------------------
V(name) == [op |-> "ident", name |-> name, kids |-> <<>>]
C(v) == [op |-> "const", value |-> v, kids |-> <<>>]
N(n) == C(I(n))
S(s) == C(Text(s))
Nil == C(Null)
This == [op |-> "this", kids |-> <<>>]
On(op, kids) == [op |-> op, kids |-> kids]
List(x, i) == On("index", <<x, i>>)
Dot(x, name) == On("prop", <<x, [op |-> "key", name |-> name, kids |-> <<>>]>>)
How(how, f, args) == [op |-> "call", how |-> how, kids |-> <<f>> \o args]
Do(f, args) == How("call", f, args)
Ask == Do(V("ask"), <<>>)
Emit(x) == Do(V("emit"), <<x>>)
Bin(op, a, b) == [op |-> op, assign |-> FALSE, kids |-> <<a, b>>]
BoolSet(op, a, b) == [op |-> op, assign |-> TRUE, kids |-> <<a, b>>]
Op2(instr, a, b) == [op |-> "oper", instr |-> instr, kids |-> <<a, b>>]
Op1(instr, a) == [op |-> "oper", instr |-> instr, kids |-> <<a>>]
Plus(a, b) == Op2("ADD", a, b)
OpSet(instr, a, b) == [op |-> "opset", instr |-> instr, kids |-> <<a, b>>]
Cat(xs) == [op |-> "cat", assign |-> FALSE, kids |-> xs]
Let(name, x) == On("set", <<V(name), x>>)
Inc(x, postfix) == [op |-> "inc", instr |-> "INC", postfix |-> postfix, kids |-> <<x>>]
Cond(a, b, c) == On("if", <<a, b, c>>)

Stm(st, kids) == [st |-> st, kids |-> kids]
None == Stm("none", <<>>)
E(x) == Stm("expr", <<x>>)
Do2(ss) == Stm("block", ss)
When(t, a, b) == Stm("if", <<t, a, b>>)
Ret(xs) == Stm("return", xs)
Later(s) == Stm("defer", <<s>>)
Brk(n) == [st |-> "break", levels |-> n, kids |-> <<>>]
Cont(n) == [st |-> "continue", levels |-> n, kids |-> <<>>]
Decl(st, name, xs) == Stm(st, <<[st |-> "decl", name |-> name, kids |-> xs]>>)
Fn(params, uses, ss) == [op |-> "func", params |-> params, uses |-> uses, kids |-> <<Do2(ss)>>]
Function(name, params, uses, ss) == Stm("function", <<V(name), Fn(params, uses, ss)>>)
MethodS(class, name, params, ss) ==
    Stm("function", <<[op |-> "clspfx", class |-> class, name |-> name, kids |-> <<>>], Fn(params, <<>>, ss)>>)
ClassS(name, base, ms) == [st |-> "class", name |-> name, inherits |-> base, kids |-> ms]
Member(name, x) == [st |-> "member", name |-> name, kids |-> <<x>>]
Item(st, name, xs) == [st |-> st, name |-> name, kids |-> xs]
Each(key, value, over, body) == [st |-> "foreach", key |-> key, value |-> value, kids |-> <<over, body>>]
Num4(index, range, body) == [st |-> "fornum", index |-> index, kids |-> Append(range, body)]
Emits2(xs) == Stm("expr", [i \in DOMAIN xs |-> Emit(xs[i])])
New2(class, args) == How("new", V(class), args)

(* A program that calls a function with the locals x and y and the global  *)
(* g, and emits what it returns.                                           *)
Program(ss) ==
    Do2(<<Function("f", <<"x", "y">>, <<>>, <<Decl("globals", "g", <<>>)>> \o ss),
          E(On("setmany", <<V("a"), V("b"), V("c"), Do(V("f"), <<Nil, N(1)>>)>>)),
          Ret(<<V("a"), V("b"), V("c")>>)>>)

---------------------------------------------------------------------------
(* Expressions whose operands do not assign the variables of one another.  *)
Simple == {V("x"), V("g"), Nil, Ask, Emit(V("y")), Inc(V("y"), TRUE), Inc(V("g"), FALSE)}
Logical ==
    {Bin(op, a, b) : op \in {"and", "or", "nn"}, a \in Simple, b \in Simple}
    \cup {BoolSet(op, V(name), b) : op \in {"and", "or", "nn"}, name \in {"x", "g"}, b \in Simple}
    \cup {Op1("BOOL_INV", a) : a \in Simple} \cup {OpSet("ADD", V(name), a) : name \in {"x", "g"}, a \in Simple}
    \cup {Plus(N(1), Emit(Plus(V("x"), Ask))), Plus(Inc(V("x"), FALSE), N(2)), Let("y", Let("g", Ask))}
    \cup {Cond(a, Emit(N(1)), Bin("or", Ask, V("x"))) : a \in Simple}
Assignments ==
    {Program(<<E(Let("x", N(3))), E(Let(name, x)), IF x.op = "if" THEN None ELSE E(x),
               Ret(<<x, V("x"), V("g")>>)>>) : name \in {"x", "g"}, x \in Logical}

---------------------------------------------------------------------------
(* Loops of every kind around a body; ask decides how long they run.       *)
Pair == On("array", <<N(8), N(9)>>)
Loops(body) ==
    {Stm("while", <<Ask, body>>), Stm("dowhile", <<Bin("and", Ask, Ask), body>>),
     Stm("for", <<E(Let("x", N(0))), Stm("expr", <<Emit(V("x")), Ask>>),
                  Stm("expr", <<Inc(V("x"), TRUE), Emit(V("x"))>>), body>>),
     Num4("k", <<N(2)>>, body), Num4("k", <<N(2), N(0), N(-1)>>, body),
     Each("x", "", Pair, body), Each("", "g", Pair, body)}

Exits == {Brk(1), Cont(1), Ret(<<V("y"), Emit(V("x"))>>), Ret(<<V("g")>>)}

Body(exit) ==
    Do2(<<Later(E(Emit(V("x")))), E(Emit(V("y"))), When(Ask, Do2(<<Later(E(Emit(N(1)))), exit>>), None),
          Later(E(Emit(N(2)))), When(Ask, exit, E(Emit(N(3))))>>)

LoopPrograms ==
    {Program(<<Later(E(Emit(N(4)))), loop, E(Emit(V("x"))), E(Let("y", N(6)))>>) :
        loop \in UNION {Loops(Body(exit)) : exit \in Exits}}

(* One loop in another, left over one level or two.                        *)
InnerLoops(exit) ==
    LET body == Do2(<<Later(E(Emit(N(2)))), When(Ask, exit, None)>>)
    IN  {Stm("while", <<Ask, body>>), Stm("dowhile", <<Ask, body>>), Each("y", "", Pair, body)}

NestedPrograms ==
    {Program(<<outer, Ret(<<V("x")>>)>>) :
        outer \in UNION {
            Loops(Do2(<<Later(E(Emit(N(1)))), inner, E(Emit(N(3)))>>))
            : inner \in UNION {InnerLoops(exit) : exit \in {Brk(1), Brk(2), Cont(2), Ret(<<>>)}}}}

(* A deferred statement that is a block with a loop and a deferred         *)
(* statement of its own, compiled at two ends of its block.                *)
DeferPrograms ==
    {Program(<<Later(Do2(<<Later(E(Emit(N(1)))), loop>>)), When(Ask, Ret(<<Ask, V("x")>>), E(Emit(N(2))))>>) :
        loop \in UNION {InnerLoops(exit) : exit \in {Brk(1), Cont(1)}}}

---------------------------------------------------------------------------
(* Closures: shared by two functions, made by a function at each call, and *)
(* over two levels.                                                        *)
Bump(name) == E(Let(name, Plus(V(name), N(1))))
ClosurePrograms == {
    Do2(<<E(Let("c", N(1))), E(Let("up", Fn(<<>>, <<"c">>, <<Bump("c"), Ret(<<V("c")>>)>>))),
          E(Let("read", Fn(<<>>, <<"c">>, <<Ret(<<V("c")>>)>>))),
          When(Ask, E(Let("c", N(10))), None), Emits2(<<Do(V("up"), <<>>), Do(V("read"), <<>>), V("c")>>)>>),
    Do2(<<Function("make", <<"a", "b">>, <<>>,
             <<E(Let("b", Plus(V("b"), N(1)))),
               Ret(<<Fn(<<"d">>, <<"a", "b">>, <<E(OpSet("ADD", V("a"), V("d"))), Bump("b"), Ret(<<V("a"), V("b")>>)>>)>>)>>),
          E(Let("p", Do(V("make"), <<N(1)>>))), E(Let("q", Do(V("make"), <<N(5), N(2)>>))),
          E(On("setmany", <<V("x"), V("y"), Do(V("p"), <<N(1)>>)>>)), Emits2(<<V("x"), V("y")>>),
          When(Ask, E(Emit(Do(V("p"), <<N(3)>>))), E(Emit(Do(V("q"), <<N(3)>>)))),
          Ret(<<Do(V("p"), <<N(0)>>), Do(V("q"), <<N(0)>>)>>)>>),
    Do2(<<E(Let("a", N(1))), E(Let("b", N(2))), E(Let("c", N(3))), E(Let("d", N(4))),
          E(Let("outer", Fn(<<>>, <<"a", "b", "c", "d">>,
              <<Bump("d"), Ret(<<Fn(<<"e">>, <<"d", "a">>, <<Bump("a"), Ret(<<Plus(V("d"), Plus(V("a"), V("e")))>>)>>)>>)>>))),
          E(Let("inner", Do(V("outer"), <<>>))),
          Emits2(<<Do(V("inner"), <<N(100)>>), V("a"), V("d"), Do(Do(V("outer"), <<>>), <<V("b")>>)>>)>>)}

(* Calls with fewer and more arguments, with an object, of nothing, and    *)
(* in arguments of calls; functions that are used before their statement.  *)
CallPrograms == {
    Do2(<<E(Let("r", Do(V("f"), <<N(1), Do(V("f"), <<N(2)>>), N(3), N(4)>>))), E(Emit(V("r"))),
          Function("f", <<"a", "b">>, <<>>, <<Emits2(<<V("a"), V("b")>>), When(Ask, Ret(<<V("a")>>), Ret(<<>>))>>),
          Function("m", <<"a">>, <<>>, <<Ret(<<On("array", <<This, V("a")>>), Dot(This, "v")>>)>>),
          E(Let("o", On("dict", <<[op |-> "key", name |-> "v", kids |-> <<>>], N(6),
                                  [op |-> "key", name |-> "m", kids |-> <<>>], V("m")>>))),
          E(On("setmany", <<V("x"), V("y"), Do(Dot(V("o"), "m"), <<N(1)>>)>>)),
          Emits2(<<List(V("x"), N(1)), V("y"), List(Do(On("bang", <<V("o"), V("m")>>), <<Nil>>), N(0))>>),
          E(Emit(Do(Dot(V("o"), "none"), <<Emit(N(2))>>))), E(Emit(List(Do(V("m"), <<N(9), N(8)>>), N(0))))>>),
    Do2(<<Function("f", <<"a">>, <<>>,
             <<When(Op2("LT", V("a"), N(2)), Ret(<<V("a")>>), None),
               Ret(<<Plus(Do(V("f"), <<Op2("SUB", V("a"), N(1))>>), Do(V("f"), <<Op2("SUB", V("a"), N(2))>>))>>)>>),
          E(Let("t", How("thread", V("f"), <<N(3)>>))),
          E(Let("o", On("dict", <<[op |-> "key", name |-> "f", kids |-> <<>>],
                                  Fn(<<"a">>, <<>>, <<Emits2(<<V("a"), This>>)>>)>>))),
          E(How("subthread", Dot(V("o"), "f"), <<V("t")>>)),
          Ret(<<Do(V("f"), <<N(4)>>), V("t")>>)>>)}

(* Messages held back by @, also in the functions it calls.                *)
QuietPrograms == {
    Do2(<<Function("f", <<>>, <<>>, <<E(Let("z", V("gone"))), Ret(<<On("quiet", <<V("gone")>>), V("gone")>>)>>),
          E(Emit(x)), E(x), E(On("quiet", <<N(1)>>)), E(Emit(Dot(V("gone"), "p"))),
          E(Let("n", N(3))), E(On("set", <<List(V("n"), N(4)), N(5)>>))>>) :
    x \in {On("quiet", <<V("gone")>>), On("quiet", <<Do(V("f"), <<>>)>>), Do(V("f"), <<>>),
           On("quiet", <<Bin("or", Ask, On("quiet", <<V("gone")>>))>>), Inc(V("gone"), FALSE)}}

(* Items, properties, literals and operators on them.                      *)
K(name) == [op |-> "key", name |-> name, kids |-> <<>>]
ItemPrograms == {
    Do2(<<E(Let("d", On(kind, <<K("p"), N(1), N(2), On("array", <<N(3), N(4)>>), S("t"), V("g")>>))),
          E(Emit(List(V("d"), N(2)))), E(Emit(List(V("d"), S("2")))), E(Emit(List(V("d"), S("t")))),
          E(OpSet("MUL", Dot(V("d"), "p"), N(6))), E(Emit(Inc(Dot(V("d"), "p"), TRUE))),
          E(Let("a", List(V("d"), On("list", <<V("g"), N(2)>>)))), Each("i", "v", V("a"),
                Do2(<<When(Ask, E(Do(Dot(V("a"), "pop"), <<>>)), None), Emits2(<<V("i"), V("v")>>)>>)),
          E(BoolSet("nn", List(V("d"), S("q")), Emit(N(3)))),
          E([op |-> "multiset", isprop |-> TRUE, kids |-> <<V("d"), K("r"), Ask, K("s"), Dot(V("d"), "r")>>]),
          Emits2(<<Dot(V("d"), "s"), List(V("a"), N(1)), List(V("a"), N(2)), Dot(V("d"), "q"), Dot(V("d"), "p")>>)>>)
    : kind \in {"dict", "map"}}

OperatorPrograms ==
    {Do2(<<E(Let("x", v)), E(Let("y", w)),
           Emits2([i \in 1 .. Len(instrs) |-> Op2(instrs[i], V("x"), V("y"))]),
           E([op |-> "cat", assign |-> TRUE, kids |-> <<V("x"), V("y"), S("z")>>]),
           Ret(<<V("x"), Cat(<<V("y"), Ask, V("x")>>)>>)>>) :
        instrs \in {<<"ADD", "SUB", "MUL", "SEQ", "SNEQ", "EQ", "NEQ", "LT", "GTE", "GT", "LTE", "RAWCMP">>},
        v \in {N(2), C(B(TRUE)), Nil}, w \in {N(2), N(1), C(B(FALSE)), Nil}}
    \cup {Do2(<<E(Let("x", v)), E(Let("s", S("2"))),
                Emits2(<<Op2("SEQ", V("x"), V("s")), Op2("EQ", V("x"), V("s")), Op2("NEQ", V("s"), V("x")),
                         Op1("NEGATE", V("x")), Op1("INVERT", V("x")), Inc(V("x"), FALSE)>>),
                Ret(<<Cond(V("s"), V("x"), Nil)>>)>>) : v \in {N(2), N(3), C(B(TRUE)), Nil}}

---------------------------------------------------------------------------
(* Classes.  The setter stores what it is given under its own name as      *)
(* well, so that what vm_setprop stores after the call is there already.   *)
ClassPrograms == {
    Do2(<<ClassS("Base", "", <<
              MethodS("Base", "__inherited", <<"name">>, <<Emits2(<<V("name"), This>>)>>),
              MethodS("Base", "__construct", <<"v">>, <<E(On("set", <<Dot(This, "v"), V("v")>>))>>),
              MethodS("Base", "__get_twice", <<>>, <<Ret(<<Plus(Dot(This, "v"), Dot(This, "v"))>>)>>),
              MethodS("Base", "__set_w", <<"w">>, <<E(Emit(V("w"))), E(On("set", <<Dot(This, "v"), V("w")>>)),
                                                     E(On("set", <<Dot(This, "w"), V("w")>>))>>),
              Member("shared", N(3))>>),
          ClassS("Derived", base, <<MethodS("Derived", "add", <<"n">>,
              <<E(OpSet("ADD", Dot(This, "v"), V("n"))), Ret(<<Dot(This, "v")>>)>>)>>),
          E(Let("o", New2("Derived", <<N(4), N(5)>>))),
          Emits2(<<Dot(V("o"), "twice"), Dot(V("o"), "shared"), Do(Dot(V("o"), "add"), <<N(2)>>), Dot(V("o"), "none")>>),
          When(Ask, E(On("set", <<Dot(V("o"), "w"), N(9)>>)), E(On("set", <<Dot(V("Base"), "shared"), N(8)>>))),
          Emits2(<<Dot(V("o"), "w"), Dot(V("o"), "v"), Dot(V("o"), "shared"), Dot(New2("Base", <<N(1)>>), "shared")>>)>>)
    : base \in {"Base", "gone", ""}}
    \cup {
    Do2(<<ClassS("P", "", <<
              MethodS("P", "__construct", <<"v">>, <<E(On("set", <<Dot(This, "v"), V("v")>>))>>),
              MethodS("P", "__add", <<"a", "b">>, <<Ret(<<New2("P", <<Plus(Dot(V("a"), "v"), Dot(V("b"), "v"))>>)>>)>>),
              MethodS("P", "__compare", <<"a", "b">>, <<Ret(<<Op2("SUB", Dot(V("a"), "v"), Dot(V("b"), "v"))>>)>>),
              MethodS("P", "__negate", <<>>, <<Ret(<<New2("P", <<Op1("NEGATE", Dot(This, "v"))>>)>>)>>),
              MethodS("P", "__call", <<"this0", "n">>, <<Emits2(<<V("this0"), V("n")>>), Ret(<<Dot(This, "v")>>)>>)>>),
          E(Let("o", New2("P", <<N(1)>>))), E(Let("q", New2("P", <<Cond(Ask, N(2), N(1))>>))),
          E(OpSet("ADD", V("q"), V("o"))),
          Emits2([i \in 1 .. Len(instrs) |-> Op2(instrs[i], V("o"), V("q"))]),
          Emits2(<<Dot(V("q"), "v"), Dot(Op1("NEGATE", V("q")), "v"), Do(V("o"), <<N(6)>>),
                   Do(On("bang", <<N(5), V("q")>>), <<>>), Op2("SEQ", V("o"), V("o"))>>),
          E(Let("made", New2("Maker", <<N(2), N(3)>>))), E(Emit(Dot(V("made"), "a"))),
          Function("Maker", <<"a">>, <<>>, <<E(On("set", <<Dot(This, "a"), V("a")>>)), Ret(<<N(7)>>)>>),
          Ret(<<New2("o", <<>>), How("new", Nil, <<>>)>>)>>)
    : instrs \in {<<"LT", "GT", "LTE", "GTE", "EQ", "NEQ", "RAWCMP">>}}

(* A setter that stores elsewhere.  This is no part of Programs, because   *)
(* SameMeaning fails: the router "routes every request to `__set_<key>`"   *)
(* (docs, mm_setindex_router), but vm_setprop stores the value as well.    *)
SetterPrograms == {
    Do2(<<ClassS("P", "", <<
              MethodS("P", "__set_w", <<"w">>, <<E(On("set", <<Dot(This, "v"), V("w")>>))>>),
              MethodS("P", "__get_w", <<>>, <<Ret(<<Plus(Dot(This, "v"), N(1))>>)>>)>>),
          E(Let("o", New2("P", <<>>))),
          When(Ask, E(On("set", <<Dot(V("o"), "w"), N(9)>>)), E(On("set", <<Dot(V("o"), "v"), N(8)>>))),
          Emits2(<<Dot(V("o"), "v"), Dot(V("o"), "w")>>)>>)}

(* A declaration tree: nodes with attributes and children.                 *)
TreePrograms == {
    Do2(<<ClassS("Node", "", methods \o <<
              MethodS("Node", "__construct", <<>>, <<E(Emit(S("made")))>>),
              MethodS("Node", "__add_child", <<"parent", "key", "v">>,
                  <<Emits2(<<V("parent"), V("key"), V("v")>>), Ret(<<V("key")>>)>>),
              MethodS("Node", "__set_attrib", <<"parent", "key", "v">>,
                  <<Emits2(<<V("parent"), V("key"), V("v")>>)>>)>>),
          [st |-> "dcltree", name |-> "Tree", base |-> "Node", kids |-> <<
              Item("attr", "top", <<Ask>>), Item("node", "one", <<N(1), N(2)>>), Item("enter", "", <<>>),
              Item("node", "two", <<>>), Item("enter", "", <<>>), Item("attr", "deep", <<V("g")>>),
              Item("exit", "", <<>>), Item("node", "three", <<>>), Item("exit", "", <<>>),
              Item("node", "four", <<N(4)>>)>>],
          E(Emit(New2("Tree", <<>>)))>>)
    : methods \in {<<>>, <<MethodS("Node", "__close_node", <<"parent", "node">>, <<Emits2(<<V("parent"), V("node")>>)>>)>>}}

---------------------------------------------------------------------------
(* Threads that end in any order while a program waits for them.           *)
A == V("a")
D == V("b")
T == V("c")
WaitPrograms ==
    {Do2(<<E(Let("a", V("t1"))), E(Let("b", V("t2"))), E(Let("c", V("t3"))),
           E(Emit(N(1))), E(wait), E(Emit(wait)), When(Ask, E(Emit(On("sync", <<A>>))), None)>>) :
        wait \in {On("sync", <<A, D>>), On("race", <<A, D>>), On("race", <<On("sync", <<A, D>>), T>>),
                  On("sync", <<On("race", <<A, D>>), T>>), On("race", <<T>>)}}
    \cup {Do2(<<Function("w", <<"a", "b">>, <<>>,
                   <<Later(E(Emit(N(2)))), When(On("race", <<A, D>>), Ret(<<On("sync", <<A, D>>)>>), None)>>),
                Each("", "t", On("array", <<V("t1"), V("t2")>>), E(Emit(Do(V("w"), <<V("t"), V("t3")>>))))>>)}

(* More constants than fit into an operand.                                *)
ManyConstants ==
    {Do2([n \in 1 .. 14 |-> E(Let("x", N(20 + n)))]
         \o <<E(Let("o", On("dict", <<>>))), E(On("set", <<Dot(V("o"), "late"), V("g")>>)),
              Emits2(<<V("x"), Dot(V("o"), "late"), N(50), Cat(<<S("end"), N(51)>>)>>),
              Function("late", <<"p">>, <<>>, <<Ret(<<V("p")>>)>>), Ret(<<Do(V("late"), <<N(52)>>)>>)>>)}

AllPrograms ==
    Assignments \cup LoopPrograms \cup NestedPrograms \cup DeferPrograms \cup ClosurePrograms
    \cup CallPrograms \cup QuietPrograms \cup ItemPrograms \cup OperatorPrograms \cup ClassPrograms
    \cup TreePrograms \cup WaitPrograms \cup ManyConstants
---------------------------------------------------------------------------
(* What is claimed of a file that a host of the other byte order loads:    *)
(* all but the integers among the constants and the size in the debug      *)
(* information, which the code does not convert.                           *)
Arriving(f) ==
    [f EXCEPT !.consts = [i \in DOMAIN @ |-> IF IsA(@[i], "int") THEN I(0) ELSE @[i]],
              !.varinfo = IF @ = <<>> THEN @ ELSE [@ EXCEPT !.size = 0]]
Arrived(fs) == [k \in DOMAIN fs |-> Arriving(fs[k])]

(* A file holds all of a function: its code and constants, lines, names    *)
(* and debug information are read as they were written.  A file that was   *)
(* cut off is refused, for its size, and if its size says so, by the part  *)
(* of the function at which it ends.                                       *)
CutOff(file) ==
    UNION {{[file EXCEPT !.size = size], [file EXCEPT !.size = size, !.fields[Len(Magic) + 2].val = size]} :
              size \in 0 .. file.size - 1}
ReadsAs(file, fs) == \A d \in {Buf2Func(file, FALSE)} : d.ok /\ d.fns = fs
ReadsElsewhere(file, fs) == \A d \in {Buf2Func(file, TRUE)} : d.ok /\ Arrived(d.fns) = Arrived(fs)
Refused(file) == \A d \in {Buf2Func(file, FALSE)} : ~d.ok

(* A text or the file of another version is not taken for a file.          *)
OfOthers(file) == {[file EXCEPT !.fields[i].val = IF i \in {4, 8, 9} THEN 4 ELSE "other"] : i \in DOMAIN Magic}

AtStart == Len(frames) = 1 /\ Top.pc = 1 /\ trace = <<>> /\ answers = <<>>
FilesHold ==
    \A fs \in {Documented(fns)} : \A file \in {Func2Buf(fs, FALSE)} :
        /\ ReadsAs(file, fs) /\ ReadsElsewhere(file, fs)
        /\ program \in TreePrograms => \A cut \in CutOff(file) : Refused(cut)
        /\ \A other \in OfOthers(file) : ValidateHeader(other) < HeaderSize

(* The code that a file of a program's functions holds does what the       *)
(* program means (compile_node, vm_exec); and files hold all of it, in the *)
(* other byte order all but integers, or are refused (sgsBC_Func2Buf,      *)
(* sgsBC_Buf2Func, sgsBC_ValidateHeader).                                  *)
SameMeaning == RunsAsMeant /\ (AtStart => FilesHold)
=============================================================================

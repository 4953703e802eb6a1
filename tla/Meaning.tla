------------------------------ MODULE Meaning ------------------------------
(***************************************************************************)
(* What a program of the language means, without registers, jumps and call *)
(* frames: the reference that Interpreter compares compiled code with.     *)
(*                                                                         *)
(* A state e has the objects, the shared cells, the globals, the threads   *)
(* and the trace; env, caps and this are the local variables, the cells of *)
(* captured ones and the object of the running function; quiet counts the  *)
(* error suppressions; val is the value of the last expression, answers    *)
(* the answers of the environment that are left, awaited the threads that  *)
(* a race tested and exit how the last statement ended.  A function is     *)
(* its node of the syntax tree.                                            *)
(***************************************************************************)
EXTENDS Values

CONSTANT Fuel       \* bound: the iterations of one loop

Done == [kind |-> "done"]
Val(e, v) == [e EXCEPT !.val = v]
Exit(e, x) == [e EXCEPT !.exit = x]
Warn(e, v) == [e EXCEPT !.val = v, !.trace = IF e.quiet = 0 THEN Append(@, Warned) ELSE @]
Made(e, obj) == [e EXCEPT !.heap = Append(@, obj), !.val = [ref |-> Len(e.heap) + 1]]
FirstOf(e) == Val(e, IF e.val = <<>> THEN Null ELSE e.val[1])

---------------------------------------------------------------------------
(* The variables of a function: those that inner functions use are shared  *)
(* cells, those it assigns are local, all others global.                   *)
RECURSIVE Within(_)
Within(x) ==
    {x} \cup IF Is(x, "func") \/ (IsStatement(x) /\ x.st = "dcltree") THEN {}
             ELSE UNION {Within(y) : y \in ToSet(x.kids)}

Statements(body, kinds) == {s \in Within(body) : IsStatement(s) /\ s.st \in kinds}
Expressions(body) == {x \in Within(body) : ~IsStatement(x)}
Names(xs) == {x.name : x \in {y \in xs : Is(y, "ident")}}

UsedInside(body) == UNION {ToSet(x.uses) : x \in {y \in Expressions(body) : y.op = "func"}}
DeclaredGlobal(body) ==
    {d.name : d \in UNION {ToSet(s.kids) : s \in Statements(body, {"globals"})}}
        \cup {s.name : s \in Statements(body, {"class", "dcltree"})}
Assigned(body) ==
    LET xs == Expressions(body)
    IN  Names({Kid(x, 1) : x \in {y \in xs : y.op # "setmany" /\ y.kids # <<>> /\ Assigns(y)}})
        \cup Names(UNION {ToSet(Front(x.kids)) : x \in {y \in xs : y.op = "setmany"}})
        \cup {d.name : d \in UNION {ToSet(s.kids) : s \in Statements(body, {"vars"})}}
        \cup {s.index : s \in Statements(body, {"fornum"})}
        \cup UNION {{s.key, s.value} \ {""} : s \in Statements(body, {"foreach"})}
FunctionNames(body) == Names({Kid(s, 1) : s \in Statements(body, {"function"})})

Variable(name, e) ==
    IF name \in DOMAIN e.caps THEN Val(e, e.cells[e.caps[name]])
    ELSE IF name \in DOMAIN e.env THEN Val(e, e.env[name])
    ELSE IF name \in DOMAIN e.globals THEN Val(e, e.globals[name])
    ELSE Warn(e, Null)
Bind(name, v, e) ==
    IF name \in DOMAIN e.caps THEN [e EXCEPT !.cells[e.caps[name]] = v]
    ELSE IF name \in DOMAIN e.env THEN [e EXCEPT !.env[name] = v]
    ELSE [e EXCEPT !.globals = (name :> v) @@ @]

---------------------------------------------------------------------------
(* Evaluation: Ev of an expression or a statement, EvAll of a list, whose  *)
(* values it gives, Apply of a function with its object and arguments.     *)
RECURSIVE Ev(_, _), EvAll(_, _, _)

Apply(f, this, args, e) == Ev([op |-> "apply", fn |-> f, this |-> this, args |-> args], e)

Values(xs, e) == EvAll(xs, <<>>, e)
EvAll(xs, vs, e) ==
    IF xs = <<>> THEN Val(e, vs)
    ELSE LET a == Ev(Head(xs), e) IN EvAll(Tail(xs), Append(vs, a.val), a)

(* A function body: fresh variables, the captured ones in cells.           *)
Scope(body, uses, params, caps, main) ==
    LET inner == (UsedInside(body) \cup ToSet(uses)) \ DOMAIN caps
        own == (ToSet(params) \cup Assigned(body) \cup IF main THEN {} ELSE FunctionNames(body))
    IN  [cells |-> inner, locals |-> own \ (DeclaredGlobal(body) \cup inner \cup DOMAIN caps)]

Returned(r, e) ==
    [r EXCEPT !.env = e.env, !.caps = e.caps, !.this = e.this, !.exit = Done, !.quiet = e.quiet,
              !.val = IF r.exit.kind = "return" THEN r.exit.values ELSE <<>>]

RECURSIVE ExBlock(_, _, _)
Run(body, s, caps, this, args, e) ==
    LET fresh == SetToSeq(s.cells)
        value(name) == IF name \in DOMAIN args THEN args[name] ELSE Null
        start == [e EXCEPT !.cells = @ \o [i \in DOMAIN fresh |-> value(fresh[i])],
                           !.caps = [name \in s.cells |-> Len(e.cells)
                                        + CHOOSE i \in DOMAIN fresh : fresh[i] = name] @@ caps,
                           !.env = [name \in s.locals |-> value(name)], !.this = this]
        named(x) == x.st = "function" /\ Kid(x, 1).op = "ident" /\ Kid(x, 2).uses = <<>>
        first == SelectSeq(body.kids, named)
        rest == SelectSeq(body.kids, LAMBDA x : ~named(x))
    IN  Returned(ExBlock(first \o rest, <<>>, start), e)

---------------------------------------------------------------------------
(* Items of objects                                                        *)
Get(v, key, e) ==
    LET found == IF IsA(v, "ref") THEN Lookup(e.heap, v.ref, key) ELSE Missing
    IN  CASE found.kind = "value" -> Val(e, found.value)
          [] found.kind = "getter" -> FirstOf(Apply(found.value, v, <<>>, e))
          [] OTHER -> Warn(e, Null)

(* A setter is called in place of storing the value.                       *)
Put(v, key, w, e) ==
    LET setter == IF IsA(v, "ref") THEN Setter(e.heap, v.ref, key) ELSE Missing
        called == Apply(setter.value, v, <<w>>, [e EXCEPT !.heap[v.ref].setting = TRUE])
    IN  IF setter # Missing
        THEN [called EXCEPT !.heap[v.ref].setting = FALSE]
        ELSE IF IsA(v, "ref") /\ Writable(e.heap[v.ref], key) THEN [e EXCEPT !.heap[v.ref] = PutItem(@, key, w)]
        ELSE Warn(e, Null)

KeyOf(x, e) == IF x.op = "key" THEN Val(e, Text(x.name)) ELSE Ev(x, e)

(* x is assigned v.                                                        *)
Assign(x, v, e) ==
    CASE x.op = "ident" -> Bind(x.name, v, e)
      [] x.op = "clspfx" -> LET c == Variable(x.class, e) IN Put(c.val, Text(x.name), v, c)
      [] x.op \in {"prop", "index"} ->
            LET o == Ev(Kid(x, 1), e)
                k == KeyOf(Kid(x, 2), o)
            IN  Put(o.val, k.val, v, k)

(* The value of x is also assigned to its first operand, or not.           *)
Stored(x, assign, r) == IF assign THEN Val(Assign(Kid(x, 1), r.val, r), r.val) ELSE r

(* Pairs of keys and values, put into the object v.                        *)
RECURSIVE PutAll(_, _, _)
PutAll(pairs, v, e) ==
    IF pairs = <<>> THEN Val(e, v)
    ELSE LET k == KeyOf(pairs[1], e)
             w == Ev(pairs[2], k)
         IN  PutAll(SubSeq(pairs, 3, Len(pairs)), v, Put(v, k.val, w.val, w))

---------------------------------------------------------------------------
(* Calls                                                                   *)
Threaded(args, e) ==
    LET called == Apply(args[1], args[2], SubSeq(args, 3, Len(args)), [e EXCEPT !.threads = Append(@, "ended")])
    IN  Val(called, <<[thread |-> Len(e.threads) + 1]>>)

Ask(e) ==
    IF e.answers = <<>> THEN Val(e, <<B(FALSE)>>)
    ELSE [e EXCEPT !.val = <<B(Head(e.answers).says)>>, !.answers = Tail(@)]

(* A declaration tree: the constructor of its base, then the nodes in      *)
(* order, with the parents of the open ones.                               *)
Silently(e) == [e EXCEPT !.quiet = @ + 1]
Loudly(e) == [e EXCEPT !.quiet = @ - 1]
ToldOf(v, method, this, args, e) ==
    LET Told(m) == IF m.val = Null THEN m ELSE FirstOf(Apply(m.val, this, args, m))
    IN  Told(Loudly(Get(v, Text(method), Silently(e))))

RECURSIVE Tree(_, _, _, _, _, _)
Tree(items, this, parents, parent, node, e) ==
    LET x == Head(items)
        m == Get(this, Text(IF x.st = "attr" THEN "__set_attrib" ELSE "__add_child"), e)
        Told(vs) == FirstOf(Apply(m.val, this, <<parent, Text(x.name)>> \o vs.val, vs))
        told == Told(Values(x.kids, m))
        Rest(ps, p, n, f) == Tree(Tail(items), this, ps, p, n, f)
    IN  IF items = <<>> THEN Val(e, <<>>)
        ELSE CASE x.st = "enter" -> Rest(Append(parents, parent), node, node, e)
               [] x.st = "exit" -> Rest(Front(parents), Last(parents), parent,
                                        ToldOf(this, "__close_node", this, <<Last(parents), parent>>, e))
               [] x.st = "attr" -> Rest(parents, parent, node, told)
               [] x.st = "node" -> Rest(parents, parent, told.val, told)

Scoped(e, this, env, caps) == [e EXCEPT !.this = this, !.env = env, !.caps = caps]

BaseConstructed(x, this, e) ==
    IF x.base = "" THEN e
    ELSE LET b == Variable(x.base, e) IN ToldOf(b.val, "__construct", this, <<>>, b)

Constructed(x, this, e) ==
    Scoped(Tree(x.kids, this, <<>>, Null, Null, BaseConstructed(x, this, Scoped(e, this, <<>>, <<>>))),
           e.this, e.env, e.caps)

Invoke(x, caps, this, args, e) ==
    IF IsStatement(x) THEN Constructed(x, this, e)
    ELSE Run(Kid(x, 1), Scope(Kid(x, 1), x.uses, x.params, caps, FALSE), caps, this,
             [name \in ToSet(x.params) |->
                LET i == CHOOSE j \in DOMAIN x.params : x.params[j] = name
                IN  IF i <= Len(args) THEN args[i] ELSE Null], e)

Applied(f, this, args, e) ==
    LET obj == e.heap[f.ref]
        call == IF IsA(f, "ref") /\ obj.mm THEN Lookup(e.heap, f.ref, Text("__call")) ELSE Missing
        body == IF IsA(f, "func") THEN [fn |-> f.func, caps |-> <<>>] ELSE obj
    IN  CASE f = Native("emit") -> [e EXCEPT !.trace = Append(@, Seen(args[1])), !.val = <<args[1]>>]
          [] f = Native("ask") -> Ask(e)
          [] f = Native("pop") -> [e EXCEPT !.val = <<Last(e.heap[this.ref].items)>>,
                                           !.heap[this.ref].items = Front(@)]
          [] f \in {Native("thread_create"), Native("subthread_create")} -> Threaded(args, e)
          [] call.kind = "value" -> Apply(call.value, f, <<this>> \o args, e)
          [] call = Missing /\ (IsA(f, "func") \/ (IsA(f, "ref") /\ obj.kind = "closure")) ->
                Invoke(body.fn, body.caps, this, args, e)
          [] OTHER -> Warn(e, <<>>)

(* The function and the object of a call.                                  *)
Callee(f, e) ==
    LET With(this, m) == Val(m, <<m.val, this>>)
        o == Ev(Kid(f, 1), e)
    IN  CASE f.op = "prop" -> LET k == KeyOf(Kid(f, 2), o) IN With(o.val, Get(o.val, k.val, k))
          [] f.op = "bang" -> With(o.val, Ev(Kid(f, 2), o))
          [] OTHER -> With(Null, Ev(f, e))

New(class, args, e) ==
    LET o == Made(e, IF IsA(class, "ref") THEN Instance(class.ref) ELSE Object("dict"))
        ctor == IF IsA(class, "func") THEN class
                ELSE LET found == Lookup(e.heap, class.ref, Text("__construct"))
                     IN  IF found.kind = "value" THEN found.value ELSE Null
    IN  IF Scalar(class) THEN Warn(e, class)
        ELSE IF ctor = Null THEN o ELSE Val(Apply(ctor, o.val, args, o), o.val)

Invokes(how, f, e) ==
    CASE how = "call" -> Apply(f[1], f[2], e.val, e)
      [] how = "new" -> LET o == New(f[1], e.val, e) IN Val(o, <<o.val>>)
      [] how \in {"thread", "subthread"} -> Threaded(f \o e.val, e)

EvCall(x, e) ==
    LET c == Callee(Kid(x, 1), e) IN Invokes(x.how, c.val, Values(Tail(x.kids), c))

---------------------------------------------------------------------------
(* sync and race: the arguments are evaluated again whenever threads have  *)
(* ended; a race that is won aborts the others.                            *)
Awaits(x, e) ==
    LET vs == Values(x.kids, e)
        ends == {i \in DOMAIN vs.val : Finished(vs.threads, vs.val[i])}
        over == IF x.op = "sync" THEN ends = DOMAIN vs.val ELSE ends # {}
        seen == vs.awaited \cup {v.thread : v \in {w \in ToSet(vs.val) : IsA(w, "thread")}}
    IN  [vs EXCEPT !.val = B(over), !.awaited = seen,
                   !.threads = IF x.op = "race" /\ over
                               THEN [t \in DOMAIN @ |-> IF t \in seen /\ @[t] = "running" THEN "aborted" ELSE @[t]]
                               ELSE @]

Ends(e) ==
    LET ended == IF e.answers = <<>> THEN DOMAIN e.threads ELSE Head(e.answers).ends
    IN  [e EXCEPT !.threads = [t \in DOMAIN @ |-> IF t \in ended /\ @[t] = "running" THEN "ended" ELSE @[t]],
                  !.answers = IF @ = <<>> THEN @ ELSE Tail(@)]

RECURSIVE Waits(_, _)
Waits(x, e) ==
    LET r == Awaits(x, [e EXCEPT !.awaited = {}, !.waits = TRUE])
        out == [r EXCEPT !.awaited = @ \cup e.awaited, !.waits = e.waits]
    IN  IF e.waits \/ r.val = B(TRUE) THEN out ELSE Waits(x, Ends(out))

---------------------------------------------------------------------------
(* A comparison is that of the answer of __compare with 0.                 *)
Answered(instr, r) ==
    IF MethodOf[instr] = "__compare" THEN Val(r, Arithmetic(instr, r.val, I(0))) ELSE r

Operator(instr, v, w, e) ==
    LET m == OperatorMethod(e.heap, instr, v, w)
    IN  IF m.fn = Null THEN Val(e, Arithmetic(instr, v, w))
        ELSE Answered(instr, FirstOf(Apply(m.fn, m.this, <<v, w>>, e)))

UnaryOperator(instr, v, e) ==
    LET m == IF instr = "NEGATE" THEN MethodFor(e.heap, v, "__negate") ELSE Null
    IN  IF m = Null THEN Val(e, Unary(instr, v)) ELSE FirstOf(Apply(m, v, <<>>, e))

(* &&, || and ??: the second operand only if the first one is true, false  *)
(* or null.                                                                *)
EvBool(x, e) ==
    LET a == Ev(Kid(x, 1), e)
        second == CASE x.op = "and" -> Truth(a.val) [] x.op = "or" -> ~Truth(a.val) [] x.op = "nn" -> a.val = Null
        r == IF second THEN Ev(Kid(x, 2), a) ELSE a
    IN  Stored(x, x.assign, r)

RECURSIVE AssignAll(_, _, _)
AssignAll(xs, vs, e) ==
    IF xs = <<>> THEN e
    ELSE LET v == IF vs = <<>> THEN Null ELSE Head(vs)
         IN  AssignAll(Tail(xs), IF vs = <<>> THEN vs ELSE Tail(vs), Assign(Head(xs), v, e))

SetMany(xs, c) == Val(AssignAll(xs, c.val, c), FirstOf(c).val)
EvSetMany(x, e) == SetMany(Front(x.kids), EvCall(Last(x.kids), e))

EvFunc(x, e) ==
    IF x.uses = <<>> THEN Val(e, [func |-> x])
    ELSE Made(e, [kind |-> "closure", items |-> <<>>, meta |-> 0, mm |-> FALSE, setting |-> FALSE,
                  fn |-> x, caps |-> [name \in ToSet(x.uses) |-> e.caps[name]]])

Expression(x, e) ==
    LET k(i) == Kid(x, i)
    IN  CASE x.op = "ident" -> Variable(x.name, e)
          [] x.op = "this" -> Val(e, e.this)
          [] x.op = "const" -> Val(e, x.value)
          [] x.op = "quiet" -> Loudly(Ev(k(1), Silently(e)))
          [] x.op \in {"and", "or", "nn"} -> EvBool(x, e)
          [] x.op = "inc" -> LET a == Ev(k(1), e)
                                 w == Step(x.instr, a.val)
                                 b == IF IsA(a.val, "int") THEN a ELSE Warn(a, Null)
                             IN  Val(Assign(k(1), w, b), IF x.postfix THEN a.val ELSE w)
          [] x.op = "set" -> Stored(x, TRUE, Ev(k(2), e))
          [] x.op = "setmany" -> EvSetMany(x, e)
          [] x.op \in {"oper", "opset"} ->
                LET Result(vs) == IF Len(x.kids) = 1 THEN UnaryOperator(x.instr, vs.val[1], vs)
                                  ELSE Operator(x.instr, vs.val[1], vs.val[2], vs)
                IN  Stored(x, x.op = "opset", Result(Values(x.kids, e)))
          [] x.op = "cat" -> LET vs == Values(x.kids, e) IN Stored(x, x.assign, Val(vs, Concat(vs.val)))
          [] x.op = "if" -> LET a == Ev(k(1), e) IN Ev(IF Truth(a.val) THEN k(2) ELSE k(3), a)
          [] x.op \in {"sync", "race"} -> Waits(x, e)
          [] x.op = "call" -> FirstOf(EvCall(x, e))
          [] x.op = "apply" -> Applied(x.fn, x.this, x.args, e)
          [] x.op \in {"prop", "index"} -> LET o == Ev(k(1), e)
                                              key == KeyOf(k(2), o)
                                          IN  Get(o.val, key.val, key)
          [] x.op = "multiset" -> LET o == Ev(k(1), e) IN PutAll(Tail(x.kids), o.val, o)
          [] x.op = "array" -> LET vs == Values(x.kids, e) IN Made(vs, [Object("array") EXCEPT !.items = vs.val])
          [] x.op \in {"dict", "map"} -> LET o == Made(e, Object(x.op)) IN PutAll(x.kids, o.val, o)
          [] x.op = "func" -> EvFunc(x, e)
          [] x.op = "list" -> LET vs == Values(x.kids, e) IN Val(vs, Last(vs.val))

---------------------------------------------------------------------------
(* A loop sees the breaks and continues of its own level; it goes on if    *)
(* its body ended or continued it.                                         *)
GoesOn(exit) == exit.kind = "done" \/ (exit.kind = "continue" /\ exit.levels = 1)
LoopExit(e) ==
    CASE e.exit.kind = "return" -> e
      [] e.exit.kind \in {"break", "continue"} /\ e.exit.levels > 1 -> [e EXCEPT !.exit.levels = @ - 1]
      [] OTHER -> Exit(e, Done)

RECURSIVE ExDefers(_, _), ExWhile(_, _, _, _, _), ExNum(_, _, _, _, _), ExEach(_, _, _, _, _)

(* A block: its deferred statements run however it ends, last first.       *)
ExDefers(ds, e) ==
    IF ds = <<>> THEN e ELSE Exit(ExDefers(Front(ds), Ev(Last(ds), Exit(e, Done))), e.exit)

ExBlock(ss, ds, e) ==
    IF ss = <<>> \/ e.exit # Done THEN ExDefers(ds, e)
    ELSE IF Head(ss).st = "defer" THEN ExBlock(Tail(ss), Append(ds, Kid(Head(ss), 1)), e)
    ELSE ExBlock(Tail(ss), ds, Ev(Head(ss), e))

(* The last of the tests decides; incr comes after the body.               *)
ExWhile(body, test, incr, fuel, e) ==
    LET t == Values(test, e)
        b == Ev(body, t)
    IN  IF fuel = 0 \/ (test # <<>> /\ ~Truth(Last(t.val))) THEN t
        ELSE IF GoesOn(b.exit) THEN ExWhile(body, test, incr, fuel - 1, Ev(incr, Exit(b, Done)))
        ELSE LoopExit(b)

ExNum(s, i, to, step, e) ==
    LET b == Ev(Last(s.kids), Bind(s.index, I(i), e))
    IN  IF (step >= 0 /\ i >= to) \/ (step < 0 /\ i <= to) THEN Bind(s.index, I(i), e)
        ELSE IF GoesOn(b.exit) THEN ExNum(s, i + step, to, step, Exit(b, Done))
        ELSE LoopExit(b)

(* The items of an array, until its size changes.                          *)
ExEach(s, i, obj, size, e) ==
    LET items == e.heap[obj].items
        k == IF s.key = "" THEN e ELSE Bind(s.key, I(i - 1), e)
        v == IF s.value = "" THEN k ELSE Bind(s.value, items[i], k)
        b == Ev(Last(s.kids), v)
    IN  IF Len(items) # size THEN Warn(e, Null)
        ELSE IF i > size THEN e
        ELSE IF GoesOn(b.exit) THEN ExEach(s, i + 1, obj, size, Exit(b, Done))
        ELSE LoopExit(b)

(* class: an object with the base as its meta-object, and its members.     *)
RECURSIVE ExMembers(_, _, _)
ExMembers(ms, class, e) ==
    IF ms = <<>> THEN e
    ELSE LET m == Head(ms)
             v == Ev(Last(m.kids), e)
         IN  ExMembers(Tail(ms), class, Put(class, Text(IF m.st = "member" THEN m.name ELSE Kid(m, 1).name), v.val, v))

ExClass(name, base, e) ==
    LET b == IF base \in DOMAIN e.globals /\ IsA(e.globals[base], "ref") THEN e.globals[base] ELSE Null
        ref == IF b = Null THEN 0 ELSE b.ref
        o == Made(e, ClassObject(Text(name), ref, IF base = "" THEN Null ELSE Text(base)))
        told == IF base = "" THEN o ELSE IF b = Null THEN Warn(o, o.val)
                ELSE LET m == Lookup(o.heap, ref, Text("__inherited"))
                     IN  IF m.kind = "value" THEN Apply(m.value, b, <<Text(name)>>, o) ELSE o
    IN  Val(Bind(name, o.val, told), o.val)

ExDecls(ds, e) ==
    FoldLeft(LAMBDA f, d : IF d.kids = <<>> THEN f ELSE LET v == Ev(Kid(d, 1), f) IN Bind(d.name, v.val, v), e, ds)

Statement(s, e) ==
    LET k(i) == Kid(s, i)
    IN  CASE s.st = "none" -> e
          [] s.st = "expr" -> Values(s.kids, e)
          [] s.st = "block" -> ExBlock(s.kids, <<>>, e)
          [] s.st = "if" -> LET t == Ev(k(1), e) IN Ev(IF Truth(t.val) THEN k(2) ELSE k(3), t)
          [] s.st = "while" -> ExWhile(k(2), <<k(1)>>, [st |-> "none"], Fuel, e)
          [] s.st = "dowhile" ->
                LET b == Ev(k(2), e)
                IN  IF GoesOn(b.exit) THEN ExWhile(k(2), <<k(1)>>, [st |-> "none"], Fuel, Exit(b, Done))
                    ELSE LoopExit(b)
          [] s.st = "for" -> ExWhile(k(4), k(2).kids, k(3), Fuel, Ev(k(1), e))
          [] s.st = "fornum" ->
                LET r == Values(Front(s.kids), e)
                    n == [i \in DOMAIN r.val |-> Num(r.val[i])]
                IN  ExNum(s, IF Len(n) = 1 THEN 0 ELSE n[1], n[IF Len(n) = 1 THEN 1 ELSE 2],
                          IF Len(n) = 3 THEN n[3] ELSE 1, r)
          [] s.st = "foreach" -> LET o == Ev(k(1), e)
                                 IN  ExEach(s, 1, o.val.ref, Len(o.heap[o.val.ref].items), o)
          [] s.st \in {"break", "continue"} -> Exit(e, [kind |-> s.st, levels |-> s.levels])
          [] s.st = "return" -> LET r == Values(s.kids, e) IN Exit(r, [kind |-> "return", values |-> r.val])
          [] s.st \in {"vars", "globals"} -> ExDecls(s.kids, e)
          [] s.st = "function" -> LET v == Ev(k(2), e) IN Assign(k(1), v.val, v)
          [] s.st = "class" -> LET o == ExClass(s.name, s.inherits, e) IN ExMembers(s.kids, o.val, o)
          [] s.st = "dcltree" -> LET o == ExClass(s.name, s.base, e)
                                 IN  Put(o.val, Text("__construct"), [func |-> s], o)

Ev(x, e) == IF IsStatement(x) THEN Statement(x, e) ELSE Expression(x, e)

---------------------------------------------------------------------------
(* The state in which a program ends, given what the environment answers.  *)
Meant(program, globals, running, answers) ==
    Run(program, Scope(program, <<>>, <<>>, <<>>, TRUE), <<>>, Null, <<>>,
        [heap |-> <<>>, cells |-> <<>>, globals |-> globals, threads |-> [t \in 1 .. running |-> "running"],
         trace |-> <<>>, env |-> <<>>, caps |-> <<>>, this |-> Null, quiet |-> 0, val |-> Null,
         answers |-> answers, awaited |-> {}, waits |-> FALSE, exit |-> Done])
=============================================================================

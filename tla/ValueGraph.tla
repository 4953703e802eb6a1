----------------------------- MODULE ValueGraph -----------------------------
(***************************************************************************)
(* The values of one engine and what a script makes of them: containers    *)
(* with meta-objects, closures that share variables, suspended threads     *)
(* with their stacks and parents.  A value is <<type>> or <<type, content>>;*)
(* <<"obj", o>>, <<"cell", c>> and <<"thread", t>> refer to the sequences  *)
(* of heap.  Object 1 is _G and thread 1 the main thread.                  *)
(***************************************************************************)
EXTENDS Integers, Sequences, FiniteSets, FiniteSetsExt, SequencesExt

CONSTANTS
    Leaves,     \* the values without identity that scripts store
    MaxObjs,    \* bound: objects
    MaxCells,   \* bound: captured variables
    MaxThreads, \* bound: threads
    MaxSize     \* bound: the items, meta-objects and values of the graph

VARIABLE heap

Null == <<"null">>
Obj(o) == <<"obj", o>>
Cell(c) == <<"cell", c>>
Thread(t) == <<"thread", t>>
Script(name) == <<"func", name>>
Num(i) == <<"int", i>>

Main == 1
Names == <<"_G", "a", "b", "c", "d", "e", "f">>

(* The script's functions, with inclsr (the variables they capture) and    *)
(* numclsr (those and their own that inner functions capture).  deny is a  *)
(* handler for __setindex that answers true: the assignment is done.       *)
Inclsr(f) == IF f = Script("inner") THEN 1 ELSE 0
Numclsr(f) == IF f \in {Script("inner"), Script("outer")} THEN 1 ELSE 0

(* An object as its constructor makes it.  Every array has the interface   *)
(* object as its meta-object, which is left out here (meta is what scripts *)
(* give it), and _G, a map in the code, is a dict.                         *)
Object(kind) ==
    [kind |-> kind, items |-> <<>>, func |-> Null, cells |-> <<>>, meta |-> 0, mm |-> FALSE]
Closure(f, cells) == [Object("closure") EXCEPT !.func = f, !.cells = cells]

(* A thread that is not running: a frame has its function's place on the   *)
(* stack and, for a closure, the closure object.                           *)
ThreadRec(g) ==
    [parent |-> 0, subs |-> <<>>, stack |-> <<>>, frames |-> <<>>, G |-> g, refs |-> 0]

---------------------------------------------------------------------------
(* Operations on a heap h                                                  *)
AddRefs(h, v, n) == IF v[1] = "thread" THEN [h EXCEPT !.thrs[v[2]].refs = @ + n] ELSE h
Acquire(h, v) == AddRefs(h, v, 1)
Release(h, v) == AddRefs(h, v, -1)

NewObj(h, o) == [h EXCEPT !.objs = Append(@, o)]
NewCell(h, v) == [Acquire(h, v) EXCEPT !.cells = Append(@, v)]
LastObj(h) == Obj(Len(h.objs))

ItemAt(o, k) == SelectInSeq(o.items, LAMBDA e : e.k = k)
Item(k, v) == [k |-> k, v |-> v]

(* The handler of an assignment to an item: __setindex in the meta-object. *)
Handler(h, o) ==
    LET m == h.objs[o].meta
    IN  IF m # 0 /\ h.objs[o].mm THEN ItemAt(h.objs[m], <<"str", "__setindex">>) # 0 ELSE FALSE

(* sgs_SetIndex: arrays have the items they were made with.                *)
SetIndex(h, o, k, v) ==
    LET at == ItemAt(h.objs[o], k)
        kind == h.objs[o].kind
    IN  IF Handler(h, o) THEN h
        ELSE IF at # 0
        THEN [Acquire(Release(h, h.objs[o].items[at].v), v) EXCEPT !.objs[o].items[at].v = v]
        ELSE IF kind = "map" \/ (kind = "dict" /\ k[1] = "str")
        THEN [Acquire(Acquire(h, k), v) EXCEPT !.objs[o].items = Append(@, Item(k, v))]
        ELSE h

(* sgsVM_PushStackFrame: the frame of a closure gives it new variables for *)
(* those that it owns.                                                     *)
PushFrame(h, t, at) ==
    LET f == h.thrs[t].stack[at]
        closure == f[1] = "obj" /\ h.objs[f[2]].kind = "closure"
        o == f[2]
        func == h.objs[o].func
        own == {i \in 1 .. Len(h.objs[o].cells) : Inclsr(func) < i /\ i <= Numclsr(func)}
        new == [i \in own |-> Len(h.cells) + Cardinality({j \in own : j <= i})]
        Frame(cl) == [func |-> at, cl |-> cl]
    IN  IF closure
        THEN [h EXCEPT !.thrs[t].stack[at] = func,
                       !.thrs[t].frames = Append(@, Frame(o)),
                       !.cells = @ \o [i \in 1 .. Cardinality(own) |-> Null],
                       !.objs[o].cells =
                            [i \in DOMAIN @ |-> IF i \in own THEN new[i] ELSE @[i]]]
        ELSE [h EXCEPT !.thrs[t].frames = Append(@, Frame(0))]

(* The thread t becomes a subthread of p.                                  *)
Link(h, t, p) ==
    [h EXCEPT !.thrs[t].parent = p, !.thrs[t].refs = @ + 1, !.thrs[p].subs = <<t>> \o @]

---------------------------------------------------------------------------
(* Graphs of values: what a value refers to, and when two are the same.    *)
HasIdentity(v) == v[1] \in {"obj", "cell", "thread"}

Kids(h, v) ==
    CASE v[1] = "cell" -> <<h.cells[v[2]]>>
      [] v[1] = "obj" ->
            LET o == h.objs[v[2]]
                n == Len(o.items)
            IN  [i \in 1 .. n |-> o.items[i].k] \o [i \in 1 .. n |-> o.items[i].v]
                \o [i \in DOMAIN o.cells |-> Cell(o.cells[i])]
                \o <<o.func, IF o.meta = 0 THEN Null ELSE Obj(o.meta)>>
      [] v[1] = "thread" ->
            LET t == h.thrs[v[2]]
            IN  t.stack \o [i \in DOMAIN t.frames |->
                                IF t.frames[i].cl = 0 THEN Null ELSE Obj(t.frames[i].cl)]
                \o <<Obj(t.G)>> \o [i \in DOMAIN t.subs |-> Thread(t.subs[i])]
      [] OTHER -> <<>>

ParentOf(h, v) ==
    IF v[1] = "thread" THEN IF h.thrs[v[2]].parent = 0 THEN Null ELSE Thread(h.thrs[v[2]].parent)
    ELSE Null

Shape(h, v) ==
    CASE v[1] = "cell" -> <<"cell">>
      [] v[1] = "obj" ->
            LET o == h.objs[v[2]] IN <<o.kind, Len(o.items), Len(o.cells), o.mm>>
      [] v[1] = "thread" ->
            LET t == h.thrs[v[2]]
            IN  <<"thread", Len(t.stack), [i \in DOMAIN t.frames |-> t.frames[i].func], Len(t.subs)>>

(* The values that v refers to, itself included, not through those that    *)
(* are fixed.                                                              *)
ReachableFrom(h, start, fixed) ==
    LET RECURSIVE Walk(_, _)
        Walk(todo, seen) ==
            IF todo = {} THEN seen
            ELSE LET next == UNION {ToSet(Kids(h, v)) : v \in {w \in todo : HasIdentity(w)} \ fixed}
                 IN  Walk(next \ seen, seen \cup next)
    IN  Walk(start, start)

(* There is one way to pair the values reached from a in h with those      *)
(* reached from b in g so that every reference is kept; the fixed ones are *)
(* paired with themselves, and turned tells that subthreads are listed the *)
(* other way round.                                                        *)
Paired(h, a, g, b, fixed, turned) ==
    LET KidsOf(w) ==
            IF w[1] = "thread" /\ turned
            THEN LET k == Kids(g, w)
                     n == Len(g.thrs[w[2]].subs)
                 IN  SubSeq(k, 1, Len(k) - n) \o Reverse(SubSeq(k, Len(k) - n + 1, Len(k)))
            ELSE Kids(g, w)
        RECURSIVE Walk(_, _)
        Walk(todo, done) ==
            todo = <<>> \/
            LET v == todo[1][1]
                w == todo[1][2]
            IN  IF ~HasIdentity(v) \/ v \in fixed THEN v = w /\ Walk(Tail(todo), done)
                ELSE IF <<v, w>> \in done THEN Walk(Tail(todo), done)
                ELSE /\ HasIdentity(w) /\ w \notin fixed
                     /\ \A p \in done : p[1] # v /\ p[2] # w
                     /\ v[1] = w[1] /\ Shape(h, v) = Shape(g, w)
                     /\ Walk(Tail(todo) \o Zip(Kids(h, v), KidsOf(w))
                               \o <<<<ParentOf(h, v), ParentOf(g, w)>>>>, done \cup {<<v, w>>})
    IN  Walk(<<<<a, b>>>>, {})

Same(h, a, g, b, fixed) == \E turned \in BOOLEAN : Paired(h, a, g, b, fixed, turned)

---------------------------------------------------------------------------
(* What a script does with its values                                      *)
Init ==
    heap = [objs |-> <<Object("dict")>>, cells |-> <<>>,
            thrs |-> <<[ThreadRec(1) EXCEPT !.refs = 1]>>]

Size ==
    MapThenSumSet(LAMBDA o : Len(heap.objs[o].items), DOMAIN heap.objs)
    + Cardinality({c \in DOMAIN heap.cells : heap.cells[c] # Null})
    + Len(heap.thrs)

Objects == 1 .. Len(heap.objs)
OfKind(kind) == {o \in Objects : heap.objs[o].kind = kind}
Values == Leaves \cup {Obj(o) : o \in Objects} \cup {Thread(t) : t \in 1 .. Len(heap.thrs)}

(* A new object or thread is assigned to a global variable.                *)
Stored(h, v) ==
    SetIndex(h, 1, <<"str", Names[Len(h.objs[1].items) + 2]>>, v)

Fits(h) == Len(h.objs) <= MaxObjs /\ Len(h.cells) <= MaxCells /\ Len(h.thrs) <= MaxThreads
Becomes(h) == Fits(h) /\ heap' = h

Make(kind) == Becomes(LET h == NewObj(heap, Object(kind)) IN Stored(h, LastObj(h)))

(* a.push(v), d.k = v, m[k] = v                                            *)
Push(a, v) ==
    LET n == Len(heap.objs[a].items)
    IN  Becomes([Acquire(heap, v) EXCEPT !.objs[a].items = Append(@, Item(Num(n), v))])

Assign(o, k, v) == ItemAt(heap.objs[o], k) = 0 /\ Becomes(SetIndex(heap, o, k, v))

(* metaobj_set(o, m) and metamethods_enable(o, true)                       *)
RECURSIVE MetaChain(_)
MetaChain(o) == IF o = 0 THEN {} ELSE {o} \cup MetaChain(heap.objs[o].meta)

SetMeta(o, m) ==
    /\ heap.objs[o].meta = 0 /\ o \notin MetaChain(m)
    /\ Becomes([heap EXCEPT !.objs[o].meta = m, !.objs[o].mm = TRUE])

(* A definition of a function that has an inner function makes a closure;  *)
(* a call of it makes n inner ones, which share its variable, set to v.    *)
Define ==
    LET h == NewObj(NewCell(heap, Null), Closure(Script("outer"), <<Len(heap.cells) + 1>>))
    IN  Becomes(Stored(h, LastObj(h)))

Call(o, n, v) ==
    LET c == Len(heap.cells) + 1
        h == [NewCell(heap, v) EXCEPT !.objs[o].cells = <<c>>]
        Inner(g) == LET k == NewObj(g, Closure(Script("inner"), <<c>>)) IN Stored(k, LastObj(k))
    IN  Becomes(IF n = 1 THEN Inner(h) ELSE Inner(Inner(h)))

(* An inner function assigns to the variable.                              *)
SetCell(c, v) ==
    /\ heap.cells[c] = Null /\ v # Null
    /\ Becomes([Acquire(heap, v) EXCEPT !.cells[c] = v])

(* co_create(f); and co_resume, or subthread_create, until f yields with v *)
(* in a local variable.                                                    *)
Create(f) ==
    LET t == Len(heap.thrs) + 1
        h == [heap EXCEPT !.thrs = Append(@, [ThreadRec(1) EXCEPT !.stack = <<f>>])]
    IN  Becomes(Stored(h, Thread(t)))

Start(p, f, v) ==
    LET t == Len(heap.thrs) + 1
        h1 == [heap EXCEPT !.thrs = Append(@, [ThreadRec(1) EXCEPT !.stack = <<f>>])]
        h2 == PushFrame(Acquire(h1, v), t, 1)
        h3 == [h2 EXCEPT !.thrs[t].stack = Append(@, v)]
    IN  Becomes(IF p = 0 THEN Stored(h3, Thread(t)) ELSE Link(h3, t, p))

Callable == {Script("gen")} \cup {Obj(o) : o \in OfKind("closure")}
Kinds == {"array", "dict", "map", "iter"}

Next ==
    /\ Size < MaxSize
    /\ \/ \E kind \in Kinds : Make(kind)
       \/ \E a \in OfKind("array"), v \in Values : Push(a, v)
       \/ \E d \in OfKind("dict") \ {1}, v \in Values : Assign(d, <<"str", "k">>, v)
       \/ \E d \in OfKind("dict") \ {1} : Assign(d, <<"str", "__setindex">>, Script("deny"))
       \/ \E m \in OfKind("map"), k \in Values : Assign(m, k, Num(1))
       \/ \E o \in Objects \ {1}, m \in OfKind("dict") \ {1} : SetMeta(o, m)
       \/ Define
       \/ \E o \in OfKind("closure"), n \in 1 .. 2, v \in Values :
             heap.objs[o].func = Script("outer") /\ Call(o, n, v)
       \/ \E c \in 1 .. Len(heap.cells), v \in Values : SetCell(c, v)
       \/ \E f \in Callable : Create(f)
       \/ \E p \in 0 .. Len(heap.thrs), f \in Callable, v \in Values : Start(p, f, v)

Spec == Init /\ [][Next]_heap
=============================================================================

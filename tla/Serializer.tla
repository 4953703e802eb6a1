----------------------------- MODULE Serializer -----------------------------
(***************************************************************************)
(* Serialization mode 2, sgs_srlz.c: the encoder with its table of values  *)
(* and its stack of argument positions, the decoder with its list of       *)
(* values, and the saving and restoring of a whole engine.                 *)
(*                                                                         *)
(* A serialized instruction is [op, args, x]: args are positions of values *)
(* in the order of their creation, from 0, and x the immediate data.       *)
(***************************************************************************)
EXTENDS ValueGraph

(* The symbol table: _G, and the C functions that were registered with a   *)
(* name.  SerializeAll disables the symbol of _G.                          *)
CFunc(name) == <<"cfunc", name>>
Registered == {CFunc("print")}
SymbolOf(v, all) == IF v \in Registered THEN v[2] ELSE IF v = Obj(1) /\ ~all THEN "_G" ELSE ""
GetSymbol(name) == IF name = "_G" THEN Obj(1) ELSE CFunc(name)

---------------------------------------------------------------------------
(* The state of the encoder: ret tells whether all went well, short that   *)
(* an argument was read which is not on the stack; cur and mo are the      *)
(* object whose serialize function runs and its meta-object's position.    *)
Encoder(h, all) ==
    [heap |-> h, all |-> all, ret |-> TRUE, short |-> FALSE, table |-> <<>>, args |-> <<>>,
     data |-> <<>>, cur |-> Null, mo |-> -1]

RECURSIVE Serialize(_, _)

Known(sd, v) == SelectInSeq(sd.table, LAMBDA e : e.key = v)
PushArg(sd, n) == [sd EXCEPT !.args = Append(@, n)]
Fail(sd) == [sd EXCEPT !.ret = FALSE]

(* srlz_mode2_addvar                                                       *)
AddVar(sd, v) ==
    LET n == Len(sd.table)
    IN  PushArg([sd EXCEPT !.table = IF Known(sd, v) = 0 THEN Append(@, [key |-> v, val |-> n])
                                     ELSE [@ EXCEPT ![Known(sd, v)].val = n]], n)

Top(sd) == IF sd.args = <<>> THEN -1 ELSE Last(sd.args)

(* W_ARGS( n ): the last n arguments are written.                          *)
Write(sd, op, n, x) ==
    LET from == Len(sd.args) - n
    IN  IF from < 0 THEN [sd EXCEPT !.short = TRUE]
        ELSE [sd EXCEPT !.data = Append(@, [op |-> op, args |-> SubSeq(sd.args, from + 1, from + n),
                                            x |-> x])]

Pop(sd, n) ==
    IF Len(sd.args) < n THEN [sd EXCEPT !.short = TRUE]
    ELSE [sd EXCEPT !.args = SubSeq(@, 1, Len(@) - n)]

WritePop(sd, op, n, m, x) == Pop(Write(sd, op, n, x), m)

(* Mutant: an object met again while its meta-object was serialized is made*)
(* twice.                                                                  *)
SerializeObjectAgain(sd, n, fn) ==
    IF n > Len(sd.args) THEN sd
    ELSE AddVar(WritePop(sd, "O", n, n, [fn |-> fn, mm |-> sd.heap.objs[sd.cur[2]].mm, mo |-> sd.mo]),
                sd.cur)

(* sgs_SerializeObject: the object may have been registered already while  *)
(* its meta-object was serialized.                                         *)
SerializeObject(sd, n, fn) ==
    LET at == Known(sd, sd.cur)
        mm == sd.heap.objs[sd.cur[2]].mm
    IN  IF n > Len(sd.args) THEN sd
        ELSE IF at # 0 THEN PushArg(Pop(sd, n), sd.table[at].val)
        ELSE AddVar(WritePop(sd, "O", n, n, [fn |-> fn, mm |-> mm, mo |-> sd.mo]), sd.cur)

(* sgs_SerializeObjIndex for the items of the object cur.                  *)
SerializeItems(sd, items) ==
    FoldLeft(LAMBDA s, e : LET t == Serialize(e.v, Serialize(e.k, s))
                           IN  IF Len(t.args) < 3 THEN t ELSE WritePop(t, "[", 3, 2, 0),
             sd, items)

(* The serialize functions of arrays, dicts and maps.                      *)
SerializeContainer(sd, o) ==
    IF o.kind = "array"
    THEN SerializeItems(SerializeObject(Serialize(Num(Len(o.items)), sd), 1, "array_sized"), o.items)
    ELSE SerializeItems(SerializeObject(sd, 0, o.kind), o.items)

(* Mutant: the result of a type without a serialize function stays good.   *)
SerializeBodyAny(v, o, mo, sd) ==
    IF o.kind = "iter" THEN PushArg(sd, 0)
    ELSE [SerializeContainer([sd EXCEPT !.cur = v, !.mo = mo], o) EXCEPT !.cur = sd.cur, !.mo = sd.mo]

(* The object itself, once its meta-object has been serialized to mo.      *)
SerializeBody(v, o, mo, sd) ==
    IF o.kind = "iter" THEN PushArg(Fail(sd), 0)
    ELSE [SerializeContainer([sd EXCEPT !.cur = v, !.mo = mo], o) EXCEPT !.cur = sd.cur, !.mo = sd.mo]

SerializeOther(v, sd) ==
    LET o == sd.heap.objs[v[2]]
        meta == Serialize(Obj(o.meta), sd)
    IN  IF o.meta = 0 THEN SerializeBody(v, o, -1, sd)
        ELSE SerializeBody(v, o, Top(meta), Pop(meta, 1))

SerializeClosure(v, sd) ==
    LET o == sd.heap.objs[v[2]]
        s1 == AddVar(Write(sd, "Q", 0, Len(o.cells)), v)
        s2 == WritePop(Serialize(o.func, s1), "f", 2, 1, 0)
        Captured(s, i) == WritePop(Serialize(Cell(o.cells[i]), s), "<", 2, 1, i)
    IN  FoldLeft(Captured, s2, [i \in DOMAIN o.cells |-> i])

(* A closure variable is registered after its value.                       *)
SerializeCell(v, sd) ==
    LET s == Serialize(sd.heap.cells[v[2]], sd)
    IN  IF s.args = <<>> THEN Fail(s) ELSE AddVar(WritePop(s, "C", 1, 1, 0), v)

(* The stack of a thread, with closures in place of their functions.       *)
StackItem(t, p) ==
    LET of == SelectSeq(t.frames, LAMBDA f : f.func = p /\ f.cl # 0)
    IN  IF of = <<>> THEN t.stack[p] ELSE Obj(of[1].cl)

(* The main thread is running C functions, unless the host saves it.       *)
Native(v, all) == v = Thread(Main) /\ ~all

Orphan(p, sd) == p \notin {0, Main} /\ ~sd.all /\ Known(sd, Thread(p)) = 0
SerializeParent(p, sd) ==
    CASE p = 0 -> sd
      [] p # 0 /\ sd.all -> WritePop(Serialize(Thread(p), sd), "p", 2, 1, -1)
      [] p = Main /\ ~sd.all -> Write(sd, "p", 1, Top(sd))
      [] p \notin {0, Main} /\ ~sd.all ->
            IF Orphan(p, sd) THEN Fail(sd) ELSE Write(sd, "p", 1, Known(sd, Thread(p)) - 1)

(* The subthreads of t follow, unless its frames or its parent failed.     *)
SerializeSubs(t, s, failed) ==
    IF failed THEN s
    ELSE [FoldLeft(LAMBDA r, u : Serialize(Thread(u), r), s, t.subs) EXCEPT !.args = s.args]

SerializeFamily(v, t, sd) ==
    IF Native(v, sd.all) THEN Fail(sd)
    ELSE SerializeSubs(t, SerializeParent(t.parent, sd), Orphan(t.parent, sd))

SerializeThread(v, sd) ==
    LET t == sd.heap.thrs[v[2]]
        n == Len(t.stack)
        begun == AddVar(Write(sd, "T", 0, v = Thread(Main)), v)
        named == WritePop(Serialize(Obj(t.G), begun), "g", 2, 1, 0)
        stacked == FoldLeft(LAMBDA s, p : Serialize(StackItem(t, p), s), named, [p \in 1 .. n |-> p])
    IN  SerializeFamily(v, t, WritePop(stacked, "s", n + 1, n, t.frames))

SerializeSymbol(v, sd) ==
    AddVar(WritePop(Serialize(<<"str", SymbolOf(v, sd.all)>>, sd), "S", 1, 1, 0), v)

(* sgs_SerializeInt_V2                                                     *)
Serialize(v, sd) ==
    IF Known(sd, v) # 0 THEN PushArg(sd, Known(sd, v) - 1)
    ELSE IF SymbolOf(v, sd.all) # "" THEN SerializeSymbol(v, sd)
    ELSE CASE v[1] = "cell" -> SerializeCell(v, sd)
           [] v[1] = "thread" -> SerializeThread(v, sd)
           [] v[1] = "obj" -> IF sd.heap.objs[v[2]].kind = "closure" THEN SerializeClosure(v, sd)
                              ELSE SerializeOther(v, sd)
           [] v[1] \in {"cfunc", "ptr"} -> Fail(sd)
           [] OTHER -> AddVar(Write(sd, "P", 0, v), v)

Encode(h, v, all) ==
    LET s == Serialize(v, Encoder(h, all))
    IN  IF s.args = <<>> THEN Fail(s) ELSE Write(s, "R", 1, 0)

---------------------------------------------------------------------------
(* The decoder: mb are the values made so far, root is the thread that is  *)
(* to replace the main thread, or 0.                                       *)
Decoder(h) == [heap |-> h, mb |-> <<>>, ret |-> -1, ok |-> TRUE, root |-> 0]

Made(d, h, v) == [d EXCEPT !.heap = Acquire(h, v), !.mb = Append(@, v)]
Changed(d, h) == [d EXCEPT !.heap = h]
Error(d) == [d EXCEPT !.ok = FALSE]

(* The thread a position stands for: not the main thread, but the one that *)
(* will replace it.                                                        *)
Real(d, v) == IF v = Thread(Main) /\ d.root # 0 THEN d.root ELSE v[2]

(* The global functions that make containers.                              *)
Construct(fn, args) ==
    IF fn = "array_sized"
    THEN [Object("array") EXCEPT !.items = [i \in 1 .. args[1][2] |-> Item(Num(i - 1), Null)]]
    ELSE Object(fn)

MakeObject(d, x, args) ==
    LET o == [Construct(x.fn, args) EXCEPT !.mm = x.mm, !.meta = IF x.mo < 0 THEN 0 ELSE d.mb[x.mo + 1][2]]
        h == NewObj(d.heap, o)
    IN  IF x.mo >= 0 /\ d.mb[x.mo + 1][1] # "obj" THEN Error(d) ELSE Made(d, h, LastObj(h))

MakeThread(d, isroot) ==
    LET h == [d.heap EXCEPT !.thrs = Append(@, ThreadRec(1))]
        t == Len(h.thrs)
    IN  IF isroot THEN Made([d EXCEPT !.root = t], h, Thread(Main)) ELSE Made(d, h, Thread(t))

(* The stack and the frames of a thread; a frame's function is pushed anew.*)
MakeStack(d, t, values, frames) ==
    LET h == FoldLeft(Acquire, [d.heap EXCEPT !.thrs[t].stack = values], values)
    IN  FoldLeft(LAMBDA g, f : PushFrame(g, t, f.func), h, frames)

Execute(d, i) ==
    LET a == [k \in DOMAIN i.args |-> d.mb[i.args[k] + 1]]
        n == Len(a)
    IN  CASE ~d.ok -> d
          [] i.op = "P" -> Made(d, d.heap, i.x)
          [] i.op = "S" -> Made(d, d.heap, GetSymbol(a[1][2]))
          [] i.op = "O" -> MakeObject(d, i.x, a)
          [] i.op = "[" -> IF a[1][1] = "obj" THEN Changed(d, SetIndex(d.heap, a[1][2], a[2], a[3])) ELSE d
          [] i.op = "C" -> LET h == NewCell(d.heap, a[1]) IN Made(d, h, Cell(Len(h.cells)))
          [] i.op = "Q" -> LET h == NewObj(d.heap, Closure(Null, [k \in 1 .. i.x |-> 0]))
                           IN  Made(d, h, LastObj(h))
          [] i.op = "f" -> Changed(d, [d.heap EXCEPT !.objs[a[1][2]].func = a[2]])
          [] i.op = "<" -> IF a[2][1] = "cell"
                           THEN Changed(d, [d.heap EXCEPT !.objs[a[1][2]].cells[i.x] = a[2][2]])
                           ELSE Error(d)
          [] i.op = "T" -> MakeThread(d, i.x)
          [] i.op = "g" -> Changed(d, [d.heap EXCEPT !.thrs[Real(d, a[1])].G = a[2][2]])
          [] i.op = "s" -> Changed(d, MakeStack(d, Real(d, a[1]), SubSeq(a, 2, n), i.x))
          [] i.op = "p" ->
                LET p == IF i.x = -1 THEN a[2] ELSE d.mb[i.x + 1]
                    parent == IF p = a[1] THEN Thread(Main) ELSE p
                IN  Changed(d, Link(d.heap, a[1][2], Real(d, parent)))
          [] i.op = "R" -> [d EXCEPT !.ret = i.args[1]]

(* sgs_UnserializeInt_V2: the value is pushed and the list released.  When *)
(* it fails the list is released and the caller has the heap it had.  The  *)
(* code leaves the threads it has linked by then under their parents;      *)
(* those of a root thread hang below the one made to replace it.           *)
Undone(h) == [ok |-> FALSE, heap |-> h, value |-> Null]
Value(d) == IF d.root # 0 THEN Thread(d.root) ELSE d.mb[d.ret + 1]
Finished(h, d) ==
    IF ~d.ok \/ d.ret < 0 THEN Undone(h)
    ELSE [ok |-> TRUE, heap |-> FoldLeft(Release, Acquire(d.heap, Value(d)), d.mb), value |-> Value(d)]
Decode(h, data) == Finished(h, FoldLeft(Execute, Decoder(h), data))

Unserialize(h, s) == IF s.ret THEN Decode(h, s.data) ELSE Undone(h)

(* Mutant: the subthreads of the new main thread keep their parent.        *)
SwappedAlone(thrs, t) ==
    [w \in DOMAIN thrs |->
        CASE w = Main -> thrs[t]
          [] w = t -> [thrs[Main] EXCEPT !.refs = @ - 1]
          [] w \notin {Main, t} -> thrs[w]]

(* sgs_UnserializeAll: the main thread and the thread t that was made to   *)
(* replace it swap contents, and the old contents are released.            *)
Swapped(thrs, t) ==
    [w \in DOMAIN thrs |->
        CASE w = Main -> thrs[t]
          [] w = t -> [thrs[Main] EXCEPT !.refs = @ - 1]
          [] w \notin {Main, t} ->
                [thrs[w] EXCEPT !.parent = IF Contains(thrs[t].subs, w) THEN Main ELSE @]]

Replaced(h, u) ==
    IF ~u.ok \/ u.value[1] # "thread" \/ u.heap.thrs[u.value[2]].parent # 0 THEN Undone(h)
    ELSE [ok |-> TRUE, heap |-> [u.heap EXCEPT !.thrs = Swapped(@, u.value[2])], value |-> u.value]
Restore(h, s) == Replaced(h, Unserialize(h, s))

---------------------------------------------------------------------------
(* Which graphs can be serialized: the main thread, C functions without a  *)
(* symbol, pointers and iterators cannot, and a subthread only after its   *)
(* parent.                                                                 *)
Fixed(all) == IF all THEN {} ELSE {Obj(1), Thread(Main)}
Reached(v, all) == ReachableFrom(heap, {v}, Fixed(all))
Iterators == {Obj(o) : o \in OfKind("iter")}
Subthreads == {Thread(t) : t \in {u \in 1 .. Len(heap.thrs) : heap.thrs[u].parent \notin {0, Main}}}
Refused(all) ==
    {<<"ptr">>, CFunc("local")} \cup Iterators \cup (IF all THEN {} ELSE {Thread(Main)})

(* Three graphs that are not recreated, although their serialization       *)
(* reports no error.  An object whose meta-object handles __setindex.      *)
Guarded == \E o \in Objects : Handler(heap, o)

(* A frame of a closure with variables of its own.                         *)
OwnsVariables ==
    \E t \in 1 .. Len(heap.thrs) : \E i \in DOMAIN heap.thrs[t].frames :
        LET cl == heap.thrs[t].frames[i].cl
        IN  IF cl = 0 THEN FALSE
            ELSE Inclsr(heap.objs[cl].func) < Numclsr(heap.objs[cl].func)

(* A captured variable that two closures share and that refers to one.     *)
Shared(c) == Cardinality({o \in Objects : c \in ToSet(heap.objs[o].cells)}) > 1
ReferToItself ==
    \E c \in 1 .. Len(heap.cells) :
        Shared(c) /\ Cell(c) \in ReachableFrom(heap, {heap.cells[c]}, {Obj(1)})

(* A closure with a meta-object.                                           *)
MetaOfClosure == \E o \in OfKind("closure") : heap.objs[o].meta # 0

Plain == ~Guarded /\ ~MetaOfClosure /\ ~OwnsVariables /\ ~ReferToItself

(* The references to thread t from the values vs: items, captured          *)
(* variables, stacks and the lists of subthreads.                          *)
Occurrences(kids, t) == Cardinality({i \in DOMAIN kids : kids[i] = Thread(t)})
References(h, vs, t) == MapThenSumSet(LAMBDA v : Occurrences(Kids(h, v), t), vs)
AllValues(h) ==
    {Obj(o) : o \in DOMAIN h.objs} \cup {Cell(c) : c \in DOMAIN h.cells}
    \cup {Thread(t) : t \in DOMAIN h.thrs}

(* Every reference to a thread is counted, on failure too.                 *)
CountedBy(u) ==
    \A t \in DOMAIN u.heap.thrs :
        u.heap.thrs[t].refs = References(u.heap, AllValues(u.heap), t)
            + (IF t = Main THEN 1 ELSE 0) + (IF u.value = Thread(t) THEN 1 ELSE 0)

(* Unserialize of what serialize made of an object is the same graph: its  *)
(* kinds, items, meta-objects and captured variables, with every sharing   *)
(* and cycle, on the globals and threads outside of it; the encoder's      *)
(* argument stack never runs short, and the result alone is left on it;    *)
(* each new reference to a thread is counted once.                         *)
Balanced(s) == ~s.short /\ Len(s.args) = 1
CopiedBy(v, s) ==
    LET u == Unserialize(heap, s)
    IN  s.ret => Balanced(s) /\ u.ok /\ Same(heap, v, u.heap, u.value, Fixed(FALSE))
RecreatesGraphs ==
    \A o \in Objects \ {1} :
       LET s == Encode(heap, Obj(o), FALSE)
       IN  CountedBy(Unserialize(heap, s)) /\ (Plain => CopiedBy(Obj(o), s))

(* Serialize succeeds exactly on the graphs without a value that cannot be *)
(* serialized, wherever in the graph and however often it is met.          *)
AcceptedIf(r, accepted) ==
    IF r \cap Refused(FALSE) # {} THEN ~accepted ELSE r \cap Subthreads = {} => accepted
Accepts ==
    Plain => \A o \in Objects \ {1} :
                AcceptedIf(Reached(Obj(o), FALSE), Encode(heap, Obj(o), FALSE).ret)

(* A whole engine is restored: main thread, globals, subthreads and their  *)
(* stacks; or nothing is changed, if a part of it cannot be serialized.    *)
RestoredAs(r) ==
    IF r.ok THEN Same(heap, Thread(Main), r.heap, Thread(Main), {})
    ELSE r.heap = heap /\ Reached(Thread(Main), TRUE) \cap Refused(TRUE) # {}
RestoresAll == Plain => RestoredAs(Restore(heap, Encode(heap, Thread(Main), TRUE)))
=============================================================================

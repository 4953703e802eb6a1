--------------------------- MODULE SerializerText ---------------------------
(***************************************************************************)
(* Serialization modes 1 and 3, sgs_srlz.c: a program for a stack machine, *)
(* and the text of SGSON with its parser.  Neither keeps the identity of   *)
(* objects: what is shared is written as often as it is met.               *)
(*                                                                         *)
(* The text is a sequence of lexemes: <<"p", c>> is a bracket, a comma or =, *)
(* <<"id", s>> a name, <<"num", i>> a number and <<"quoted", s, raw>> the  *)
(* string s between quotes, in which characters of the kinds raw were      *)
(* written as they are.                                                    *)
(***************************************************************************)
EXTENDS Serializer

Str(s) == <<"str", s>>

---------------------------------------------------------------------------
(* Mode 1: values and arguments go on a stack.  ret is that of the last    *)
(* object, a later success hides a failure.                                *)
Encoder1(h) == [heap |-> h, ret |-> TRUE, data |-> <<>>]
Write1(sd, op, n, x) == [sd EXCEPT !.data = Append(@, [op |-> op, n |-> n, x |-> x])]

RECURSIVE Serialize1(_, _)

(* What the serialize functions of containers pass on, in order.           *)
Parts(o) ==
    IF o.kind = "array" THEN [i \in DOMAIN o.items |-> o.items[i].v]
    ELSE FlattenSeq([i \in DOMAIN o.items |-> <<o.items[i].k, o.items[i].v>>])

Serializable(o) == o.kind \in {"array", "dict", "map"}

SerializeObject1(o, sd) ==
    IF ~Serializable(o) THEN Fail(sd)
    ELSE LET s == FoldLeft(LAMBDA s, v : Serialize1(v, s), sd, Parts(o))
         IN  [Write1(s, "C", Len(Parts(o)), o.kind) EXCEPT !.ret = TRUE]

(* sgs_SerializeInt_V1                                                     *)
Serialize1(v, sd) ==
    IF SymbolOf(v, FALSE) # "" THEN Write1(Write1(sd, "P", 0, Str(SymbolOf(v, FALSE))), "S", 0, 0)
    ELSE CASE v[1] = "obj" -> SerializeObject1(sd.heap.objs[v[2]], sd)
           [] v[1] \in {"cfunc", "ptr", "thread"} -> Fail(sd)
           [] OTHER -> Write1(sd, "P", 0, v)

(* The global functions array, dict and map, which the decoders call.      *)
Contents(kind, args) ==
    IF kind = "array" THEN [i \in DOMAIN args |-> Item(Num(i - 1), args[i])]
    ELSE [i \in 1 .. Len(args) \div 2 |-> Item(args[2 * i - 1], args[2 * i])]
NewContainer(h, kind, args) == NewObj(h, [Object(kind) EXCEPT !.items = Contents(kind, args)])

(* The decoder: vals is the stack of the context above its old height.     *)
Reader(h) == [heap |-> h, vals |-> <<>>, ok |-> TRUE]
TopOf(d, n) == SubSeq(d.vals, Len(d.vals) - n + 1, Len(d.vals))
Replace(d, h, n, v) == [d EXCEPT !.heap = h, !.vals = Append(SubSeq(@, 1, Len(@) - n), v)]
Refuse(d) == [d EXCEPT !.ok = FALSE]

(* sgs_UnserializeInt_V1, for one command                                  *)
Execute1(d, i) ==
    CASE ~d.ok -> d
      [] i.op = "P" -> Replace(d, d.heap, 0, i.x)
      [] i.op = "S" -> Replace(d, d.heap, 1, GetSymbol(Last(d.vals)[2]))
      [] i.op = "C" -> IF i.n > Len(d.vals) THEN Refuse(d)
                       ELSE LET h == NewContainer(d.heap, i.x, TopOf(d, i.n))
                            IN  Replace(d, h, i.n, LastObj(h))

(* sgs_UnserializeExt keeps the value on top of the stack.                 *)
Kept(h, d) ==
    IF d.ok /\ d.vals # <<>> THEN [ok |-> TRUE, heap |-> d.heap, value |-> Last(d.vals)]
    ELSE Undone(h)
Decode1(h, data) == Kept(h, FoldLeft(Execute1, Reader(h), data))

---------------------------------------------------------------------------
(* Mode 3: the serialize functions fill a table of values, in which every  *)
(* object refers to the call that makes it; then the calls are written.    *)
Encoder3(h) == [heap |-> h, table |-> <<>>, calls |-> <<>>, args |-> <<>>]

NoCall == 0
Enter(sd, v, call) == [sd EXCEPT !.table = Append(@, [key |-> v, call |-> call])]
Push3(sd, n) == [sd EXCEPT !.args = Append(@, n)]

(* An entry made by a call of fn with the last n arguments.                *)
EnterCall(sd, v, fn, n) ==
    LET from == Len(sd.args) - n
        s == [sd EXCEPT !.calls = Append(@, [fn |-> fn, args |-> SubSeq(sd.args, from + 1, from + n)]),
                        !.args = SubSeq(@, 1, from)]
    IN  Push3(Enter(s, v, Len(s.calls)), Len(s.table) + 1)

(* Mutant of SerializeObject3: the arguments stay on the stack.            *)
SerializeObject3Keeps(sd, v, fn, n) ==
    IF n > Len(sd.args) THEN Enter(sd, v, NoCall)
    ELSE LET s == EnterCall(sd, v, fn, n) IN [s EXCEPT !.args = Append(sd.args, Last(@))]

(* sgs_SerializeObject                                                     *)
SerializeObject3(sd, v, fn, n) ==
    IF n > Len(sd.args) THEN Enter(sd, v, NoCall)
    ELSE IF Known(sd, v) # 0 THEN Push3(Pop(sd, n), Known(sd, v))
    ELSE EnterCall(sd, v, fn, n)

RECURSIVE Serialize3(_, _)

(* An object without a serialize function is no argument of anything.      *)
SerializeParts3(v, o, sd) ==
    IF ~Serializable(o) THEN sd
    ELSE LET s == FoldLeft(LAMBDA s, p : Serialize3(p, s), sd, Parts(o))
         IN  SerializeObject3(s, v, o.kind, Len(Parts(o)))

SerializeSymbol3(v, sd) == EnterCall(Serialize3(Str(SymbolOf(v, FALSE)), sd), v, "sym_get", 1)

(* sgs_SerializeInt_V3: functions, pointers and threads fail the call, and *)
(* the caller does not notice.                                             *)
Unsupported == {"thread", "func", "cfunc", "ptr"}
Serialize3(v, sd) ==
    IF Known(sd, v) # 0 THEN Push3(sd, Known(sd, v))
    ELSE IF SymbolOf(v, FALSE) # "" THEN SerializeSymbol3(v, sd)
    ELSE IF v[1] \in Unsupported THEN sd
    ELSE IF v[1] = "obj" THEN SerializeParts3(v, sd.heap.objs[v[2]], sd)
    ELSE Push3(Enter(sd, v, NoCall), Len(sd.table) + 1)

(* What the strings of the instance are made of: names, digits, and        *)
(* characters that text has to escape.                                     *)
Special(s) == CASE s = "say \"x\"" -> {"quote"} [] s = "two\nlines" -> {"control"} [] OTHER -> {}
Constants == {"null", "true", "false"}
IsName(s) == Special(s) = {}

P(c) == <<"p", c>>
Quoted(s, escaped) == <<"quoted", s, Special(s) \ escaped>>

(* SGSON escapes quotes, backslashes and control characters.               *)
Escaped3 == {"quote", "control"}
WriteBasic(v) ==
    CASE v[1] = "null" -> <<"id", "null">>
      [] v[1] = "int" -> <<"num", v[2]>>
      [] v[1] = "str" -> Quoted(v[2], Escaped3)

RECURSIVE Write3(_, _)

Separated(texts) == FlattenSeq([i \in DOMAIN texts |-> IF i = 1 THEN texts[i] ELSE <<P(",")>> \o texts[i]])

(* Names are written without quotes, and keys that are no strings in [ ].  *)
WriteKey(sd, k) ==
    IF k[1] = "str" THEN <<IF IsName(k[2]) THEN <<"id", k[2]>> ELSE WriteBasic(k)>>
    ELSE <<P("[")>> \o Write3(sd, k) \o <<P("]")>>

WriteCall(sd, call) ==
    LET Arg(i) == sd.table[call.args[i]].key
        n == Len(call.args)
        values == [i \in 1 .. n |-> Write3(sd, Arg(i))]
        pairs == [i \in 1 .. n \div 2 |->
                    WriteKey(sd, Arg(2 * i - 1)) \o <<P("=")>> \o Write3(sd, Arg(2 * i))]
    IN  CASE call.fn = "array" -> <<P("[")>> \o Separated(values) \o <<P("]")>>
          [] call.fn = "dict" -> <<P("{")>> \o Separated(pairs) \o <<P("}")>>
          [] call.fn = "map" -> <<<<"id", "map">>, P("{")>> \o Separated(pairs) \o <<P("}")>>
          [] OTHER -> <<<<"id", call.fn>>, P("(")>> \o Separated(values) \o <<P(")")>>

(* sgson_encode_var: an object whose call could not be made is a null.     *)
Write3(sd, v) ==
    IF v[1] \in {"null", "int", "str"} THEN <<WriteBasic(v)>>
    ELSE LET call == sd.table[Known(sd, v)].call
         IN  IF call = NoCall THEN <<WriteBasic(Null)>> ELSE WriteCall(sd, sd.calls[call])

(* The entry of sgs_SerializeInt_V3: what it was called for decides.       *)
Encode3(h, v) ==
    LET s == Serialize3(v, Encoder3(h))
        symbol == SymbolOf(v, FALSE) # ""
        bare == IF v[1] = "obj" /\ ~symbol THEN ~Serializable(h.objs[v[2]]) ELSE FALSE
    IN  IF v[1] \in Unsupported /\ ~symbol THEN [ret |-> FALSE, text |-> <<>>]
        ELSE [ret |-> TRUE, text |-> Write3(s, IF bare THEN Null ELSE v)]

---------------------------------------------------------------------------
(* sgson_parse: marks is its stack, "" below, "=" after a key, "M" in the  *)
(* brackets around one; vals is the stack of the context.                  *)
Parser3(h) == [heap |-> h, vals |-> <<>>, ok |-> TRUE, marks |-> <<"">>]

Marked(d) == Last(d.marks)
Mark(d, m) == [d EXCEPT !.marks = Append(@, m)]
Unmark(d) == [d EXCEPT !.marks = Front(@)]
Remark(d, m) == [d EXCEPT !.marks = Append(Front(@), m)]
PushVal(d, v) == [d EXCEPT !.vals = Append(@, v)]
PushNew(d, kind) ==
    LET h == NewContainer(d.heap, kind, <<>>) IN [d EXCEPT !.heap = h, !.vals = Append(@, LastObj(h))]

(* The mark below a function's name and arguments, and the call at ).      *)
Marker == <<"marker">>
CallByName(d) ==
    LET m == SelectLastInSeq(d.vals, LAMBDA v : v = Marker)
        value == IF d.vals[m + 1] = Str("sym_get") THEN GetSymbol(d.vals[m + 2][2]) ELSE Null
    IN  Unmark(Replace(d, d.heap, Len(d.vals) - m + 1, value))

(* A value that is complete goes into its array or, with its key, into its *)
(* dict or map.                                                            *)
Store(d) ==
    LET n == Len(d.vals)
        v == Last(d.vals)
    IN  CASE Marked(d) = "[" ->
                [d EXCEPT !.vals = Front(@),
                          !.heap.objs[d.vals[n - 1][2]].items = Append(@, Item(Num(Len(@)), v))]
          [] Marked(d) = "=" ->
                Remark([d EXCEPT !.vals = SubSeq(@, 1, n - 2),
                                 !.heap = SetIndex(@, d.vals[n - 2][2], d.vals[n - 1], v)], "{")
          [] OTHER -> d

At(text, i) == IF i <= Len(text) THEN text[i] ELSE <<"end">>
Closing(d) == CASE Marked(d) = "[" -> P("]") [] Marked(d) = "(" -> P(")") [] OTHER -> P("}")

(* Where the parser goes on: at the lexeme i, or nowhere.                  *)
Goes(d, i) == [d |-> d, at |-> i]
Stops(d) == Goes(Refuse(d), 0)

(* After a value: a comma, which is skipped, or the closing bracket.       *)
Complete(d, text, i) ==
    IF Marked(d) \notin {"[", "=", "("} THEN Goes(Store(d), i)
    ELSE CASE At(text, i) = P(",") -> Goes(Store(d), i + 1)
           [] At(text, i) = Closing(d) -> Goes(Store(d), i)
           [] OTHER -> Stops(d)

(* After a key: the sign =.                                                *)
Keyed(d, text, i) == IF At(text, i) = P("=") THEN Goes(Remark(d, "="), i + 1) ELSE Stops(d)

Close(d, text, i, mark) == IF Marked(d) # mark THEN Stops(d) ELSE Complete(Unmark(d), text, i)

Bracket(d, text, i) ==
    LET c == text[i][2]
    IN  CASE c = "{" -> Goes(PushNew(Mark(d, "{"), "dict"), i + 1)
          [] c = "}" -> Close(d, text, i + 1, "{")
          [] c = "[" -> IF Marked(d) = "{" THEN Goes(Remark(d, "M"), i + 1)
                        ELSE Goes(PushNew(Mark(d, "["), "array"), i + 1)
          [] c = "]" -> IF Marked(d) = "M" THEN Keyed(d, text, i + 1) ELSE Close(d, text, i + 1, "[")
          [] c = ")" -> IF Marked(d) # "(" THEN Stops(d) ELSE Complete(CallByName(d), text, i + 1)
          [] OTHER -> Stops(d)

(* A constant, which is no key; a key; the name of a function; or map.     *)
Name(d, text, i) ==
    LET s == text[i][2]
        next == At(text, i + 1)
    IN  CASE s \in Constants -> IF Marked(d) = "{" THEN Stops(d) ELSE Complete(PushVal(d, Null), text, i + 1)
          [] s \notin Constants /\ Marked(d) = "{" -> Keyed(PushVal(d, Str(s)), text, i + 1)
          [] OTHER -> CASE next = P("(") -> Goes(PushVal(PushVal(Mark(d, "("), Marker), Str(s)), i + 2)
                        [] next = P("{") /\ s = "map" -> Goes(PushNew(Mark(d, "{"), "map"), i + 2)
                        [] OTHER -> Stops(d)

QuotedString(d, text, i) ==
    IF text[i][3] # {} THEN Stops(d)
    ELSE LET e == PushVal(d, Str(text[i][2]))
         IN  IF Marked(d) = "{" THEN Keyed(e, text, i + 1) ELSE Complete(e, text, i + 1)

KeyStart(t) == t[1] \in {"quoted", "id"} \/ t \in {P("["), P("}")}

RECURSIVE Parse3(_, _, _)
Parse3(d, text, i) ==
    IF ~d.ok \/ i > Len(text) THEN d
    ELSE LET t == text[i]
             excess == Marked(d) = "" /\ d.vals # <<>>
             next == CASE excess \/ (Marked(d) = "{" /\ ~KeyStart(t)) -> Stops(d)
                       [] ~excess /\ t[1] = "p" /\ (Marked(d) # "{" \/ KeyStart(t)) -> Bracket(d, text, i)
                       [] ~excess /\ t[1] = "quoted" -> QuotedString(d, text, i)
                       [] ~excess /\ t[1] = "num" /\ Marked(d) # "{" ->
                            Complete(PushVal(d, Num(t[2])), text, i + 1)
                       [] ~excess /\ t[1] = "id" -> Name(d, text, i)
         IN  Parse3(next.d, text, next.at)

Decode3(h, text) ==
    LET d == Parse3(Parser3(h), text, 1) IN Kept(h, IF d.marks = <<"">> THEN d ELSE Refuse(d))

---------------------------------------------------------------------------
(* Which graphs these modes can say: those without a cycle, whose parts    *)
(* are containers, values without identity and symbols.                    *)
RECURSIVE Finite(_, _)
Finite(v, path) ==
    \/ v[1] # "obj" \/ v = Obj(1)
    \/ /\ v \notin path
       /\ \A i \in DOMAIN Parts(heap.objs[v[2]]) : Finite(Parts(heap.objs[v[2]])[i], path \cup {v})

RECURSIVE PartsOf(_)
PartsOf(v) ==
    {v} \cup (IF v[1] # "obj" \/ v = Obj(1) THEN {}
              ELSE UNION {PartsOf(w) : w \in ToSet(Parts(heap.objs[v[2]]))})

Said(v, types) ==
    v \in Registered \/ v[1] \in types
    \/ (IF v[1] = "obj" THEN v = Obj(1) \/ Serializable(heap.objs[v[2]]) ELSE FALSE)
Sayable(v, types) == Finite(v, {}) /\ \A w \in PartsOf(v) : Said(w, types)

(* The same tree of containers, kinds apart from those in as.              *)
RECURSIVE Alike(_, _, _, _, _)
Alike(h, v, g, w, as) ==
    IF v[1] # "obj" \/ v = Obj(1) THEN v = w
    ELSE LET o == h.objs[v[2]]
             p == g.objs[w[2]]
         IN  /\ w[1] = "obj" /\ p.kind = as[o.kind] /\ Len(o.items) = Len(p.items)
             /\ \A i \in DOMAIN o.items : /\ Alike(h, o.items[i].k, g, p.items[i].k, as)
                                          /\ Alike(h, o.items[i].v, g, p.items[i].v, as)

AsItIs == [kind \in {"array", "dict", "map"} |-> kind]
AlikeIn(u, v) == u.ok /\ Alike(heap, v, u.heap, u.value, AsItIs)
CopiedBy1(v) ==
    Sayable(v, {"null", "int", "str", "func"}) =>
        \A s \in {Serialize1(v, Encoder1(heap))} : s.ret /\ \A u \in {Decode1(heap, s.data)} : AlikeIn(u, v)
CopiedBy3(v) ==
    Sayable(v, {"null", "int", "str"}) =>
        \A s \in {Encode3(heap, v)} : s.ret /\ \A u \in {Decode3(heap, s.text)} : AlikeIn(u, v)

(* In these modes too what is read is what was written: a tree like the    *)
(* graph, whose every value arrives in its place.                          *)
RecreatesTrees == \A o \in Objects \ {1} : CopiedBy1(Obj(o)) /\ CopiedBy3(Obj(o))
=============================================================================

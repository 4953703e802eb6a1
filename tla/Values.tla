------------------------------- MODULE Values -------------------------------
(***************************************************************************)
(* Values of the language and the operators on scalars, sgs_proc.c.        *)
(*                                                                         *)
(* A value is Null or a record with one field that names its type: bool,   *)
(* int, str, func (a function of the script, by number), native (a C       *)
(* function), thread or ref (an object, by its place in the heap).  Reals  *)
(* are left out, and with them arithmetic on strings and division.         *)
(***************************************************************************)
EXTENDS Integers, Sequences, SequencesExt, TLC

CONSTANTS
    Null,       \* the null value
    Warned      \* what the trace of a program shows of a message

I(n) == [int |-> n]
B(b) == [bool |-> b]
Text(s) == [str |-> s]

IsA(v, type) == v # Null /\ type \in DOMAIN v
TypeOf(v) == IF v = Null THEN "null" ELSE CHOOSE type \in DOMAIN v : TRUE
Scalar(v) == v = Null \/ IsA(v, "bool") \/ IsA(v, "int") \/ IsA(v, "str")

(* What a program can see of a value that is not a scalar: its type.       *)
Seen(v) == IF Scalar(v) THEN v ELSE [type |-> IF IsA(v, "func") THEN "ref" ELSE TypeOf(v)]

---------------------------------------------------------------------------
(* var_getbool, var_getint, init_var_string                                *)
Truth(v) ==
    CASE v = Null -> FALSE
      [] IsA(v, "bool") -> v.bool
      [] IsA(v, "int") -> v.int # 0
      [] IsA(v, "str") -> v.str # ""
      [] OTHER -> TRUE

Num(v) == IF IsA(v, "int") THEN v.int ELSE IF v = B(TRUE) THEN 1 ELSE 0

Str(v) ==
    CASE v = Null -> "null"
      [] IsA(v, "bool") -> IF v.bool THEN "true" ELSE "false"
      [] IsA(v, "int") -> ToString(v.int)
      [] IsA(v, "str") -> v.str

(* vm_compare: whether it answers 0, and whether it answers less.          *)
Equal(v, w) ==
    IF Scalar(v) # Scalar(w) THEN FALSE
    ELSE IF ~Scalar(v) THEN TypeOf(v) = TypeOf(w) /\ v = w
    ELSE IF IsA(v, "str") \/ IsA(w, "str") THEN v # Null /\ w # Null /\ Str(v) = Str(w)
    ELSE Num(v) = Num(w)
Less(v, w) == Num(v) < Num(w)

(* SEQ, SNEQ: only values of one type are equal.                           *)
Identical(v, w) == TypeOf(v) = TypeOf(w) /\ Equal(v, w)

(* vm_arith_op and the comparisons of vm_exec, for scalars.                *)
Arithmetic(instr, v, w) ==
    CASE instr = "ADD" -> I(Num(v) + Num(w))
      [] instr = "SUB" -> I(Num(v) - Num(w))
      [] instr = "MUL" -> I(Num(v) * Num(w))
      [] instr = "SEQ" -> B(Identical(v, w))
      [] instr = "SNEQ" -> B(~Identical(v, w))
      [] instr = "EQ" -> B(Equal(v, w))
      [] instr = "NEQ" -> B(~Equal(v, w))
      [] instr = "LT" -> B(Less(v, w))
      [] instr = "GTE" -> B(~Less(v, w))
      [] instr = "GT" -> B(Less(w, v))
      [] instr = "LTE" -> B(~Less(w, v))
      [] instr = "RAWCMP" -> I(IF Less(v, w) THEN -1 ELSE IF Less(w, v) THEN 1 ELSE 0)

(* vm_op_negate, vm_op_boolinv, vm_op_invert, and SET for the unary plus.  *)
Unary(instr, v) ==
    CASE instr = "NEGATE" -> IF v = Null THEN Null ELSE I(-Num(v))
      [] instr = "BOOL_INV" -> B(~Truth(v))
      [] instr = "INVERT" -> I(-Num(v) - 1)
      [] instr = "SET" -> v

(* vm_op_incdec: anything but a number becomes null.                       *)
Step(instr, v) ==
    IF IsA(v, "int") THEN I(v.int + IF instr = "INC" THEN 1 ELSE -1) ELSE Null

(* vm_op_concat_ex                                                         *)
Concat(vs) == Text(FoldLeft(LAMBDA s, v : s \o Str(v), "", vs))

(* The operators that call a method of an object if it has one.            *)
MethodOf ==
    [ADD |-> "__add", SUB |-> "__sub", MUL |-> "__mul", LT |-> "__compare", GT |-> "__compare",
     NEGATE |-> "__negate"]

---------------------------------------------------------------------------
(* Objects: an array has a sequence of items, a dict a function of strings *)
(* and a map one of values; a closure has cells.  meta is the meta-object, *)
(* 0 for none, mm whether its methods are called, and setting (in_setindex)*)
(* whether a setter runs.                                                  *)
Native(name) == [native |-> name]
Object(kind) ==
    [kind |-> kind, items |-> IF kind = "array" THEN <<>> ELSE [key \in {} |-> Null],
     meta |-> 0, mm |-> FALSE, setting |-> FALSE]
Instance(class) == [Object("dict") EXCEPT !.meta = class, !.mm = TRUE]

(* vm_make_class                                                           *)
ClassObject(name, base, basename) ==
    [Object("dict") EXCEPT
        !.meta = base, !.mm = base # 0,
        !.items = Text("__name") :> name @@ Text("__inherit") :> basename
               @@ Text("__getindex") :> Native("router") @@ Text("__setindex") :> Native("router")]

InRange(obj, key) == IsA(key, "int") /\ key.int \in 0 .. Len(obj.items) - 1
ItemKey(obj, key) == IF obj.kind = "dict" THEN Text(Str(key)) ELSE key
HasItem(obj, key) ==
    CASE obj.kind = "array" -> InRange(obj, key) \/ key = Text("pop")
      [] obj.kind \in {"dict", "map"} -> ItemKey(obj, key) \in DOMAIN obj.items
      [] OTHER -> FALSE
ItemOf(obj, key) ==
    IF obj.kind # "array" THEN obj.items[ItemKey(obj, key)]
    ELSE IF InRange(obj, key) THEN obj.items[key.int + 1] ELSE Native("pop")

(* What vm_getprop finds for a key: the object's own item, or what a       *)
(* getter of its meta-object returns, or the item of the meta-object       *)
(* (vm_runerr_getprop, sgsstd_mm_getindex_router).                         *)
Missing == [kind |-> "none"]
RECURSIVE Lookup(_, _, _)
Lookup(heap, n, key) ==
    LET o == heap[n]
        getter == IF o.mm /\ IsA(key, "str") THEN Lookup(heap, o.meta, Text("__get_" \o key.str))
                  ELSE Missing
    IN  IF HasItem(o, key) THEN [kind |-> "value", value |-> ItemOf(o, key)]
        ELSE IF o.meta = 0 THEN Missing
        ELSE IF getter.kind = "value" THEN [kind |-> "getter", value |-> getter.value]
        ELSE Lookup(heap, o.meta, key)

(* vm_setprop: the setter of a key, unless one runs already.               *)
Setter(heap, n, key) ==
    LET o == heap[n]
    IN  IF o.mm /\ ~o.setting /\ IsA(key, "str") THEN Lookup(heap, o.meta, Text("__set_" \o key.str))
        ELSE Missing
Writable(obj, key) == obj.kind \in {"dict", "map"} \/ (obj.kind = "array" /\ InRange(obj, key))
PutItem(obj, key, v) ==
    IF obj.kind = "array" THEN [obj EXCEPT !.items[key.int + 1] = v]
    ELSE [obj EXCEPT !.items = (ItemKey(obj, key) :> v) @@ @]

(* _push_metamethod: the method of an object for an operator, or Null.     *)
ValueOr(found, default) == IF found.kind = "value" THEN found.value ELSE default
MethodFor(heap, v, name) ==
    IF IsA(v, "ref") /\ heap[v.ref].mm THEN ValueOr(Lookup(heap, heap[v.ref].meta, Text(name)), Null) ELSE Null

(* The method of an operator, if it has one: that of the left operand, or  *)
(* else that of the right one.                                             *)
OperatorMethod(heap, instr, v, w) ==
    LET Of(x) == IF instr \in DOMAIN MethodOf THEN MethodFor(heap, x, MethodOf[instr]) ELSE Null
    IN  IF Of(v) # Null THEN [fn |-> Of(v), this |-> v] ELSE [fn |-> Of(w), this |-> w]

(* var_getfin: whether a thread has ended, or a nested sync or race has.   *)
Finished(threads, v) == v = B(TRUE) \/ (IsA(v, "thread") /\ threads[v.thread] # "running")

---------------------------------------------------------------------------
(* The syntax tree: an expression has its operator in op, a statement its  *)
(* kind in st, and kids are the child nodes.                               *)
IsStatement(x) == "st" \in DOMAIN x
Is(x, op) == ~IsStatement(x) /\ x.op = op
Kid(x, i) == x.kids[i]
Assigns(x) ==
    \/ x.op \in {"set", "opset"}
    \/ x.op \in {"and", "or", "nn", "cat"} /\ x.assign
=============================================================================

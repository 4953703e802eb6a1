------------------------------ MODULE Compiler ------------------------------
(***************************************************************************)
(* The bytecode generator, sgs_bcg.c: the storage of variables, the        *)
(* registers of expressions, jumps that are patched when their target is   *)
(* known, breaks and continues that wait for the end of their loop,        *)
(* deferred statements, compiled anew at every way out of their block, and *)
(* functions with closures, classes and declaration trees.                 *)
(*                                                                         *)
(* A node of the syntax tree is a record: an expression has its operator   *)
(* in op, a statement its kind in st, and kids are the child nodes.  An    *)
(* operand is the number of a register or, from 256 on, of a constant.     *)
(***************************************************************************)
EXTENDS Values

CONSTANT ShortConsts    \* 256: the constants that fit into an operand

---------------------------------------------------------------------------
(* SGS_RCPOS_UNSPEC, SGS_CONSTENC, SGS_CONSTVAR, and the widths of fields. *)
Unspec == 65791
ConstEnc(i) == 256 + i
IsConst(r) == (r \div 256) % 2 = 1
FieldA(r) == r % 256
FieldBC(r) == r % 512

(* The function context: cs.out is what the last read left in its out.     *)
(* vars, gvars and clsr are the local, global and captured variables,      *)
(* pending the breaks and continues, blocks and loopblocks the numbers of  *)
(* deferred statements at the start of the open blocks and loops, fns the  *)
(* functions that are finished.                                            *)
Context ==
    [code |-> <<>>, consts |-> <<>>, regs |-> 0, lastreg |-> -1, out |-> Unspec, loops |-> 0,
     pending |-> <<>>, defers |-> <<>>, blocks |-> <<>>, loopblocks |-> <<>>, sync |-> 0,
     vars |-> <<>>, gvars |-> <<>>, clsr |-> <<>>, inclsr |-> 0, infunc |-> FALSE,
     numargs |-> 0, gotthis |-> 0, fns |-> <<>>]

Size(cs) == Len(cs.code)
Out(cs, r) == [cs EXCEPT !.out = r]

(* A list of n nodes is compiled in order, until the registers run out.     *)
InTurn(Compiled(_, _), n, cs) ==
    LET RECURSIVE From(_, _)
        From(i, c) == IF i > n \/ c.regs > 256 THEN c ELSE From(i + 1, Compiled(c, i))
    IN  From(1, cs)

---------------------------------------------------------------------------
(* Variables                                                               *)
Find(vars, name) ==
    IF \E i \in DOMAIN vars : vars[i].name = name
    THEN (CHOOSE i \in DOMAIN vars : vars[i].name = name) - 1 ELSE -1
AddTo(vars, name) ==
    IF Find(vars, name) >= 0 THEN vars ELSE Append(vars, [name |-> name, numfor |-> FALSE])

AddLocal(cs, name) == [cs EXCEPT !.vars = AddTo(@, name)]
AddGlobal(cs, name) == [cs EXCEPT !.gvars = AddTo(@, name)]
Captured(cs, name) == Find(cs.clsr, name) >= 0
Stored(cs, name) == Captured(cs, name) \/ Find(cs.gvars, name) >= 0
AddUnlessStored(cs, name) == IF Stored(cs, name) THEN cs ELSE AddLocal(cs, name)
AddNumFor(cs, name) ==
    LET c == AddLocal(cs, name)
    IN  [c EXCEPT !.vars[Find(c.vars, name) + 1].numfor = TRUE]

(* preparse_varlists: which variables the body of a function has.          *)
RECURSIVE Prepare(_, _)
PrepareAll(xs, cs) == InTurn(LAMBDA c, i : Prepare(xs[i], c), Len(xs), cs)

PrepareDecls(x, cs) ==
    LET Add(c, d) ==
            IF x.st = "globals" THEN PrepareAll(d.kids, AddGlobal(c, d.name))
            ELSE IF Captured(c, d.name) THEN c ELSE PrepareAll(d.kids, AddLocal(c, d.name))
    IN  InTurn(LAMBDA c, i : Add(c, Kid(x, i)), Len(x.kids), cs)

PrepareStatement(x, cs) ==
    CASE x.st \in {"vars", "globals"} -> PrepareDecls(x, cs)
      [] x.st = "class" -> PrepareAll(x.kids, AddGlobal(cs, x.name))
      [] x.st = "dcltree" -> AddGlobal(cs, x.name)
      [] x.st = "fornum" -> PrepareAll(x.kids, AddNumFor(cs, x.index))
      [] x.st = "foreach" ->
            LET Add(c, name) == IF name = "" THEN c ELSE AddLocal(c, name)
            IN  PrepareAll(x.kids, Add(Add(cs, x.key), x.value))
      [] x.st = "function" ->
            LET name == Kid(x, 1)
            IN  IF name.op # "ident" \/ Stored(cs, name.name) THEN cs
                ELSE IF cs.infunc THEN AddLocal(cs, name.name) ELSE AddGlobal(cs, name.name)
      [] OTHER -> PrepareAll(x.kids, cs)

Prepare(x, cs) ==
    IF IsStatement(x) THEN PrepareStatement(x, cs)
    ELSE CASE x.op = "this" ->
                [cs EXCEPT !.gotthis = 1,
                           !.vars = IF Find(@, "this") >= 0 THEN @
                                    ELSE <<[name |-> "this", numfor |-> FALSE]>> \o @]
           [] x.op = "func" -> cs
           [] x.op = "setmany" ->
                PrepareAll(x.kids, FoldLeft(LAMBDA c, y : IF Is(y, "ident") THEN AddUnlessStored(c, y.name)
                                                          ELSE c, cs, Front(x.kids)))
           [] x.op # "setmany" /\ x.kids # <<>> /\ Assigns(x) /\ Is(Kid(x, 1), "ident") ->
                PrepareAll(x.kids, AddUnlessStored(cs, Kid(x, 1).name))
           [] OTHER -> PrepareAll(x.kids, cs)

(* preparse_closures and preparse_clsrlists: the variables that functions  *)
(* inside this one use.                                                    *)
Capture(uses, cs) == [cs EXCEPT !.clsr = FoldLeft(AddTo, @, uses)]

RECURSIVE CaptureIn(_, _)
CaptureIn(x, cs) ==
    IF Is(x, "func") THEN Capture(x.uses, cs)
    ELSE InTurn(LAMBDA c, i : CaptureIn(Kid(x, i), c), Len(x.kids), cs)

(* expand_varlist: three hidden registers follow the index of a numeric for *)
Expand(vars) ==
    LET hidden == [i \in 1 .. 3 |-> [name |-> "", numfor |-> FALSE]]
    IN  FlattenSeq([i \in DOMAIN vars |-> IF vars[i].numfor THEN <<vars[i]>> \o hidden ELSE <<vars[i]>>])

(* preparse_funcorder: named functions without closures come first.        *)
FunctionsFirst(body) ==
    LET first(i) == /\ i > 1 /\ IsStatement(body[i]) /\ body[i].st = "function"
                    /\ Kid(body[i], 1).op = "ident" /\ Kid(body[i], 2).uses = <<>>
        numbers == [i \in DOMAIN body |-> i]
        moved == SelectSeq(numbers, first)
        rest == SelectSeq(numbers, LAMBDA i : ~first(i))
    IN  [i \in DOMAIN body |-> IF i <= Len(moved) THEN body[moved[Len(moved) + 1 - i]]
                               ELSE body[rest[i - Len(moved)]]]

---------------------------------------------------------------------------
(* Registers, instructions and constants                                   *)
Alloc(cs, n) == [cs EXCEPT !.regs = @ + n, !.out = cs.regs]
Ensure(out, cs) == IF out = Unspec THEN Alloc(cs, 1) ELSE Out(cs, out)
(* Mutant of Unwind: the highest register is taken to be one lower.        *)
UnwindShort(cs, to) ==
    [cs EXCEPT !.regs = to, !.lastreg = IF cs.regs - 1 > @ THEN cs.regs - 1 ELSE @]

Unwind(cs, to) ==
    [cs EXCEPT !.regs = to, !.lastreg = IF cs.regs > @ THEN cs.regs ELSE @]

Instr(op, a, b, c) == [op |-> op, a |-> FieldA(a), b |-> FieldBC(b), c |-> FieldBC(c), e |-> 0]
Jump(op, off, c) == [op |-> op, a |-> 0, b |-> 0, c |-> FieldBC(c), e |-> off]
Write(cs, instr) == [cs EXCEPT !.code = Append(@, instr)]
Emits(cs, op, a, b, c) == Write(cs, Instr(op, a, b, c))
Placeholder(cs) == Emits(cs, "PCH", 0, 0, 0)
JumpBack(cs, to, op, c) == Write(cs, Jump(op, to - Size(cs) - 1, c))

(* The placeholder at at becomes a jump to the end of the code.            *)
PatchHere(cs, at, op, c) == [cs EXCEPT !.code[at] = Jump(op, Size(cs) - at, c)]

(* add_const_*: a constant is kept once.                                   *)
AddConst(cs, v) ==
    IF Contains(cs.consts, v)
    THEN Out(cs, (CHOOSE i \in DOMAIN cs.consts : cs.consts[i] = v) - 1)
    ELSE [cs EXCEPT !.out = Len(cs.consts), !.consts = Append(@, v)]

(* const_maybeload: an operand for a constant.                             *)
LoadConst(c, d) == Write(d, Jump("LOADCONST", c.out, d.out))
MaybeLoad(c) == IF c.out < ShortConsts THEN Out(c, ConstEnc(c.out)) ELSE LoadConst(c, Alloc(c, 1))
Const(cs, v) == MaybeLoad(AddConst(cs, v))
Name(cs, name) == Const(cs, Text(name))

BlockBegin(cs) == [cs EXCEPT !.blocks = Append(@, Len(cs.defers))]

(* Mutant of LoopBegin: the first deferred statement is left to the block  *)
(* around the loop.                                                        *)
LoopBeginLate(cs) == [BlockBegin(cs) EXCEPT !.loopblocks = Append(@, Len(cs.defers) + 1)]

LoopBegin(cs) == [BlockBegin(cs) EXCEPT !.loopblocks = Append(@, Len(cs.defers))]
BlockPop(cs) == [cs EXCEPT !.defers = SubSeq(@, 1, Last(cs.blocks)), !.blocks = Front(@)]
LoopPop(cs) == [BlockPop(cs) EXCEPT !.loopblocks = Front(@)]

(* compile_defers: the deferred statements after the first n, last first.  *)
RECURSIVE Defers(_, _)
BlockEnds(cs) == BlockPop(Defers(Last(cs.blocks), cs))

---------------------------------------------------------------------------
(* Reading and writing                                                     *)

(* The register of a local variable, -1 for a global one.                  *)
Local(cs, name) ==
    IF cs.infunc /\ Find(cs.gvars, name) >= 0 THEN -1 ELSE Find(cs.vars, name)

IdentR(name, out, cs) ==
    LET clsr == Find(cs.clsr, name)
        GlobalR(c, d) == Out(Emits(d, "GETVAR", c.out, d.out, 0), c.out)
        GlobalTo(c) == GlobalR(c, Name(c, name))
        CellTo(c) == Emits(c, "GETCLSR", c.out, clsr, 0)
    IN  IF clsr >= 0 THEN CellTo(Ensure(out, cs))
        ELSE IF Local(cs, name) >= 0 THEN Out(cs, Local(cs, name))
        ELSE GlobalTo(Ensure(out, cs))

IdentW(name, src, cs) ==
    LET clsr == Find(cs.clsr, name)
        c == IF cs.infunc /\ Find(cs.gvars, name) < 0 THEN AddLocal(cs, name) ELSE cs
        d == Name(cs, name)
    IN  IF clsr >= 0 THEN Emits(cs, "SETCLSR", 0, clsr, src)
        ELSE IF Local(c, name) = src THEN c
        ELSE IF Local(c, name) >= 0 THEN Emits(c, "SET", Local(c, name), src, 0)
        ELSE Emits(d, "SETVAR", 0, d.out, src)

(* Visit(x, out, expect, cs): compile_node for a statement; for an         *)
(* expression, whose value is to be in the register out if it needs one    *)
(* and expect is 1, compile_node_r.                                        *)
RECURSIVE Visit(_, _, _, _)
Gen(x, out, cs) == Visit(x, out, 1, cs)
Read(x, cs) == Gen(x, Unspec, cs)
NodeE(x, cs) == Unwind(Visit(x, Unspec, 0, cs), cs.regs)

(* compile_node_rrw: the value of x in the register dst.                   *)
NodeRRW(x, dst, cs) ==
    LET c == Gen(x, dst, cs)
    IN  Unwind(IF c.out = dst THEN c ELSE Emits(c, "SET", dst, c.out, 0), cs.regs)

(* A property or an item named in the source is a constant.                *)
Key(x, cs) == IF x.op = "key" THEN Name(cs, x.name) ELSE Read(x, cs)

(* GETPROP, GETINDEX and their counterparts, with the object and the key.   *)
PropR(x, cs) ==
    LET c0 == Alloc(cs, 1)
        c1 == Read(Kid(x, 1), c0)
        c2 == Key(Kid(x, 2), c1)
    IN  Out(Emits(c2, "GETPROP", c0.out, c1.out, c2.out), c0.out)

IndexR(x, out, cs) ==
    LET c0 == Ensure(out, cs)
        c1 == Read(Kid(x, 1), c0)
        c2 == Read(Kid(x, 2), c1)
    IN  Unwind(Out(Emits(c2, "GETINDEX", c0.out, c1.out, c2.out), c0.out), c0.regs)

MemberW(x, src, cs) ==
    LET c1 == Read(Kid(x, 1), cs)
        c2 == Key(Kid(x, 2), c1)
    IN  Emits(c2, IF x.op = "prop" THEN "SETPROP" ELSE "SETINDEX", c1.out, c2.out, src)

(* compile_clspfx_w: a method of the class x.class.                        *)
ClassW(x, src, cs) ==
    LET c1 == IdentR(x.class, Unspec, cs)
        c2 == Name(c1, x.name)
    IN  Emits(c2, "SETINDEX", c1.out, c2.out, src)

NodeW(x, src, cs) ==
    LET c == CASE x.op = "ident" -> IdentW(x.name, src, cs)
               [] x.op = "clspfx" -> ClassW(x, src, cs)
               [] x.op \in {"prop", "index"} -> MemberW(x, src, cs)
    IN  Unwind(Out(c, cs.out), cs.regs)

---------------------------------------------------------------------------
(* Operators                                                               *)

(* @x: the instructions of x between two that count up and down.           *)
OperQuiet(x, out, expect, cs) ==
    LET c1 == Emits(cs, "INT", 0, 0, 1)
        c2 == Visit(Kid(x, 1), out, expect, c1)
    IN  IF Size(c2) > Size(c1) THEN Emits(c2, "INT", 0, 0, 2) ELSE [c2 EXCEPT !.code = Front(@)]

(* The operators &&, || and ??, and their assignments: the jump at at      *)
(* leads to the second operand.                                            *)
BoolKeep(x, oreg, c) == IF x.assign THEN NodeW(Kid(x, 1), c.out, c) ELSE Emits(c, "SET", oreg, c.out, 0)
BoolSecond(x, oreg, at, src, cs) ==
    LET jin == CASE x.op = "and" -> "JMPT" [] x.op = "or" -> "JMPF" [] x.op = "nn" -> "JMPN"
    IN  PatchHere(BoolKeep(x, oreg, Read(Kid(x, 2), PatchHere(cs, at, jin, src))), Size(cs), "JUMP", 0)
BoolResult(x, oreg, out, cs) == IF x.assign THEN Gen(Kid(x, 1), out, cs) ELSE Out(cs, oreg)

OperBool(x, out, cs) ==
    LET c0 == IF x.assign THEN Out(cs, 0) ELSE Alloc(cs, 1)
        c1 == Read(Kid(x, 1), c0)
        c2 == Placeholder(BoolKeep(x, c0.out, Placeholder(c1)))
    IN  BoolResult(x, c0.out, out, BoolSecond(x, c0.out, Size(c1) + 1, c1.out, c2))

(* ++ and --, prefix and postfix; x.instr is INC or DEC.                    *)
OperInc(x, expect, cs) ==
    LET c1 == Read(Kid(x, 1), cs)
        c2 == IF expect = 1 /\ x.postfix THEN Alloc(c1, 1) ELSE c1
        c3 == IF c2.out # c1.out THEN Emits(c2, "SET", c2.out, c1.out, 0) ELSE c2
    IN  NodeW(Kid(x, 1), c1.out, Emits(c3, x.instr, c1.out, c1.out, 0))

(* compile_node_rw: the value is computed in the variable's register.      *)
OperSet(x, out, expect, cs) ==
    LET target == Kid(x, 1)
        dst == IF target.op = "ident" THEN Find(cs.vars, target.name) ELSE -1
        c1 == Gen(Kid(x, 2), IF dst < 0 THEN Unspec ELSE dst, cs)
        c2 == Unwind(NodeW(target, c1.out, c1), cs.regs)
    IN  IF expect = 1 THEN Gen(target, out, c2) ELSE c2

(* compile_mconcat, for x $ y $ ... and x $= y                             *)
OperConcat(x, cs) ==
    LET c0 == Alloc(cs, 1)
        c1 == InTurn(LAMBDA c, i : LET d == Read(Kid(x, i), c)
                                   IN  Unwind(Emits(d, "PUSH", 0, d.out, 0), c.regs),
                     Len(x.kids), c0)
        c2 == Out(Emits(c1, "MCONCAT", c0.out, Len(x.kids), 0), c0.out)
    IN  IF x.assign THEN NodeW(Kid(x, 1), c0.out, c2) ELSE c2

(* The operators that are instructions, x.instr; of two operands or one.   *)
OperPlain(x, cs) ==
    LET c0 == Alloc(cs, 1)
        c1 == Read(Kid(x, 1), c0)
        c2 == IF Len(x.kids) = 1 THEN Out(c1, 0) ELSE Read(Kid(x, 2), c1)
    IN  Out(Emits(c2, x.instr, c0.out, c1.out, c2.out), c0.out)

(* x += y and the like                                                     *)
OperAssign(x, out, cs) ==
    LET c == OperPlain(x, cs) IN Gen(Kid(x, 1), out, NodeW(Kid(x, 1), c.out, c))

(* if(a, b, c): the second branch is read with the operand that the first  *)
(* one left in srcpos.                                                     *)
InlineIf(x, expect, cs) ==
    LET c0 == IF expect = 1 THEN Alloc(cs, 1) ELSE Out(cs, Unspec)
        c1 == Read(Kid(x, 1), c0)
        c2 == Read(Kid(x, 2), Placeholder(c1))
        c3 == Placeholder(Emits(c2, "SET", c0.out, c2.out, 0))
        c4 == PatchHere(c3, Size(c1) + 1, "JMPF", c1.out)
        c5 == Gen(Kid(x, 3), c2.out, c4)
        c6 == Emits(c5, "SET", c0.out, c5.out, 0)
    IN  Out(PatchHere(c6, Size(c3), "JUMP", 0), c0.out)

(* sync(...) and race(...): the outermost one jumps back to its start      *)
(* when its threads resume.                                                *)
SyncRace(x, expect, cs) ==
    LET test == IF x.op = "race" THEN "COTRT" ELSE "COTRF"
        deep == [cs EXCEPT !.sync = @ + 1]
        c0 == IF deep.sync = 1 THEN Emits(deep, "INT", 0, 0, 3) ELSE deep
        c1 == Alloc(c0, 1)
        bool == c1.out
        c2 == Const(c1, B(x.op = "sync"))
        c3 == InTurn(LAMBDA c, i : LET d == Read(Kid(x, i), c) IN Emits(d, test, bool, d.out, 0),
                     Len(x.kids), Emits(c2, "SET", bool, c2.out, 0))
        c4 == IF x.op = "race" THEN JumpBack(c3, Size(c0), "COABORT", bool) ELSE c3
        c5 == IF c4.sync = 1 THEN JumpBack(c4, Size(c0), "YLDJMP", bool) ELSE c4
    IN  Unwind(Out([c5 EXCEPT !.sync = @ - 1], bool), bool + expect)

---------------------------------------------------------------------------
(* Calls                                                                   *)
Args(xs, at, cs) == InTurn(LAMBDA c, i : NodeRRW(xs[i], at + i - 1, c), Len(xs), cs)

(* The function f of a call goes to the register func, its object to the   *)
(* next one.                                                               *)
Callee(f, func, isthread, cs) ==
    CASE f.op = "prop" ->
            LET c == Key(Kid(f, 2), NodeRRW(Kid(f, 1), func + 1, cs))
            IN  Emits(c, "GETPROP", func, func + 1, c.out)
      [] f.op = "bang" -> NodeRRW(Kid(f, 2), func, NodeRRW(Kid(f, 1), func + 1, cs))
      [] OTHER ->
            LET c == AddConst(cs, Null)
            IN  NodeRRW(f, func, IF isthread THEN Write(c, Jump("LOADCONST", c.out, func + 1)) ELSE cs)

Call(x, expect, cs) ==
    LET f == Kid(x, 1)
        args == Tail(x.kids)
        isthread == x.how \in {"thread", "subthread"}
        bound == f.op \in {"prop", "bang"}
        regc == 1 + Len(args) + (IF isthread THEN 2 ELSE IF bound THEN 1 ELSE 0)
        c0 == Alloc(cs, IF regc > expect THEN regc ELSE expect)
        arg == c0.out
        func == IF isthread THEN arg + 1 ELSE arg
        maker == Name(c0, x.how \o "_create")
        c1 == IF isthread THEN Emits(maker, "GETVAR", arg, maker.out, 0) ELSE c0
        c2 == Callee(f, func, isthread, c1)
        c3 == Args(args, func + (IF isthread \/ bound THEN 2 ELSE 1), c2)
        this == IF bound /\ ~isthread THEN 256 ELSE 0
        c4 == IF x.how = "new" THEN Emits(c3, "NEW", 0, arg, arg + regc - 1)
              ELSE Emits(c3, "CALL", expect, arg + this, arg + regc - 1)
    IN  Unwind(Out(c4, arg), arg + expect)

(* (a, b, ...) = f(...)                                                    *)
FirstResult(at, out, cs) ==
    LET d == Ensure(out, cs) IN Emits(d, "SET", d.out, at, 0)
Stores(x, at, i, cs) == Unwind(NodeW(Kid(x, i), at + i - 1, cs), cs.regs)

StoreResults(x, out, expect, called) ==
    InTurn(LAMBDA c, i : IF i = 1 /\ expect = 1 THEN FirstResult(called.out, out, Stores(x, called.out, i, c))
                         ELSE Stores(x, called.out, i, c), Len(x.kids) - 1, called)

OperSetMany(x, out, expect, cs) ==
    StoreResults(x, out, expect, Call(Last(x.kids), Len(x.kids) - 1, cs))

---------------------------------------------------------------------------
(* Objects and functions                                                   *)
Items(x, cs) ==
    InTurn(LAMBDA c, i : LET d == Read(Kid(x, i), c)
                         IN  Unwind(Out(Emits(d, "ARRPUSH", cs.out, 0, d.out), cs.out), c.regs),
           Len(x.kids), cs)

(* Pairs of a key and a value, from the from-th node on, set on cs.out.    *)
Pairs(x, from, instr, cs) ==
    InTurn(LAMBDA c, i : LET k == Key(Kid(x, from + 2 * i - 2), c)
                             v == Read(Kid(x, from + 2 * i - 1), k)
                         IN  Unwind(Out(Emits(v, instr, cs.out, k.out, v.out), cs.out), cs.regs),
           (Len(x.kids) - from + 1) \div 2, cs)

Literal(x, out, cs) ==
    LET c == Ensure(out, cs)
    IN  CASE x.op = "array" -> Items(x, Write(c, Jump("ARRAY", Len(x.kids), c.out)))
          [] x.op = "dict" -> Pairs(x, 1, "SETINDEX", Write(c, Jump("DICT", 0, c.out)))
          [] x.op = "map" -> Pairs(x, 1, "SETINDEX", Write(c, Jump("MAP", 0, c.out)))

MultiSet(x, out, cs) ==
    Pairs(x, 2, IF x.isprop THEN "SETPROP" ELSE "SETINDEX", Gen(Kid(x, 1), out, cs))

(* prefix_bytecode: captured parameters go to their cells first; the       *)
(* finished function is the last of fns.                                   *)
Finish(cs) ==
    LET args == cs.numargs + cs.gotthis
        captured == SelectSeq([i \in 1 .. args |-> i], LAMBDA i : Captured(cs, cs.vars[i].name))
        SetCell(i) == Instr("SETCLSR", 0, Find(cs.clsr, cs.vars[i].name), i - 1)
        prefix == [i \in DOMAIN captured |-> SetCell(captured[i])]
    IN  [code |-> (IF Len(cs.clsr) > cs.inclsr THEN prefix ELSE <<>>) \o cs.code \o <<Instr("RETN", 0, 0, 0)>>,
         consts |-> cs.consts, numargs |-> cs.numargs, gotthis |-> cs.gotthis,
         numtmp |-> cs.lastreg - args, numclsr |-> Len(cs.clsr), inclsr |-> cs.inclsr]

(* compile_fn_base                                                         *)
Prepared(body, cs) ==
    [Prepare(body, CaptureIn(body, BlockBegin(cs))) EXCEPT !.vars = Expand(@)]
FnBody(body, cs) == Read([body EXCEPT !.kids = FunctionsFirst(@)], Alloc(cs, Len(cs.vars)))
WithFunction(cs) == [cs EXCEPT !.fns = Append(@, Finish(cs))]
FnBase(body, cs) == WithFunction(BlockEnds(Unwind(FnBody(body, Prepared(body, cs)), 0)))

(* compile_func: the function is a constant of the one around it.          *)
Func(x, cs) ==
    LET c0 == Capture(x.uses, cs)
        inner == [Context EXCEPT !.infunc = TRUE, !.fns = c0.fns, !.numargs = Len(x.params),
                                 !.clsr = FoldLeft(AddTo, <<>>, x.uses), !.inclsr = Len(x.uses),
                                 !.vars = FoldLeft(AddTo, <<>>, x.params)]
        fns == FnBase(Kid(x, 1), inner).fns
        c1 == Const([c0 EXCEPT !.fns = fns], [func |-> Len(fns)])
        c2 == Alloc(c1, 1)
        n == Len(x.uses)
        id(i) == IF i > n THEN 0 ELSE Find(c0.clsr, x.uses[i])
        c3 == Emits(c2, "MAKECLSR", c2.out, c1.out, n)
        c4 == InTurn(LAMBDA c, i : Emits(c, "CLSRINFO", id(3 * i - 2), id(3 * i - 1), id(3 * i)),
                     (n + 2) \div 3, c3)
    IN  IF n = 0 THEN c1 ELSE c4

(* A value that is not expected of a variable or a literal is no code.     *)
NodeR(x, out, expect, cs) ==
    CASE expect = 0 /\ x.op \in {"ident", "this", "const", "array", "dict", "map"} -> cs
      [] expect = 1 /\ x.op = "ident" -> IdentR(x.name, out, cs)
      [] expect = 1 /\ x.op = "this" -> Out(cs, 0)
      [] expect = 1 /\ x.op = "const" -> Const(cs, x.value)
      [] expect = 1 /\ x.op \in {"array", "dict", "map"} -> Literal(x, out, cs)
      [] x.op = "quiet" -> OperQuiet(x, out, expect, cs)
      [] x.op \in {"and", "or", "nn"} -> OperBool(x, out, cs)
      [] x.op = "inc" -> OperInc(x, expect, cs)
      [] x.op = "set" -> OperSet(x, out, expect, cs)
      [] x.op = "setmany" -> OperSetMany(x, out, expect, cs)
      [] x.op = "opset" -> OperAssign(x, out, cs)
      [] x.op = "oper" -> OperPlain(x, cs)
      [] x.op = "cat" -> OperConcat(x, cs)
      [] x.op = "if" -> InlineIf(x, expect, cs)
      [] x.op \in {"sync", "race"} -> SyncRace(x, expect, cs)
      [] x.op = "call" -> Call(x, expect, cs)
      [] x.op = "prop" -> PropR(x, cs)
      [] x.op = "index" -> IndexR(x, out, cs)
      [] x.op = "multiset" -> MultiSet(x, out, cs)
      [] x.op = "func" -> Func(x, cs)
      [] x.op = "list" -> InTurn(LAMBDA c, i : Gen(Kid(x, i), c.out, c), Len(x.kids), Out(cs, out))

---------------------------------------------------------------------------
(* Statements                                                              *)

(* compile_breaks: the loop's breaks or continues jump to here.            *)
Breaks(cs, iscont) ==
    LET Mine(p) == p.loop = cs.loops /\ p.iscont = iscont
        jump(at) == Jump("JUMP", Size(cs) - at, 0)
    IN  [cs EXCEPT
           !.code = [at \in DOMAIN @ |->
                IF \E p \in ToSet(cs.pending) : Mine(p) /\ p.at = at THEN jump(at) ELSE @[at]],
           !.pending = SelectSeq(@, LAMBDA p : ~Mine(p))]

Deeper(cs) == [cs EXCEPT !.loops = @ + 1]
LoopEnds(cs) == [Breaks(cs, FALSE) EXCEPT !.loops = @ - 1]

Nodes(xs, cs) == InTurn(LAMBDA c, i : Unwind(Read(xs[i], c), c.regs), Len(xs), cs)
Expressions(xs, cs) == InTurn(LAMBDA c, i : NodeE(xs[i], c), Len(xs), cs)

Defers(n, cs) ==
    LET top == Len(cs.defers)
    IN  InTurn(LAMBDA c, i : Read(cs.defers[top + 1 - i], c), top - n, cs)

Block(s, cs) == BlockEnds(Nodes(s.kids, BlockBegin(cs)))

IfElse(s, cs) ==
    LET c1 == Read(Kid(s, 1), cs)
        c2 == Placeholder(Unwind(c1, cs.regs))
        c3 == Unwind(Read(Kid(s, 2), c2), cs.regs)
        c4 == Placeholder(c3)
        c5 == Read(Kid(s, 3), PatchHere(c4, Size(c2), "JMPF", c1.out))
    IN  IF Kid(s, 3).st = "none" THEN PatchHere(c3, Size(c2), "JMPF", c1.out)
        ELSE Unwind(PatchHere(c5, Size(c4), "JUMP", 0), cs.regs)

(* The body of a loop as a block, and the target of its continues.         *)
LoopBody(s, cs) ==
    LET c == Unwind(Read(Last(s.kids), LoopBegin(cs)), cs.regs)
    IN  Breaks(LoopPop(Defers(Last(c.blocks), c)), TRUE)

While(s, cs) ==
    LET c1 == Read(Kid(s, 1), Deeper(cs))
        c2 == Placeholder(Unwind(c1, cs.regs))
        c3 == JumpBack(LoopBody(s, c2), Size(cs), "JUMP", 0)
    IN  LoopEnds(PatchHere(c3, Size(c2), "JMPF", c1.out))

DoWhile(s, cs) ==
    LET c1 == LoopBody(s, Deeper(cs))
        c2 == Read(Kid(s, 1), c1)
    IN  LoopEnds(JumpBack(Unwind(c2, cs.regs), Size(cs), "JMPT", c2.out))

(* compile_for_explist: the last of the tests decides.                     *)
For(s, cs) ==
    LET tests == Kid(s, 2).kids
        c1 == Read(Kid(s, 1), Deeper(cs))
        c2 == InTurn(LAMBDA c, i : Gen(tests[i], c.out, c), Len(tests), Out(c1, Unspec))
        tested == c2.out # Unspec
        c3 == Unwind(c2, cs.regs)
        c4 == LoopBody(s, IF tested THEN Placeholder(c3) ELSE c3)
        c5 == Read(Kid(s, 3), c4)
        c6 == JumpBack(c5, Size(c1), "JUMP", 0)
    IN  LoopEnds(IF tested THEN PatchHere(c6, Size(c2) + 1, "JMPF", c2.out) ELSE c6)

(* The range [from,] to [, step] of a numeric for goes to the registers    *)
(* after its index.                                                        *)
ForNum(s, cs) ==
    LET arg == Find(cs.vars, s.index)
        range == Front(s.kids)
        k == Len(range)
        Load(c, n, dst) == LET d == Const(c, I(n)) IN Emits(d, "SET", dst, d.out, 0)
        c1 == IF k = 1 THEN Load(Deeper(cs), 0, arg + 1)
              ELSE NodeRRW(range[1], arg + 1, Deeper(cs))
        c2 == NodeRRW(range[IF k = 1 THEN 1 ELSE 2], arg + 2, c1)
        c3 == IF k = 3 THEN NodeRRW(range[3], arg + 3, c2) ELSE Load(c2, 1, arg + 3)
        c4 == Placeholder(c3)
        c5 == LoopBody(s, c4)
        c6 == Write(c5, Jump("NFORJUMP", Size(c4) - Size(c5) - 1, arg))
    IN  LoopEnds(PatchHere(c6, Size(c4), "NFORPREP", arg))

(* key or value is "" where the statement has none.                        *)
ForEach(s, cs) ==
    LET c1 == Read(Kid(s, 1), cs)
        c2 == Alloc(c1, 1)
        iter == c2.out
        c3 == IF s.key = "" THEN Out(c2, 511) ELSE Alloc(c2, 1)
        c4 == IF s.value = "" THEN Out(c3, 511) ELSE Alloc(c3, 1)
        c5 == Emits(Deeper(c4), "FORPREP", iter, c1.out, 0)
        c6 == Emits(Placeholder(c5), "FORLOAD", iter, c3.out, c4.out)
        c7 == IF s.key = "" THEN c6 ELSE IdentW(s.key, c3.out, c6)
        c8 == IF s.value = "" THEN c7 ELSE IdentW(s.value, c4.out, c7)
        c9 == JumpBack(LoopBody(s, c8), Size(c5), "JUMP", 0)
    IN  Unwind(LoopEnds(PatchHere(c9, Size(c5) + 1, "FORJUMP", iter)), cs.regs)

(* break and continue over s.levels loops.                                 *)
Leave(s, iscont, cs) ==
    LET until == cs.loopblocks[Len(cs.loopblocks) + 1 - s.levels]
        c == Defers(until, cs)
    IN  Placeholder([c EXCEPT !.pending =
            Append(@, [at |-> Size(c) + 1, loop |-> cs.loops + 1 - s.levels, iscont |-> iscont])])

Pushes(xs, cs) ==
    InTurn(LAMBDA c, i : LET d == Read(xs[i], c)
                         IN  Unwind(Emits(d, "PUSH", 0, d.out, 0), c.regs), Len(xs), cs)

Return(s, cs) ==
    LET n == Len(s.kids)
        c == IF n = 1 THEN Read(Kid(s, 1), cs) ELSE Pushes(s.kids, cs)
        d == Defers(0, c)
    IN  Unwind(IF n = 1 THEN Emits(d, "RET1", 0, 0, c.out) ELSE Emits(d, "RETN", n, 0, 0), cs.regs)

(* var and global: the variables that have a value.                        *)
VarList(s, cs) ==
    LET Declare(c, decl) ==
            LET d == Read(Kid(decl, 1), c) IN Unwind(IdentW(decl.name, d.out, d), cs.regs)
    IN  InTurn(LAMBDA c, i : IF Kid(s, i).kids = <<>> THEN c ELSE Declare(c, Kid(s, i)), Len(s.kids), cs)

(* A function with a name, and its symbol if it is a global one.           *)
FuncSymbol(f, src, cs) ==
    LET c == Name(cs, (IF f.op = "clspfx" THEN f.class \o "." ELSE "") \o f.name)
    IN  IF cs.infunc /\ f.op # "clspfx" THEN cs ELSE Emits(c, "RSYM", 0, c.out, src)

FuncStatement(s, cs) ==
    LET c == Read(Kid(s, 2), cs)
    IN  FuncSymbol(Kid(s, 1), c.out, NodeW(Kid(s, 1), c.out, c))

(* The class in a register of its own: the operand for its base is that    *)
(* register if it has none.                                                *)
MakeClass(s, base, cs) ==
    LET c1 == Alloc(cs, 1)
        class == c1.out
        c2 == Name(c1, s.name)
        c3 == IF base = "" THEN Out(c2, class) ELSE Name(c2, base)
    IN  Out(IdentW(s.name, class, Emits(c3, "CLASS", class, c2.out, c3.out)), class)

Class(s, cs) ==
    LET c0 == MakeClass(s, s.inherits, cs)
        Global(c, x) ==
            LET key == Name(c, x.name)
                v == Read(Kid(x, 1), key)
            IN  Emits(v, "SETINDEX", c0.out, key.out, v.out)
    IN  Unwind(InTurn(LAMBDA c, i : IF Kid(s, i).st = "member" THEN Global(c, Kid(s, i))
                                    ELSE Read(Kid(s, i), c), Len(s.kids), c0), cs.regs)

---------------------------------------------------------------------------
(* Declaration trees                                                       *)
Code(cs, instrs) == [cs EXCEPT !.code = @ \o instrs]

(* The constructor's registers: this, the stack of parents, the parent and *)
(* the node, then those of a call: function, this, arguments.              *)
rStack == 1
rParent == 2
rNode == 3
rCall == 4
rThis == 5
rArg == 6

(* The constructor of the base class, if it has one, is called first.      *)
TreeBase(base, cs) ==
    LET c1 == Name(Alloc(cs, 2), base)
        c2 == Name(c1, "__construct")
    IN  Unwind(Code(c2, <<Instr("GETVAR", 2, c1.out, 0), Instr("INT", 0, 0, 1),
                          Instr("GETPROP", 1, 2, c2.out), Instr("INT", 0, 0, 2), Jump("JMPN", 2, 1),
                          Instr("SET", 2, 0, 0), Instr("CALL", 0, 257, 2)>>), 0)

(* node = parent; parent = stack.pop(); this.__close_node(parent, node) if *)
(* there is such a method.                                                 *)
TreeExit(cs) ==
    LET c1 == Name(Alloc(cs, 4), "pop")
        c2 == Name(c1, "__close_node")
    IN  Unwind(Code(c2, <<Instr("SET", rNode, rParent, 0), Instr("GETPROP", rCall, rStack, c1.out),
                          Instr("SET", rThis, rStack, 0), Instr("CALL", 1, 256 + rCall, rThis),
                          Instr("SET", rParent, rCall, 0), Jump("INT", 0, 1),
                          Instr("GETPROP", rCall, 0, c2.out), Jump("INT", 0, 2), Jump("JMPN", 4, rCall),
                          Instr("SET", rThis, 0, 0), Instr("SET", rArg, rParent, 0),
                          Instr("SET", rArg + 1, rNode, 0), Instr("CALL", 1, 256 + rCall, rArg + 1)>>), rCall)

(* this.method(parent, key, values...), its result in rCall if expected.   *)
TreeCall(x, method, expect, cs) ==
    LET c1 == Name(Alloc(cs, 4 + Len(x.kids)), method)
        c2 == Name(c1, x.name)
        c3 == Code(c2, <<Instr("GETPROP", rCall, 0, c1.out), Instr("SET", rThis, 0, 0),
                         Instr("SET", rArg, rParent, 0), Instr("SET", rArg + 1, c2.out, 0)>>)
        c4 == Args(x.kids, rArg + 2, c3)
    IN  Unwind(Emits(c4, "CALL", expect, 256 + rCall, rArg + 1 + Len(x.kids)), rCall)

TreeItem(x, cs) ==
    CASE x.st = "enter" -> Code(cs, <<Instr("ARRPUSH", rStack, 0, rParent), Instr("SET", rParent, rNode, 0)>>)
      [] x.st = "exit" -> TreeExit(cs)
      [] x.st = "attr" -> TreeCall(x, "__set_attrib", 0, cs)
      [] x.st = "node" -> Emits(TreeCall(x, "__add_child", 1, cs), "SET", rNode, rCall, 0)

TreeFinish(cs) == [cs EXCEPT !.fns = Append(@, [Finish(cs) EXCEPT !.numtmp = @ + 1])]

TreeConstructor(s, cs) ==
    LET names == <<Text("pop"), Text("__set_attrib"), Text("__add_child"), Text("__close_node")>>
        c0 == AddConst(Alloc(TreeBase(s.base, cs), 4), Null)
        c1 == Out(FoldLeft(AddConst, c0, names), ConstEnc(c0.out))
        c2 == Code(c1, <<Jump("ARRAY", 0, rStack), Instr("SET", rParent, c1.out, 0)>>)
    IN  TreeFinish(Unwind(InTurn(LAMBDA c, i : TreeItem(Kid(s, i), c), Len(s.kids), c2), 0))

TreeSet(class, c) ==
    LET d == Name(c, "__construct") IN Emits(d, "SETPROP", class, d.out, c.out)

DclTree(s, cs) ==
    LET c0 == MakeClass(s, s.base, cs)
        fns == TreeConstructor(s, [Context EXCEPT !.infunc = TRUE, !.gotthis = 1, !.numargs = 1,
                                                  !.fns = c0.fns]).fns
    IN  TreeSet(c0.out, Const([c0 EXCEPT !.fns = fns], [func |-> Len(fns)]))

---------------------------------------------------------------------------
Node(s, cs) ==
    CASE s.st = "none" -> cs
      [] s.st = "expr" -> Expressions(s.kids, cs)
      [] s.st = "block" -> Block(s, cs)
      [] s.st = "if" -> IfElse(s, cs)
      [] s.st = "while" -> While(s, cs)
      [] s.st = "dowhile" -> DoWhile(s, cs)
      [] s.st = "for" -> For(s, cs)
      [] s.st = "fornum" -> ForNum(s, cs)
      [] s.st = "foreach" -> ForEach(s, cs)
      [] s.st = "break" -> Leave(s, FALSE, cs)
      [] s.st = "continue" -> Leave(s, TRUE, cs)
      [] s.st = "defer" -> [cs EXCEPT !.defers = Append(@, Kid(s, 1))]
      [] s.st = "return" -> Return(s, cs)
      [] s.st \in {"vars", "globals"} -> VarList(s, cs)
      [] s.st = "function" -> FuncStatement(s, cs)
      [] s.st = "class" -> Class(s, cs)
      [] s.st = "dcltree" -> DclTree(s, cs)

Visit(x, out, expect, cs) ==
    IF IsStatement(x) THEN Unwind(Node(x, cs), cs.regs) ELSE NodeR(x, out, expect, cs)

(* sgsBC_Generate: the functions of a program, the main one last.          *)
Compile(body) == FnBase(body, Context).fns
=============================================================================

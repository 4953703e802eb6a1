----------------------------- MODULE Interpreter -----------------------------
(***************************************************************************)
(* vm_exec and what it calls, sgs_proc.c, on the code that Compiler makes  *)
(* of a program: one action for the instructions of a kind.  Native        *)
(* functions answer, and threads that a sync or race waits for end, as the *)
(* environment likes, so that a program takes all of its paths.            *)
(***************************************************************************)
EXTENDS Bytecode

CONSTANTS
    Programs,   \* the programs of the instance
    Globals,    \* the global variables at the start
    Running,    \* the number of threads that run at the start
    Fuel,       \* bound: the iterations of a loop in Meaning
    MaxAsks,    \* bound: ask answers false, and every thread ends, from then on
    MaxTrace    \* bound: the values that a program emits

VARIABLES
    program,    \* the syntax tree
    fns,        \* its functions, compiled; the main one is the last
    frames,     \* the call stack
    heap,       \* the objects
    cells,      \* the variables that closures share
    globals,    \* _G
    threads,    \* "running", "ended" or "aborted"
    paused,     \* whether a sync or race waits
    trace,      \* what emit recorded, and the messages
    answers,    \* what the environment answered
    result      \* what the main function returned

world == <<heap, cells, globals, threads, trace, answers>>
vars == <<program, fns, frames, paused, result, world>>

NoResult == [ended |-> FALSE, values |-> <<>>]

---------------------------------------------------------------------------
(* A frame: its registers, what was pushed above them, the closure object  *)
(* with its cells, and after: what becomes of the values it returns.       *)
Top == Last(frames)
Now == fns[Top.fn].code[Top.pc]
Operand(r) == IF IsConst(r) THEN fns[Top.fn].consts[r - 255] ELSE Top.regs[r + 1]
Into(f, r, v) == [f EXCEPT !.regs[r + 1] = v]
Jumped(off) == [Top EXCEPT !.pc = @ + 1 + off]
Passed == Jumped(0)
Replaced(f) == Append(Front(frames), f)
Goes(f) == frames' = Replaced(f)
Sets(r, v) == Goes(Into(Passed, r, v))
Noted(t, bad) == IF bad /\ Top.errsup = 0 THEN Append(t, Warned) ELSE t

At(ops) == ~result.ended /\ ~paused /\ Now.op \in ops /\ UNCHANGED <<program, fns, result>>
Pure == UNCHANGED <<world, paused>>
Notes(bad) == trace' = Noted(trace, bad) /\ UNCHANGED <<heap, cells, globals, threads, answers, paused>>

(* After a call: results for a CALL, the first one, a value of the caller, *)
(* a comparison of the result, a value to be stored.                       *)
Results(dst, n) == [kind |-> "results", dst |-> dst, expect |-> n]
First(dst) == [kind |-> "first", dst |-> dst]
Instead(dst, v) == [kind |-> "value", dst |-> dst, value |-> v]
Compared(dst, instr) == [kind |-> "compare", dst |-> dst, instr |-> instr]
Storing(obj, key, v) == [kind |-> "store", obj |-> obj, key |-> key, value |-> v]

(* The frame f once a function it called has returned vs: vm_postcall, and *)
(* what the operators and vm_make_new do with them.                        *)
Given(f, after, vs) ==
    LET value(i) == IF i <= Len(vs) THEN vs[i] ELSE Null
    IN  CASE after.kind = "results" ->
                [f EXCEPT !.regs = [r \in DOMAIN @ |->
                    IF r - after.dst \in 1 .. after.expect THEN value(r - after.dst) ELSE @[r]]]
          [] after.kind = "first" -> Into(f, after.dst, value(1))
          [] after.kind = "value" -> Into(f, after.dst, after.value)
          [] after.kind = "compare" -> Into(f, after.dst, Arithmetic(after.instr, value(1), I(0)))
          [] after.kind = "store" -> f

(* A setter is done: the value is stored as well.                          *)
HeapGiven(after) ==
    IF after.kind = "store"
    THEN [heap EXCEPT ![after.obj] = [PutItem(@, after.key, after.value) EXCEPT !.setting = FALSE]]
    ELSE heap

---------------------------------------------------------------------------
(* vm_call: a function with captured variables runs in a closure object,   *)
(* whose cells for inner functions are new at every call.                  *)
Closure(n, cs) ==
    [kind |-> "closure", items |-> <<>>, meta |-> 0, mm |-> FALSE, setting |-> FALSE, fn |-> n, cells |-> cs]

Opened(v, code, h, cs) ==
    LET n == IF IsA(v, "func") THEN v.func ELSE h[v.ref].fn
        fn == code[n]
        fresh == [i \in 1 .. fn.numclsr |-> Len(cs) + i]
        Inner(old) == [i \in DOMAIN fresh |-> IF i > fn.inclsr THEN fresh[i] ELSE old[i]]
    IN  [fn |-> n,
         clsr |-> IF fn.numclsr = 0 THEN 0 ELSE IF IsA(v, "func") THEN Len(h) + 1 ELSE v.ref,
         cells |-> cs \o [i \in DOMAIN fresh |-> Null],
         heap |-> IF fn.numclsr = 0 THEN h
                  ELSE IF IsA(v, "func") THEN Append(h, Closure(n, fresh))
                  ELSE [h EXCEPT ![v.ref].cells = Inner(@)]]

(* The registers: this if the function uses it, the parameters, and the    *)
(* temporary ones; more arguments than parameters are dropped.             *)
Registers(fn, this, args) ==
    (IF fn.gotthis = 1 THEN <<this>> ELSE <<>>)
        \o [i \in 1 .. fn.numargs |-> IF i <= Len(args) THEN args[i] ELSE Null]
        \o [i \in 1 .. fn.numtmp |-> Null]

Frame(o, code, this, args, errsup, after) ==
    [fn |-> o.fn, pc |-> 1, regs |-> Registers(code[o.fn], this, args), pushed |-> <<>>,
     clsr |-> o.clsr, errsup |-> errsup, after |-> after]

IsScriptFunction(v) == IsA(v, "func") \/ (IsA(v, "ref") /\ heap[v.ref].kind = "closure")

(* The function v is called, with the objects h.                           *)
Calls(v, this, args, h, after) ==
    LET o == Opened(v, fns, h, cells)
    IN  /\ frames' = Replaced(Passed) \o <<Frame(o, fns, this, args, Top.errsup, after)>>
        /\ heap' = o.heap /\ cells' = o.cells
CallsOnly == UNCHANGED <<globals, threads, trace, answers, paused>>

(* An object with a method __call is called as that method.                *)
Target(f, this, args) ==
    LET call == IF IsA(f, "ref") /\ heap[f.ref].mm THEN Lookup(heap, f.ref, Text("__call")) ELSE Missing
    IN  IF call.kind = "value" THEN [fn |-> call.value, this |-> f, args |-> <<this>> \o args]
        ELSE [fn |-> f, this |-> this, args |-> args]

CallArgs ==
    LET from == Now.b % 256
        gotthis == Now.b >= 256
        first == IF gotthis THEN from + 2 ELSE from + 1
    IN  Target(Operand(from), IF gotthis THEN Operand(from + 1) ELSE Null,
               [i \in 1 .. Now.c - first + 1 |-> Operand(first + i - 1)])

CallFunction ==
    /\ At({"CALL"}) /\ IsScriptFunction(CallArgs.fn)
    /\ Calls(CallArgs.fn, CallArgs.this, CallArgs.args, heap, Results(Now.b % 256, Now.a))
    /\ CallsOnly

(* A native function, and a value that cannot be called.                   *)
Delivers(vs) == Goes(Given(Passed, Results(Now.b % 256, Now.a), vs))

CallEmit ==
    /\ At({"CALL"}) /\ CallArgs.fn = Native("emit") /\ Len(trace) < MaxTrace
    /\ Delivers(<<CallArgs.args[1]>>) /\ trace' = Append(trace, Seen(CallArgs.args[1]))
    /\ UNCHANGED <<heap, cells, globals, threads, answers, paused>>

CallAsk ==
    /\ At({"CALL"}) /\ CallArgs.fn = Native("ask")
    /\ \E a \in IF Len(answers) < MaxAsks THEN BOOLEAN ELSE {FALSE} :
          /\ Delivers(<<B(a)>>)
          /\ answers' = IF Len(answers) < MaxAsks THEN Append(answers, [says |-> a]) ELSE answers
    /\ UNCHANGED <<heap, cells, globals, threads, trace, paused>>

CallPop ==
    /\ At({"CALL"}) /\ CallArgs.fn = Native("pop")
    /\ LET items == heap[CallArgs.this.ref].items
       IN  Delivers(<<Last(items)>>) /\ heap' = [heap EXCEPT ![CallArgs.this.ref].items = Front(@)]
    /\ UNCHANGED <<cells, globals, threads, trace, answers, paused>>

(* thread_create: a function that does not wait runs to its end.           *)
CallThread ==
    /\ At({"CALL"}) /\ CallArgs.fn \in {Native("thread_create"), Native("subthread_create")}
    /\ LET args == CallArgs.args
       IN  Calls(args[1], args[2], SubSeq(args, 3, Len(args)), heap,
                 Instead(Now.b % 256, [thread |-> Len(threads) + 1]))
    /\ threads' = Append(threads, "ended")
    /\ UNCHANGED <<globals, trace, answers, paused>>

CallNothing ==
    /\ At({"CALL"}) /\ Scalar(CallArgs.fn) /\ Delivers(<<>>) /\ Notes(TRUE)

Push ==
    /\ At({"PUSH"}) /\ Goes([Passed EXCEPT !.pushed = Append(@, Operand(Now.b))]) /\ Pure

(* Values returned to the caller.  A caller whose next instruction is RETN *)
(* does not get them (vm_postcall).                                        *)
Returns(vs) ==
    IF Len(frames) = 1
    THEN result' = [ended |-> TRUE, values |-> vs] /\ UNCHANGED <<frames, heap>>
    ELSE LET caller == frames[Len(frames) - 1]
             unused == /\ Now.op = "RETN" /\ Top.after.kind = "results"
                       /\ fns[caller.fn].code[caller.pc].op = "RETN"
         IN  /\ frames' = Append(SubSeq(frames, 1, Len(frames) - 2),
                                 IF unused THEN caller ELSE Given(caller, Top.after, vs))
             /\ heap' = HeapGiven(Top.after)
             /\ UNCHANGED result

ReturnValues ==
    /\ ~result.ended /\ ~paused /\ Now.op \in {"RET1", "RETN"}
    /\ Returns(IF Now.op = "RET1" THEN <<Operand(Now.c)>>
               ELSE SubSeq(Top.pushed, Len(Top.pushed) - Now.a + 1, Len(Top.pushed)))
    /\ UNCHANGED <<program, fns, cells, globals, threads, trace, answers, paused>>

---------------------------------------------------------------------------
(* Moves, arithmetic and jumps                                             *)
Move ==
    /\ At({"SET", "LOADCONST"})
    /\ IF Now.op = "SET" THEN Sets(Now.a, Operand(Now.b))
       ELSE Sets(Now.c, fns[Top.fn].consts[Now.e + 1])
    /\ Pure

GetVar ==
    /\ At({"GETVAR"})
    /\ LET name == Operand(Now.b).str
           found == name \in DOMAIN globals
       IN  Sets(Now.a, IF found THEN globals[name] ELSE Null) /\ Notes(~found)

SetVar ==
    /\ At({"SETVAR"}) /\ Goes(Passed)
    /\ globals' = (Operand(Now.b).str :> Operand(Now.c)) @@ globals
    /\ UNCHANGED <<heap, cells, threads, trace, answers, paused>>

Binary == {"ADD", "SUB", "MUL", "SEQ", "SNEQ", "EQ", "NEQ", "LT", "GTE", "GT", "LTE", "RAWCMP"}

Method(instr, v, w) == OperatorMethod(heap, instr, v, w)

Operate ==
    /\ At(Binary) /\ Method(Now.op, Operand(Now.b), Operand(Now.c)).fn = Null
    /\ Sets(Now.a, Arithmetic(Now.op, Operand(Now.b), Operand(Now.c))) /\ Pure

OperateByMethod ==
    /\ At(Binary)
    /\ LET m == Method(Now.op, Operand(Now.b), Operand(Now.c))
       IN  /\ m.fn # Null
           /\ Calls(m.fn, m.this, <<Operand(Now.b), Operand(Now.c)>>, heap,
                    IF MethodOf[Now.op] = "__compare" THEN Compared(Now.a, Now.op) ELSE First(Now.a))
    /\ CallsOnly

OperateUnary ==
    /\ At({"NEGATE", "BOOL_INV", "INVERT"}) /\ ~(Now.op = "NEGATE" /\ IsA(Operand(Now.b), "ref"))
    /\ Sets(Now.a, Unary(Now.op, Operand(Now.b))) /\ Pure

Negate ==
    /\ At({"NEGATE"}) /\ IsA(Operand(Now.b), "ref")
    /\ LET m == Method("NEGATE", Operand(Now.b), Null)
       IN  m.fn # Null /\ Calls(m.fn, m.this, <<>>, heap, First(Now.a))
    /\ CallsOnly

Count ==
    /\ At({"INC", "DEC"})
    /\ Sets(Now.a, Step(Now.op, Operand(Now.b))) /\ Notes(~IsA(Operand(Now.b), "int"))

Join ==
    /\ At({"MCONCAT"})
    /\ LET n == Len(Top.pushed)
       IN  Goes(Into([Passed EXCEPT !.pushed = SubSeq(@, 1, n - Now.b)], Now.a,
                     Concat(SubSeq(Top.pushed, n - Now.b + 1, n))))
    /\ Pure

Branch ==
    /\ At({"JUMP", "JMPT", "JMPF", "JMPN"})
    /\ LET taken == CASE Now.op = "JUMP" -> TRUE
                      [] Now.op = "JMPT" -> Truth(Operand(Now.c))
                      [] Now.op = "JMPF" -> ~Truth(Operand(Now.c))
                      [] Now.op = "JMPN" -> Operand(Now.c) = Null
       IN  Goes(Jumped(IF taken THEN Now.e ELSE 0))
    /\ Pure

(* INT: messages of the frame are held back while errsup is above 0.       *)
Interrupt ==
    /\ At({"INT", "RSYM"})
    /\ Goes([Passed EXCEPT !.errsup = IF Now.op = "RSYM" THEN @
                                      ELSE @ + (CASE Now.c = 1 -> 1 [] Now.c = 2 -> -1 [] Now.c = 3 -> 0)])
    /\ Pure

(* Mutant of Counted: the counter stays where it is.                         *)
CountedNot(i, step) == i

Counted(i, step) == i + step

(* The hidden registers of a numeric for hold its counter, end and step.   *)
NumFor ==
    /\ At({"NFORPREP", "NFORJUMP"})
    /\ LET hidden(k) == Num(Operand(Now.c + k))
           i == IF Now.op = "NFORPREP" THEN hidden(1) ELSE Counted(hidden(1), hidden(3))
           out == IF hidden(3) >= 0 THEN hidden(2) <= i ELSE hidden(2) >= i
       IN  Goes(Into(Into(Jumped(IF out = (Now.op = "NFORPREP") THEN Now.e ELSE 0), Now.c, I(i)), Now.c + 1, I(i)))
    /\ Pure

(* The iterator of an array, in its register.                              *)
ForPrep ==
    /\ At({"FORPREP"})
    /\ LET n == Operand(Now.b).ref IN Sets(Now.a, [iter |-> n, off |-> -1, size |-> Len(heap[n].items)])
    /\ Pure

ForJump ==
    /\ At({"FORJUMP"})
    /\ LET it == [Operand(Now.c) EXCEPT !.off = @ + 1]
           changed == it.size # Len(heap[it.iter].items)
       IN  /\ Goes(Into(Jumped(IF ~changed /\ it.off < it.size THEN 0 ELSE Now.e), Now.c, it))
           /\ Notes(changed)

ForLoad ==
    /\ At({"FORLOAD"})
    /\ LET it == Operand(Now.a)
           k == IF Now.b < 256 THEN Into(Passed, Now.b, I(it.off)) ELSE Passed
       IN  Goes(IF Now.c < 256 THEN Into(k, Now.c, heap[it.iter].items[it.off + 1]) ELSE k)
    /\ Pure

---------------------------------------------------------------------------
(* Objects                                                                 *)

(* The instructions of a made object: it goes to the register dst.         *)
Makes(dst, obj) == heap' = Append(heap, obj) /\ Sets(dst, [ref |-> Len(heap) + 1])
HeapOnly == UNCHANGED <<cells, globals, threads, trace, answers, paused>>

NewLiteral ==
    /\ At({"ARRAY", "DICT", "MAP"})
    /\ Makes(Now.c, Object(CASE Now.op = "ARRAY" -> "array" [] Now.op = "DICT" -> "dict" [] Now.op = "MAP" -> "map"))
    /\ HeapOnly

ArrPush ==
    /\ At({"ARRPUSH"}) /\ Goes(Passed)
    /\ heap' = [heap EXCEPT ![Operand(Now.a).ref].items = Append(@, Operand(Now.c))]
    /\ HeapOnly

Reads == {"GETPROP", "GETINDEX"}
Writes == {"SETPROP", "SETINDEX"}
Found(v, key) == IF IsA(v, "ref") THEN Lookup(heap, v.ref, key) ELSE Missing

GetItem ==
    /\ At(Reads)
    /\ LET found == Found(Operand(Now.b), Operand(Now.c))
       IN  /\ found.kind # "getter"
           /\ Sets(Now.a, IF found.kind = "value" THEN found.value ELSE Null)
           /\ Notes(found.kind = "none")

GetByMethod ==
    /\ At(Reads)
    /\ LET found == Found(Operand(Now.b), Operand(Now.c))
       IN  found.kind = "getter" /\ Calls(found.value, Operand(Now.b), <<>>, heap, First(Now.a))
    /\ CallsOnly

SetterOf(v, key) == IF IsA(v, "ref") THEN Setter(heap, v.ref, key) ELSE Missing

SetItem ==
    /\ At(Writes)
    /\ LET v == Operand(Now.a)
           key == Operand(Now.b)
           good == IsA(v, "ref") /\ Writable(heap[v.ref], key)
       IN  /\ SetterOf(v, key) = Missing /\ Goes(Passed)
           /\ heap' = IF good THEN [heap EXCEPT ![v.ref] = PutItem(@, key, Operand(Now.c))] ELSE heap
           /\ trace' = Noted(trace, ~good)
    /\ UNCHANGED <<cells, globals, threads, answers, paused>>

SetByMethod ==
    /\ At(Writes)
    /\ LET v == Operand(Now.a)
           key == Operand(Now.b)
       IN  /\ SetterOf(v, key) # Missing
           /\ Calls(SetterOf(v, key).value, v, <<Operand(Now.c)>>, [heap EXCEPT ![v.ref].setting = TRUE],
                    Storing(v.ref, key, Operand(Now.c)))
    /\ CallsOnly

(* A closure: the cells it captures from the running function, named by    *)
(* the CLSRINFO after it, and its own.                                     *)
MakeClosure ==
    /\ At({"MAKECLSR"})
    /\ LET n == Operand(Now.b).func
           own == fns[n].numclsr - Now.c
           info(i) == LET in == fns[Top.fn].code[Top.pc + 1 + (i - 1) \div 3]
                      IN  CASE i % 3 = 1 -> in.a [] i % 3 = 2 -> in.b [] i % 3 = 0 -> in.c
           captured == [i \in 1 .. Now.c |-> heap[Top.clsr].cells[info(i) + 1]]
           fresh == [i \in 1 .. own |-> Len(cells) + i]
       IN  /\ heap' = Append(heap, Closure(n, captured \o fresh))
           /\ cells' = cells \o [i \in 1 .. own |-> Null]
           /\ Goes(Into(Jumped((Now.c + 2) \div 3), Now.a, [ref |-> Len(heap) + 1]))
    /\ UNCHANGED <<globals, threads, trace, answers, paused>>

Cell(i) == heap[Top.clsr].cells[i + 1]

GetCell == At({"GETCLSR"}) /\ Sets(Now.a, cells[Cell(Now.b)]) /\ Pure

SetCell ==
    /\ At({"SETCLSR"}) /\ Goes(Passed) /\ cells' = [cells EXCEPT ![Cell(Now.b)] = Operand(Now.c)]
    /\ UNCHANGED <<heap, globals, threads, trace, answers, paused>>

(* vm_make_class: the base must be a global object; its method __inherited *)
(* is told.                                                                *)
Base == IF Now.c = Now.a \/ Operand(Now.c).str \notin DOMAIN globals THEN Null ELSE globals[Operand(Now.c).str]
BaseRef == IF IsA(Base, "ref") THEN Base.ref ELSE 0
ClassMade == Append(heap, ClassObject(Operand(Now.b), BaseRef, IF Now.c = Now.a THEN Null ELSE Operand(Now.c)))
Inherited == IF BaseRef = 0 THEN Missing ELSE Lookup(heap, BaseRef, Text("__inherited"))

MakeClassHere ==
    /\ At({"CLASS"}) /\ Inherited = Missing
    /\ heap' = ClassMade /\ Sets(Now.a, [ref |-> Len(heap) + 1])
    /\ trace' = Noted(trace, Now.c # Now.a /\ BaseRef = 0)
    /\ UNCHANGED <<cells, globals, threads, answers, paused>>

MakeClassInherited ==
    /\ At({"CLASS"}) /\ Inherited # Missing
    /\ Calls(Inherited.value, Base, <<Operand(Now.b)>>, ClassMade, Instead(Now.a, [ref |-> Len(heap) + 1]))
    /\ CallsOnly

(* vm_make_new: an instance of a class, or of a function.                  *)
Made == IF IsA(Operand(Now.b), "ref") THEN Instance(Operand(Now.b).ref) ELSE Object("dict")
Constructor ==
    LET class == Operand(Now.b)
        found == IF IsA(class, "ref") THEN Lookup(heap, class.ref, Text("__construct")) ELSE Missing
    IN  IF IsA(class, "func") THEN class ELSE IF found = Missing THEN Null ELSE found.value

NewPlain ==
    /\ At({"NEW"}) /\ ~Scalar(Operand(Now.b)) /\ Constructor = Null
    /\ Makes(Now.b, Made) /\ HeapOnly

NewConstructed ==
    /\ At({"NEW"}) /\ Constructor # Null
    /\ Calls(Constructor, [ref |-> Len(heap) + 1], [i \in 1 .. Now.c - Now.b |-> Operand(Now.b + i)],
             Append(heap, Made), Instead(Now.b, [ref |-> Len(heap) + 1]))
    /\ CallsOnly

NewNothing == At({"NEW"}) /\ Scalar(Operand(Now.b)) /\ Goes(Passed) /\ Notes(TRUE)

---------------------------------------------------------------------------
(* sync and race                                                           *)
CoTest ==
    /\ At({"COTRT", "COTRF"})
    /\ LET ended == Finished(threads, Operand(Now.b))
       IN  IF ended = (Now.op = "COTRT") THEN Sets(Now.a, B(ended)) ELSE Goes(Passed)
    /\ Pure

(* A race that is won aborts the threads in its code.                      *)
CoAbort ==
    /\ At({"COABORT"}) /\ Goes(Passed)
    /\ LET raced == {fns[Top.fn].code[at] : at \in Top.pc + 1 + Now.e .. Top.pc}
           aborted == {Operand(in.b) : in \in {i \in raced : i.op \in {"COTRT", "COTRF"}}}
       IN  threads' = IF ~Truth(Operand(Now.c)) THEN threads
                      ELSE [t \in DOMAIN threads |->
                              IF [thread |-> t] \in aborted /\ threads[t] = "running" THEN "aborted" ELSE threads[t]]
    /\ UNCHANGED <<heap, cells, globals, trace, answers, paused>>

YieldJump ==
    /\ At({"YLDJMP"}) /\ Goes(Passed) /\ paused' = ~Truth(Operand(Now.c)) /\ UNCHANGED world

(* sgs_ResumeStateRet, after some of the threads have ended.               *)
Resume ==
    /\ paused /\ paused' = FALSE
    /\ Goes([Top EXCEPT !.pc = @ + fns[Top.fn].code[@ - 1].e])
    /\ LET running == {t \in DOMAIN threads : threads[t] = "running"}
       IN  \E ended \in IF Len(answers) < MaxAsks THEN SUBSET running ELSE {running} :
              /\ threads' = [t \in DOMAIN threads |-> IF t \in ended THEN "ended" ELSE threads[t]]
              /\ answers' = IF Len(answers) < MaxAsks THEN Append(answers, [ends |-> ended]) ELSE answers
    /\ UNCHANGED <<program, fns, result, heap, cells, globals, trace>>

---------------------------------------------------------------------------
(* Each program is compiled to a file, which is then read and run.         *)
Compiled == [body \in Programs |-> CompiledAndLoaded(body)]

Init ==
    /\ program \in Programs /\ fns = Compiled[program]
    /\ LET o == Opened([func |-> Len(fns)], fns, <<>>, <<>>)
       IN  frames = <<Frame(o, fns, Null, <<>>, 0, [kind |-> "main"])>> /\ heap = o.heap /\ cells = o.cells
    /\ globals = Globals /\ threads = [t \in 1 .. Running |-> "running"]
    /\ paused = FALSE /\ trace = <<>> /\ answers = <<>> /\ result = NoResult

Next ==
    \/ CallFunction \/ CallEmit \/ CallAsk \/ CallPop \/ CallThread \/ CallNothing \/ Push \/ ReturnValues
    \/ Move \/ GetVar \/ SetVar \/ Operate \/ OperateByMethod \/ OperateUnary \/ Negate \/ Count
    \/ Join \/ Branch \/ Interrupt \/ NumFor \/ ForPrep \/ ForJump \/ ForLoad
    \/ NewLiteral \/ ArrPush \/ GetItem \/ GetByMethod \/ SetItem \/ SetByMethod
    \/ MakeClosure \/ GetCell \/ SetCell \/ MakeClassHere \/ MakeClassInherited
    \/ NewPlain \/ NewConstructed \/ NewNothing
    \/ CoTest \/ CoAbort \/ YieldJump \/ Resume

Spec == Init /\ [][Next]_vars /\ WF_vars(Next)

---------------------------------------------------------------------------
M == INSTANCE Meaning

(* A compiled program emits, warns, asks, waits and returns what its       *)
(* syntax tree means: on every path of jumps, calls, breaks, deferred      *)
(* statements, closures, methods and waits, with registers that are reused *)
(* all along (compile_node, vm_exec).                                      *)
RunsAsMeant ==
    result.ended =>
        LET m == M!Meant(program, Globals, Running, answers)
        IN  /\ trace = m.trace /\ m.answers = <<>> /\ threads = m.threads
            /\ [i \in DOMAIN result.values |-> Seen(result.values[i])] = [i \in DOMAIN m.val |-> Seen(m.val[i])]
            /\ DOMAIN globals = DOMAIN m.globals
            /\ \A name \in DOMAIN globals : Seen(globals[name]) = Seen(m.globals[name])

(* The registers and constants that an instruction reads and writes.       *)
Touched(in) ==
    CASE in.op = "CALL" -> LET from == in.b % 256 IN (from .. in.c) \cup (from .. from + in.a - 1)
      [] in.op = "NEW" -> in.b .. in.c
      [] in.op \in {"NFORPREP", "NFORJUMP"} -> in.c .. in.c + 3
      [] in.op \in {"RETN", "JUMP", "INT"} -> {}
      [] in.op = "PUSH" -> {in.b}
      [] in.op \in {"MCONCAT", "GETCLSR"} -> {in.a}
      [] in.op \in {"RET1", "LOADCONST", "JMPT", "JMPF", "JMPN", "FORJUMP", "ARRAY", "DICT", "MAP",
                    "SETCLSR", "COABORT", "YLDJMP"} -> {in.c}
      [] in.op \in {"SET", "GETVAR", "NEGATE", "BOOL_INV", "INVERT", "INC", "DEC", "FORPREP", "MAKECLSR",
                    "COTRT", "COTRF"} -> {in.a, in.b}
      [] in.op \in {"SETVAR", "RSYM"} -> {in.b, in.c}
      [] in.op = "ARRPUSH" -> {in.a, in.c}
      [] in.op = "FORLOAD" -> {in.a, in.b, in.c} \ {511}
      [] in.op \in Binary \cup Reads \cup Writes \cup {"CLASS"} -> {in.a, in.b, in.c}

(* An instruction touches no register behind those of its frame, whose     *)
(* number the compiler derives from the highest one it ever allocated, no  *)
(* constant that is not there, and no jump leads out of the code or to a   *)
(* break that was not patched (prefix_bytecode, PushStackFrame).           *)
RegistersInside ==
    ~result.ended =>
        /\ Top.pc \in DOMAIN fns[Top.fn].code
        /\ \A r \in Touched(Now) :
              IF IsConst(r) THEN r - 255 \in DOMAIN fns[Top.fn].consts ELSE r + 1 \in DOMAIN Top.regs

(* Every program ends once ask answers false and the threads have ended:   *)
(* no jump goes astray, and no wait is for a thread that does not count.   *)
Terminates == <>result.ended
=============================================================================

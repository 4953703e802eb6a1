------------------------------ MODULE Bytecode ------------------------------
(***************************************************************************)
(* Compiled functions as files: the bytecode part of sgs_srlz.c, and       *)
(* sgs_PushSGSFunctionBuf, which takes sources and such files alike.       *)
(*                                                                         *)
(* A file is a sequence of fields in the byte order of the host that wrote *)
(* it, and the number of its bytes, of which a damaged file has fewer than *)
(* its fields.  A function's constant that is a function, [func |-> k], is *)
(* written in its place; what is read is numbered in the order in which it *)
(* is complete, as the compiler numbers its functions.                     *)
(***************************************************************************)
EXTENDS Compiler

F(size, val) == [size |-> size, val |-> val]

RECURSIVE SizeOf(_)
SizeOf(fields) ==
    LET half == Len(fields) \div 2
    IN  CASE fields = <<>> -> 0
          [] Len(fields) = 1 -> fields[1].size
          [] OTHER -> SizeOf(SubSeq(fields, 1, half)) + SizeOf(SubSeq(fields, half + 1, Len(fields)))

---------------------------------------------------------------------------
(* bc_write_sgsstring, bc_write_var                                        *)
StringFields(s) == <<F(4, Len(s)), F(Len(s), s)>>

(* The code and the size of a value of a type; threads and objects have no *)
(* form in a file.                                                         *)
TypeByte == "null" :> 0 @@ "bool" :> 1 @@ "int" :> 2 @@ "real" :> 3 @@ "str" :> 4 @@ "func" :> 5 @@ "ptr" :> 8
Storable == DOMAIN TypeByte
ValueSize == "bool" :> 1 @@ "int" :> 8 @@ "real" :> 8 @@ "ptr" :> 8

RECURSIVE FuncFields(_, _)
VarFields(fns, v) ==
    LET type == TypeOf(v)
        content == CASE type = "null" -> <<>>
                     [] type = "str" -> StringFields(v.str)
                     [] type = "func" -> FuncFields(fns, v.func)
                     [] OTHER -> <<F(ValueSize[type], v[type])>>
    IN  <<F(1, TypeByte[type])>> \o content

(* What a function has besides its code: the line of its declaration, the  *)
(* line of each instruction, its name, and the variables by their range of *)
(* instructions and register, behind the size of all this.                 *)
VarInfoFields(info) ==
    IF info = <<>> THEN <<F(4, 0)>>
    ELSE <<F(4, info.size)>> \o FlattenSeq([i \in DOMAIN info.vars |->
            LET var == info.vars[i]
            IN  <<F(4, var.from), F(4, var.to), F(2, var.pos), F(1, Len(var.name)), F(Len(var.name), var.name)>>])

(* bc_write_sgsfunc                                                        *)
FuncFields(fns, k) ==
    LET f == fns[k]
    IN  <<F(2, Len(f.consts)), F(2, Len(f.code)), F(1, f.gotthis), F(1, f.numargs), F(1, f.numtmp),
          F(1, f.numclsr), F(1, f.inclsr), F(2, f.linenum)>>
        \o [i \in DOMAIN f.lineinfo |-> F(2, f.lineinfo[i])]
        \o StringFields(f.name)
        \o FlattenSeq([i \in DOMAIN f.consts |-> VarFields(fns, f.consts[i])])
        \o [i \in DOMAIN f.code |-> F(4, f.code[i])]
        \o VarInfoFields(f.varinfo)

(* sgsBC_Func2Buf, on a host of a byte order, little or not: the last of   *)
(* fns, if all constants that it reaches can be written.                   *)
Magic == <<"S", "G", "S", 0, "major", "minor", "incr", 8, 8>>
HeaderSize == 14
CanWrite(fns) == \A k \in DOMAIN fns : \A i \in DOMAIN fns[k].consts : TypeOf(fns[k].consts[i]) \in Storable
Func2Buf(fns, little) ==
    LET body == FuncFields(fns, Len(fns))
        size == HeaderSize + SizeOf(body)
        header == [i \in DOMAIN Magic |-> F(1, Magic[i])] \o <<F(1, little), F(4, size)>>
    IN  IF CanWrite(fns) THEN [fields |-> header \o body, little |-> little, size |-> size]
        ELSE [fields |-> <<>>, little |-> little, size |-> 0]

---------------------------------------------------------------------------
(* The decoder: the field at which it is, the bytes that are left, whether *)
(* it has to turn bytes around, and the functions it has read.             *)
Swapped(v) == [swapped |-> v]
Ready(d, n) == d.left >= n

(* What a host of the order of host reads of a field of a file: the value  *)
(* itself if the order is the same or has been put right.                  *)
InOrder(d, val, turned) == IF (d.file.little # d.host) = turned THEN val ELSE Swapped(val)
Turned(d) == InOrder(d, d.file.fields[d.at].val, d.convend)
AsItIs(d) == InOrder(d, d.file.fields[d.at].val, FALSE)
Byte(d) == d.file.fields[d.at].val
Past(d, n) == [d EXCEPT !.left = @ - SizeOf(SubSeq(d.file.fields, d.at, d.at + n - 1)), !.at = @ + n]
Failed(d) == [d EXCEPT !.ok = FALSE]
Gives(d, v) == [d EXCEPT !.value = v]

(* bc_read_sgsstring: the length is not yet passed when the bytes behind   *)
(* it are counted.                                                         *)
ReadString(d) ==
    IF ~Ready(d, 4) \/ (IF Ready(d, 4) THEN ~Ready(d, Turned(d)) ELSE TRUE) THEN Failed(d)
    ELSE Gives(Past(d, 2), Text(Byte(Past(d, 1))))

(* bc_read_var: numbers and pointers are not turned.                       *)
RECURSIVE ReadFunc(_)
ReadVar(d0) ==
    LET d == Past(d0, 1)
        type == CHOOSE type \in Storable : TypeByte[type] = Byte(d0)
    IN  CASE ~Ready(d0, 1) -> Failed(d0)
          [] Ready(d0, 1) /\ type = "null" -> Gives(d, Null)
          [] Ready(d0, 1) /\ type = "str" -> ReadString(d)
          [] Ready(d0, 1) /\ type = "func" -> ReadFunc(d)
          [] OTHER -> IF ~Ready(d, ValueSize[type]) THEN Failed(d)
                      ELSE Gives(Past(d, 1), type :> IF type = "bool" THEN Byte(d) ELSE AsItIs(d))

(* bc_read_varlist, for the constants of a function.                       *)
AddVar(d, e) == IF e.ok THEN [e EXCEPT !.f = [d.f EXCEPT !.consts = Append(@, e.value)]] ELSE e
ReadVars(d, n) == FoldLeft(LAMBDA e, i : IF e.ok THEN AddVar(e, ReadVar(e)) ELSE e, d, [i \in 1 .. n |-> i])

Taken(d, n) == [i \in 1 .. n |-> Turned([d EXCEPT !.at = @ + i - 1])]

(* Mutant of ReadCounts: the number of arguments and the flag for this are *)
(* read in the order in which the structure has them.                      *)
ReadCountsSwapped(d) ==
    [numargs |-> Byte(Past(d, 2)), gotthis |-> Byte(Past(d, 3)), numtmp |-> Byte(Past(d, 4)),
     numclsr |-> Byte(Past(d, 5)), inclsr |-> Byte(Past(d, 6)), linenum |-> Turned(Past(d, 7))]
ReadCounts(d) ==
    [gotthis |-> Byte(Past(d, 2)), numargs |-> Byte(Past(d, 3)), numtmp |-> Byte(Past(d, 4)),
     numclsr |-> Byte(Past(d, 5)), inclsr |-> Byte(Past(d, 6)), linenum |-> Turned(Past(d, 7))]

(* The parts of a function; d.f is what has been read of it.               *)
ReadHeader(d) ==
    LET cc == Turned(d)
        ic == Turned(Past(d, 1))
    IN  IF ~Ready(d, 10) THEN Failed(d)
        ELSE IF ~Ready(d, 10 + cc + 2 * ic) THEN Failed(d)
        ELSE [Past(d, 8) EXCEPT !.f = ReadCounts(d) @@ [cc |-> cc, ic |-> ic, consts |-> <<>>]]
ReadLines(d) ==
    IF ~Ready(d, 2 * d.f.ic) THEN Failed(d)
    ELSE [Past(d, d.f.ic) EXCEPT !.f = @ @@ [lineinfo |-> Taken(d, d.f.ic)]]
ReadName(d) ==
    IF ~Ready(d, 4) THEN Failed(d)
    ELSE IF ~Ready(Past(d, 1), Turned(d)) THEN Failed(d)
    ELSE [Past(d, 2) EXCEPT !.f = @ @@ [name |-> Byte(Past(d, 1))]]
ReadCode(d) ==
    IF ~Ready(d, 4 * d.f.ic) THEN Failed(d)
    ELSE [Past(d, d.f.ic) EXCEPT !.f = @ @@ [code |-> Taken(d, d.f.ic)]]

(* The debug information is copied as it is, with its size, and then what  *)
(* is behind the size is turned.                                           *)
FieldsIn(d, size) ==
    CHOOSE n \in 0 .. Len(d.file.fields) - d.at : SizeOf(SubSeq(d.file.fields, d.at + 1, d.at + n)) = size - 4
VarsInfo(d, n) ==
    LET val(k) == Turned([d EXCEPT !.at = @ + k])
    IN  [i \in 1 .. n |-> [from |-> val(5 * i - 4), to |-> val(5 * i - 3), pos |-> val(5 * i - 2),
                           name |-> Byte([d EXCEPT !.at = @ + 5 * i])]]
ReadVarInfo(d) ==
    LET size == Turned(d)
        n == FieldsIn(d, size)
    IN  IF ~Ready(d, 4) THEN Failed(d)
        ELSE IF ~Ready(d, size) THEN Failed(d)
        ELSE IF size = 0 THEN [Past(d, 1) EXCEPT !.f = @ @@ [varinfo |-> <<>>]]
        ELSE [Past(d, 1 + n) EXCEPT !.f = @ @@ [varinfo |-> [size |-> AsItIs(d), vars |-> VarsInfo(d, n \div 5)]]]

(* bc_read_sgsfunc                                                         *)
Parts == <<"header", "lines", "name", "consts", "code", "varinfo">>
ReadPart(d, part) ==
    CASE ~d.ok -> d
      [] d.ok /\ part = "header" -> ReadHeader(d)
      [] d.ok /\ part = "lines" -> ReadLines(d)
      [] d.ok /\ part = "name" -> ReadName(d)
      [] d.ok /\ part = "consts" -> ReadVars(d, d.f.cc)
      [] d.ok /\ part = "code" -> ReadCode(d)
      [] d.ok /\ part = "varinfo" -> ReadVarInfo(d)
Counts == {"cc", "ic"}
Completed(d) ==
    Gives([d EXCEPT !.fns = Append(@, [key \in DOMAIN d.f \ Counts |-> d.f[key]])], [func |-> Len(d.fns) + 1])
AfterParts(d) == IF d.ok THEN Completed(d) ELSE d
ReadFunc(d) == AfterParts(FoldLeft(ReadPart, d, Parts))

(* sgsBC_Buf2Func, on a host of the byte order host.                       *)
Decoder(file, host) ==
    [file |-> file, host |-> host, convend |-> FALSE, at |-> 1, left |-> file.size, ok |-> TRUE, value |-> Null,
     f |-> <<>>, fns |-> <<>>]
Buf2Func(file, host) ==
    LET d == Decoder(file, host)
        conv == [Past(d, Len(Magic)) EXCEPT !.convend = host # Byte(Past(d, Len(Magic)))]
    IN  IF file.size < 22 THEN Failed(d)
        ELSE IF Turned(Past(conv, 1)) # file.size THEN Failed(d)
        ELSE ReadFunc(Past(conv, 2))

(* sgsBC_ValidateHeader: the place of the first byte that is wrong, or the *)
(* size of the header.                                                     *)
ValidateHeader(file) ==
    IF file.size < 22 THEN -1
    ELSE LET wrong == {i \in DOMAIN Magic : file.fields[i].val # Magic[i]}
         IN  IF wrong = {} THEN HeaderSize ELSE Min(wrong) - 1

---------------------------------------------------------------------------
(* sgs_PushSGSFunctionBuf: a text is compiled, and a file that begins as   *)
(* one is loaded; what fails leaves no function.                           *)
FromFile(file, host) ==
    IF ValidateHeader(file) < HeaderSize THEN <<>>
    ELSE CHOOSE fns \in {IF d.ok THEN d.fns ELSE <<>> : d \in {Buf2Func(file, host)}} : TRUE

(* What a function has besides its code: lines, a name and, here for every *)
(* other one, the variables of the debug information.                      *)
Documents(f, k) ==
    [linenum |-> k, lineinfo |-> [i \in DOMAIN f.code |-> k + i], name |-> "f" \o ToString(k),
     varinfo |-> IF k % 2 = 0 THEN <<>>
                 ELSE [size |-> 28, vars |-> <<[from |-> 0, to |-> k, pos |-> -1, name |-> "x"],
                                               [from |-> 1, to |-> k, pos |-> k, name |-> "y"]>>]]
Documented(fns) == [k \in DOMAIN fns |-> fns[k] @@ Documents(fns[k], k)]
FromSource(body) == CHOOSE fns \in {Documented(fs) : fs \in {Compile(body)}} : TRUE

(* sgs_Compile, of a text                                                  *)
CompileToFile(body, little) ==
    CHOOSE file \in {Func2Buf(fns, little) : fns \in {FromSource(body)}} : TRUE

(* The functions of a program whose text was compiled to a file on a host  *)
(* like this one, and the file loaded.                                     *)
CodeKeys == {"code", "consts", "numargs", "gotthis", "numtmp", "numclsr", "inclsr"}
Loaded(file) ==
    CHOOSE fns \in {[k \in DOMAIN fs |-> [key \in CodeKeys |-> fs[k][key]]] : fs \in {FromFile(file, TRUE)}} : TRUE
CompiledAndLoaded(body) == CHOOSE fns \in {Loaded(file) : file \in {CompileToFile(body, TRUE)}} : TRUE
=============================================================================

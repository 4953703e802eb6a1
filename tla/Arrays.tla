-------------------------------- MODULE Arrays --------------------------------
(* The array type: src/sgs_std.c:40-1010, array_filter and array_process    *)
(* (1567-1628), the C interface (4703-4830) and sgs_quicksort of            *)
(* src/sgs_util.c.  An array is a block of cells of which the first `size'  *)
(* hold items; moving items between cells must carry their references.     *)
EXTENDS Integers, Sequences, SequencesExt, FiniteSetsExt, TLC

CONSTANTS
    Item,       \* objects of the script, and Null
    Null,
    Order,      \* the order sgs_Compare gives to the items
    Type,       \* the type of each item
    Nothing,
    Thresholds, \* a build sorts partitions of at most this many items by insertion
    MaxItems,   \* the size of an array grows up to this
    LongArrays, \* longer arrays, which are only sorted
    MaxLeaks,   \* references that writes of first and last lose
    Arguments,  \* the arguments it gives to calls that add items
    Calls       \* the calls the script makes

VARIABLES
    data,       \* the cells of the block, hdr->mem of them
    size,       \* the cells that hold items
    rc,         \* the references counted for each item
    ret,        \* items given to the script, which holds them
    job,        \* the call in progress that calls back into the script
    iter,       \* an iterator: the size it saw and its position
    last        \* the call that was made last, for the abstract specification

vars == <<data, size, rc, ret, job, iter, last>>

Object == Item \ {Null}

Mem == Len(data)

Items == SubSeq(data, 1, size)

Places(x, xs) == Cardinality({i \in DOMAIN xs : xs[i] = x})

(* sgs_Acquire and sgs_Release of the items of a sequence.                  *)
Acquired(xs, count) == [o \in Object |-> count[o] + Places(o, xs)]
Released(xs, count) == [o \in Object |-> count[o] - Places(o, xs)]

(* memmove of n cells: to and from are C indices.                           *)
MovedForward(cells, to, from, n) ==
    [i \in DOMAIN cells |->
       IF i \notin to + 1 .. to + n THEN cells[i]
       ELSE IF to > from THEN cells[from + 1 + ((i - to - 1) % (to - from))] ELSE cells[i - to + from]]

Moved(cells, to, from, n) ==
    [i \in DOMAIN cells |-> IF i \in to + 1 .. to + n THEN cells[i - to + from] ELSE cells[i]]

(* sgs_Realloc: the cells beyond the old block are not initialised.         *)
Reserve(cells, n) ==
    IF n <= Len(cells) THEN cells
    ELSE [i \in 1 .. n |-> IF i <= Len(cells) THEN cells[i] ELSE Nothing]

(* The cells after the items xs are inserted before position pos.           *)
Inserted(cells, n, pos, xs) ==
    LET need == n + Len(xs)
        room == IF need > Len(cells) THEN Reserve(cells, Max({need, 2 * Len(cells)})) ELSE cells
        open == IF pos < n THEN Moved(room, pos + Len(xs), pos, n - pos) ELSE room
    IN  [i \in DOMAIN open |-> IF i \in pos + 1 .. pos + Len(xs) THEN xs[i - pos] ELSE open[i]]

Insert(pos, xs) ==
    IF xs = <<>> THEN UNCHANGED <<data, size, rc>>
    ELSE /\ data' = Inserted(data, size, pos, xs)
         /\ size' = size + Len(xs)
         /\ rc' = Acquired(xs, rc)

(* Mutant of Erase: what is erased is not released.                         *)
EraseKeeps(from, to, count) ==
    /\ rc' = count
    /\ data' = IF to + 1 < size THEN Moved(data, from, to + 1, size - (to + 1)) ELSE data
    /\ size' = size - (to - from + 1)

(* Takes the items from .. to out; more is what else the call releases.     *)
Erase(from, to, count) ==
    /\ rc' = Released(SubSeq(data, from + 1, to + 1), count)
    /\ data' = IF to + 1 < size THEN Moved(data, from, to + 1, size - (to + 1)) ELSE data
    /\ size' = size - (to - from + 1)

(* The items a call gives back become the script's.                         *)
Give(xs) == ret' = xs

Done(call) == last' = call

(* A call is made when no other is in progress and the script has dropped   *)
(* what the last one gave.                                                   *)
Call(name) ==
    /\ name \in Calls /\ job = Nothing /\ ret = <<>> /\ size <= MaxItems
    /\ UNCHANGED <<job, iter>>

Bounded(n) == n <= MaxItems

(* How many references to an item no cell, no value of the script and not   *)
(* the script's variable for it accounts for.                               *)
Excess(o) == rc[o] - 1 - Places(o, Items) - Places(o, ret)

-----------------------------------------------------------------------------

Push(xs) ==
    /\ Call("push") /\ Bounded(size + Len(xs)) /\ Done(<<"push", xs>>)
    /\ Insert(size, xs) /\ UNCHANGED ret

Unshift(xs) ==
    /\ Call("unshift") /\ Bounded(size + Len(xs)) /\ Done(<<"unshift", xs>>)
    /\ Insert(0, xs) /\ UNCHANGED ret

(* The last cell's reference passes to the stack.                           *)
Pop ==
    /\ Call("pop") /\ Done(<<"pop">>)
    /\ IF size = 0 THEN UNCHANGED <<data, size, rc, ret>>
       ELSE size' = size - 1 /\ Give(<<data[size]>>) /\ UNCHANGED <<data, rc>>

Shift ==
    /\ Call("shift") /\ Done(<<"shift">>)
    /\ IF size = 0 THEN UNCHANGED <<data, size, rc, ret>>
       ELSE Give(<<data[1]>>) /\ Erase(0, 0, Acquired(<<data[1]>>, rc))

(* Positions are resolved from the end when they are negative.              *)
Resolve(i, n) == IF i < 0 THEN i + n ELSE i

InsertItems(i, xs) ==
    LET at == Resolve(i, size + 1)
    IN  /\ Call("insert") /\ Bounded(size + Len(xs)) /\ Done(<<"insert", i, xs>>)
        /\ IF at < 0 \/ at > size THEN UNCHANGED <<data, size, rc>> ELSE Insert(at, xs)
        /\ UNCHANGED ret

EraseAt(i, j) ==
    LET at == Resolve(i, size)
        at2 == Resolve(j, size)
    IN  /\ Call("erase") /\ Done(<<"erase", i, j>>)
        /\ IF at < 0 \/ at >= size \/ at2 < 0 \/ at2 >= size \/ at2 < at
           THEN UNCHANGED <<data, size, rc>>
           ELSE Erase(at, at2, rc)
        /\ UNCHANGED ret

(* max is 0x7fffffff when it is not given: from + max wraps around.         *)
Huge == 2147483647

Part(i, max) ==
    LET from == Resolve(i, size)
        sum == IF from > 0 /\ max = Huge THEN from - Huge - 2 ELSE from + max
        to == IF sum < from THEN size ELSE sum
        lo == Max({from, 0})
        hi == Min({to, size})
        taken == IF from < size /\ 0 < to /\ lo < hi THEN SubSeq(data, lo + 1, hi) ELSE <<>>
    IN  /\ Call("part") /\ Done(<<"part", i, max>>)
        /\ Give(taken) /\ rc' = Acquired(taken, rc)
        /\ UNCHANGED <<data, size>>

Reversed ==
    /\ Call("reverse") /\ Done(<<"reverse">>)
    /\ data' = [i \in DOMAIN data |-> IF i <= size THEN data[size + 1 - i] ELSE data[i]]
    /\ UNCHANGED <<size, rc, ret>>

(* sgsstd_array_adjust after sgsstd_array_reserve.                          *)
Resize(n) ==
    /\ Call("resize") /\ Done(<<"resize", n>>)
    /\ rc' = Released(SubSeq(data, n + 1, size), rc)
    /\ LET room == Reserve(data, n)
       IN  data' = [i \in DOMAIN room |-> IF i \in size + 1 .. n THEN Null ELSE room[i]]
    /\ size' = n
    /\ UNCHANGED ret

ReserveCells(n) ==
    /\ Call("reserve") /\ Done(<<"reserve", n>>)
    /\ data' = Reserve(data, n) /\ UNCHANGED <<size, rc, ret>>

(* A swap with a random item for each position from the last down.          *)
RECURSIVE Shuffles(_, _)
Shuffles(cells, i) ==
    IF i < 2 THEN {cells}
    ELSE UNION {Shuffles([cells EXCEPT ![i] = cells[j], ![j] = cells[i]], i - 1) : j \in 1 .. i}

Shuffle ==
    /\ Call("shuffle") /\ Done(<<"shuffle">>)
    /\ data' \in Shuffles(data, size)
    /\ UNCHANGED <<size, rc, ret>>

Same(x, y, strict) == (strict => Type[x] = Type[y]) /\ Order[x] = Order[y]

(* _in_array over what was collected so far.                                *)
RECURSIVE Collected(_, _)
Collected(xs, got) ==
    IF xs = <<>> THEN got
    ELSE Collected(Tail(xs), IF \E i \in DOMAIN got : Same(Head(xs), got[i], TRUE)
                             THEN got ELSE Append(got, Head(xs)))

Unique ==
    /\ Call("unique") /\ Done(<<"unique">>)
    /\ LET got == Collected(Items, <<>>) IN Give(got) /\ rc' = Acquired(got, rc)
    /\ UNCHANGED <<data, size>>

(* With no items and a count the code divides by zero: not called.          *)
Random(n) ==
    /\ Call("random") /\ Done(<<"random", n>>) /\ (n > 0 => size > 0)
    /\ \E pick \in [1 .. n -> 1 .. size] :
         LET got == [k \in 1 .. n |-> data[pick[k]]]
         IN  Give(got) /\ rc' = Acquired(got, rc)
    /\ UNCHANGED <<data, size>>

(* sgsstd_array, array_sized, MakeArray and the clone of one of these: the  *)
(* script forgets the old array, whose destructor releases its items.       *)
New(xs) ==
    /\ Call("array") /\ iter = Nothing /\ Done(<<"array", xs>>)
    /\ data' = xs /\ size' = Len(xs)
    /\ rc' = Released(Items, Acquired(xs, rc))
    /\ UNCHANGED ret

-----------------------------------------------------------------------------

Get(i) ==
    /\ Call("get") /\ Done(<<"get", i>>)
    /\ IF i < 0 \/ i >= size THEN UNCHANGED <<ret, rc>>
       ELSE Give(<<data[i + 1]>>) /\ rc' = Acquired(<<data[i + 1]>>, rc)
    /\ UNCHANGED <<data, size>>

(* The array of a call in progress is no longer what the call made of it:   *)
(* of the history only the number of items is kept.                         *)
Disturbed(j) == [j EXCEPT !.alone = FALSE, !.before = [i \in DOMAIN @ |-> Null]]

(* The script writes an item, between two calls or in a callback of one.    *)
Set(i, x) ==
    /\ "set" \in Calls /\ Done(<<"set", i, x>>)
    /\ IF job = Nothing THEN Call("set") ELSE job.op # "sort_mapped" /\ size <= MaxItems
    /\ job' = IF job = Nothing THEN job ELSE Disturbed(job)
    /\ IF i < 0 \/ i >= size THEN UNCHANGED <<data, rc>>
       ELSE /\ data' = [data EXCEPT ![i + 1] = x]
            /\ rc' = Acquired(<<x>>, Released(<<data[i + 1]>>, rc))
    /\ UNCHANGED <<size, ret, iter>>

(* Writing the properties first and last stores the item over the old one,  *)
(* whose reference is not released.                                         *)
WriteEnd(name, i, x) ==
    /\ Call(name) /\ Done(<<name, x>>)
    /\ IF size = 0 THEN UNCHANGED <<data, rc>>
       ELSE /\ data' = [data EXCEPT ![i] = x] /\ rc' = Acquired(<<x>>, rc)
            /\ \A o \in Object : Excess(o) < MaxLeaks
    /\ UNCHANGED <<size, ret>>

First(x) == WriteEnd("first=", 1, x)
LastItem(x) == WriteEnd("last=", size, x)

(* sgs_ArrayPop.                                                            *)
PopMany(n, give) ==
    /\ Call("popmany") /\ n > 0 /\ Done(<<"popmany", n, give>>)
    /\ LET taken == SubSeq(data, size - n + 1, size)
       IN  IF size < n THEN UNCHANGED <<data, size, rc, ret>>
           ELSE IF give THEN Give(taken) /\ Erase(size - n, size - 1, Acquired(taken, rc))
           ELSE Erase(size - n, size - 1, rc) /\ UNCHANGED ret

(* The script forgets what the last call gave.                              *)
Drop ==
    /\ job = Nothing /\ ret # <<>> /\ Done(<<"drop">>)
    /\ ret' = <<>> /\ rc' = Released(ret, rc)
    /\ UNCHANGED <<data, size, job, iter>>

Loop ==
    /\ "loop" \in Calls /\ job = Nothing /\ iter = Nothing /\ size <= MaxItems /\ size = Mem
    /\ Done(<<"loop">>)
    /\ iter' = [size |-> size, off |-> -1]
    /\ UNCHANGED <<data, size, rc, ret, job>>

NextItem ==
    LET off == iter.off + 1
        answer == IF iter.size # size THEN "changed" ELSE IF off < iter.size THEN "more" ELSE "end"
    IN  /\ job = Nothing /\ iter # Nothing /\ Done(<<"next", answer>>)
        /\ iter' = IF answer = "more" THEN [iter EXCEPT !.off = off] ELSE Nothing
        /\ UNCHANGED <<data, size, rc, ret, job>>

(* Read once the first step was made.                                       *)
ReadItem ==
    /\ job = Nothing /\ iter # Nothing /\ iter.off >= 0
    /\ Done(<<"read", IF iter.size # size THEN <<>> ELSE <<iter.off, data[iter.off + 1]>>>>)
    /\ UNCHANGED <<data, size, rc, ret, job, iter>>

-----------------------------------------------------------------------------
(* Calls that call back: in every step of them, the callback or a           *)
(* comparison of the script's may have written items before it answers.     *)
(* before, alone and at are histories for the abstract specification.  As a *)
(* bound, such calls and loops start on blocks without free cells, the      *)
(* calls before any reference was lost.                                     *)

Start(op, arg, extra) ==
    /\ op \in Calls /\ job = Nothing /\ iter = Nothing /\ ret = <<>> /\ size = Mem
    /\ (op = "sort" \/ size <= MaxItems) /\ \A o \in Object : Excess(o) = 0
    /\ Done(<<"start", op, arg>>)
    /\ job' = [op |-> op, arg |-> arg, before |-> Items, alone |-> TRUE, at |-> 0] @@ extra
    /\ UNCHANGED <<data, size, rc, ret, iter>>

(* sgs_quicksort: partitions still to be sorted, the one that is scanned,   *)
(* and the ranges that are sorted by insertion.                             *)
Sorting(n, limit) ==
    [limit |-> limit, stack |-> IF n <= 1 THEN <<>> ELSE <<<<0, n - 1>>>>,
     part |-> Nothing, ins |-> <<>>]

Sort(rev, consistent) ==
    \E limit \in Thresholds :
       Start("sort", [rev |-> rev, consistent |-> consistent], Sorting(size, limit))

(* Pairs of a key and a position are sorted, then the items put in place.   *)
SortMapped(keys, rev) ==
    /\ Len(keys) = size
    /\ \E limit \in Thresholds :
         Start("sort_mapped", [keys |-> keys, rev |-> rev],
               Sorting(size, limit) @@ [smis |-> [i \in 1 .. size |-> i]])

Find(x, strict, off) ==
    Start("find", [x |-> x, strict |-> strict, off |-> off], [off |-> off, count |-> 0])

(* skip: sgs_ArrayRemove of all, whose loop steps on after an item that it  *)
(* removed.  Without "remove_all" in Calls the host does not call it; with  *)
(* it Implements fails: "Remove first/all occurrence(s) of `what` in array  *)
(* `var`" (docs).  Its removal of the first item is that of the method.     *)
RemoveItems(x, strict, all, off, skip) ==
    /\ skip => "remove_all" \in Calls /\ strict /\ all /\ off = 0
    /\ Start("remove", [x |-> x, strict |-> strict, all |-> all, off |-> off, skip |-> skip],
             [off |-> off, count |-> 0])

Filter == Start("filter", 0, [off |-> 0, count |-> size])
Process == Start("process", 0, [off |-> 0, count |-> size])

Sorts == job # Nothing /\ job.op \in {"sort", "sort_mapped"}

(* compare(a, b) > 0, for C indices a and b: a comparison that is not an    *)
(* order may answer anything.                                               *)
Greater(a, b) ==
    LET key(i) == IF job.op = "sort" THEN Order[data[i + 1]] ELSE job.arg.keys[job.smis[i + 1]]
    IN  IF job.op = "sort" /\ ~ (job.arg.consistent /\ job.alone) THEN BOOLEAN
        ELSE {IF job.arg.rev THEN key(b) > key(a) ELSE key(a) > key(b)}

Swapped(cells, a, b) == [cells EXCEPT ![a + 1] = cells[b + 1], ![b + 1] = cells[a + 1]]

(* The sort goes on as next, having exchanged the cells a and b.            *)
Exchange(a, b, next) ==
    /\ IF job.op = "sort" THEN data' = Swapped(data, a, b) /\ job' = next
       ELSE job' = [next EXCEPT !.smis = Swapped(@, a, b)] /\ UNCHANGED data
    /\ Done(<<"step">>) /\ UNCHANGED <<size, rc, ret, iter>>

(* The next partition: its pivot, in the middle, goes to its end.           *)
Partition ==
    /\ Sorts /\ job.part = Nothing /\ job.ins = <<>> /\ job.stack # <<>>
    /\ LET left == Last(job.stack)[1]
           right == Last(job.stack)[2]
       IN  Exchange(left + (right - left) \div 2, right,
                    [job EXCEPT !.stack = Front(@),
                       !.part = [left |-> left, right |-> right, idx |-> left, store |-> left]])

(* An item smaller than the pivot goes to the left.                         *)
Scan ==
    /\ Sorts /\ job.part # Nothing /\ job.part.idx < job.part.right
    /\ LET p == job.part
       IN  \E greater \in Greater(p.right, p.idx) :
             IF greater
             THEN Exchange(p.idx, p.store, [job EXCEPT !.part.idx = @ + 1, !.part.store = @ + 1])
             ELSE Exchange(p.idx, p.idx, [job EXCEPT !.part.idx = @ + 1])

(* Mutant of Place: the larger side is sorted first.                        *)
PlaceLargeFirst ==
    /\ Sorts /\ job.part # Nothing /\ job.part.idx = job.part.right
    /\ LET p == job.part
           lo == <<p.left, p.store - 1>>
           hi == <<p.store + 1, p.right>>
           sides == IF p.store - p.left > p.right - p.store THEN <<hi, lo>> ELSE <<lo, hi>>
           small(r) == r[2] - r[1] + 1 <= job.limit
           large(r) == ~ small(r) /\ r[1] < r[2]
           range(r) == [lo |-> r[1], hi |-> r[2], idx |-> r[1] + 1, trail |-> r[1]]
       IN  Exchange(p.right, p.store,
                    [job EXCEPT !.part = Nothing, !.stack = @ \o SelectSeq(sides, large),
                       !.ins = [i \in DOMAIN SelectSeq(sides, small) |->
                                  range(SelectSeq(sides, small)[i])]])

(* The pivot is put between its sides.  Small sides are sorted by           *)
(* insertion; of two large ones the larger is left for later.               *)
Place ==
    /\ Sorts /\ job.part # Nothing /\ job.part.idx = job.part.right
    /\ LET p == job.part
           lo == <<p.left, p.store - 1>>
           hi == <<p.store + 1, p.right>>
           sides == IF p.store - p.left < p.right - p.store THEN <<hi, lo>> ELSE <<lo, hi>>
           small(r) == r[2] - r[1] + 1 <= job.limit
           large(r) == ~ small(r) /\ r[1] < r[2]
           range(r) == [lo |-> r[1], hi |-> r[2], idx |-> r[1] + 1, trail |-> r[1]]
       IN  Exchange(p.right, p.store,
                    [job EXCEPT !.part = Nothing, !.stack = @ \o SelectSeq(sides, large),
                       !.ins = [i \in DOMAIN SelectSeq(sides, small) |->
                                  range(SelectSeq(sides, small)[i])]])

(* Mutant of InsertItem: the range does not advance.                        *)
InsertItemStuck ==
    /\ Sorts /\ job.ins # <<>>
    /\ LET r == Head(job.ins)
           onward == [job EXCEPT !.ins = <<[r EXCEPT !.idx = @, !.trail = r.lo - 1]>> \o Tail(@)]
       IN  IF r.idx > r.hi THEN Exchange(0, 0, [job EXCEPT !.ins = Tail(@)])
           ELSE IF r.trail < r.lo THEN Exchange(0, 0, onward)
           ELSE \E greater \in Greater(r.trail, r.trail + 1) :
                  IF greater
                  THEN Exchange(r.trail, r.trail + 1,
                                [job EXCEPT !.ins = <<[r EXCEPT !.trail = @ - 1]>> \o Tail(@)])
                  ELSE Exchange(0, 0, onward)

(* Insertion of the item at idx: it moves left past the greater ones.       *)
InsertItem ==
    /\ Sorts /\ job.ins # <<>>
    /\ LET r == Head(job.ins)
           onward == [job EXCEPT !.ins = <<[r EXCEPT !.idx = @ + 1, !.trail = r.idx]>> \o Tail(@)]
       IN  IF r.idx > r.hi THEN Exchange(0, 0, [job EXCEPT !.ins = Tail(@)])
           ELSE IF r.trail < r.lo THEN Exchange(0, 0, onward)
           ELSE \E greater \in Greater(r.trail, r.trail + 1) :
                  IF greater
                  THEN Exchange(r.trail, r.trail + 1,
                                [job EXCEPT !.ins = <<[r EXCEPT !.trail = @ - 1]>> \o Tail(@)])
                  ELSE Exchange(0, 0, onward)

End(answer) == Done(<<"end", answer>>) /\ job' = Nothing /\ UNCHANGED <<size, rc, ret, iter>>

SortEnds ==
    /\ Sorts /\ job.part = Nothing /\ job.ins = <<>> /\ job.stack = <<>>
    /\ End(0)
    /\ data' = IF job.op = "sort" THEN data
               ELSE [i \in DOMAIN data |-> IF i <= size THEN data[job.smis[i]] ELSE data[i]]

Searches == job # Nothing /\ job.op \in {"find", "remove"}

(* The comparison of an item with the one that is looked for.               *)
Search ==
    /\ Searches /\ job.off < size
    /\ \E equal \in IF job.alone THEN {Same(data[job.off + 1], job.arg.x, job.arg.strict)}
                    ELSE BOOLEAN :
         IF ~ equal
         THEN /\ job' = [job EXCEPT !.off = @ + 1] /\ Done(<<"step">>)
              /\ UNCHANGED <<data, size, rc, ret, iter>>
         ELSE IF job.op = "find"
         THEN End(job.off) /\ UNCHANGED data
         ELSE /\ Erase(job.off, job.off, rc) /\ Done(<<"step">>) /\ UNCHANGED <<ret, iter>>
              /\ job' = [job EXCEPT !.count = @ + 1,
                           !.off = IF ~ job.arg.all THEN MaxItems
                                   ELSE IF job.arg.skip THEN @ + 1 ELSE @]

SearchEnds ==
    /\ Searches /\ job.off >= size
    /\ End(IF job.op = "find" THEN -1 ELSE job.count) /\ UNCHANGED data

(* array_filter keeps the items for which the callback answers yes: it      *)
(* reads the item again after the call.                                     *)
FilterItem ==
    /\ job # Nothing /\ job.op = "filter" /\ job.off < job.count /\ Done(<<"step">>)
    /\ LET x == <<data[job.off + 1]>>
       IN  \/ ret' = ret \o x /\ rc' = Acquired(x, rc)
           \/ UNCHANGED <<ret, rc>>
    /\ job' = [job EXCEPT !.off = @ + 1, !.at = @ + 1]
    /\ UNCHANGED <<data, size, iter>>

ProcessItem(x) ==
    /\ job # Nothing /\ job.op = "process" /\ job.off < job.count /\ Done(<<"step">>)
    /\ data' = [data EXCEPT ![job.off + 1] = x]
    /\ rc' = Acquired(<<x>>, Released(<<data[job.off + 1]>>, rc))
    /\ job' = [job EXCEPT !.off = @ + 1, !.at = @ + 1]
    /\ UNCHANGED <<size, ret, iter>>

FilterEnds ==
    /\ job # Nothing /\ job.op \in {"filter", "process"} /\ job.off = job.count
    /\ End(0) /\ UNCHANGED data

-----------------------------------------------------------------------------

Init ==
    /\ data \in BoundedSeq(Item, MaxItems) \cup LongArrays
    /\ size = Len(data)
    /\ rc = Acquired(data, [o \in Object |-> 1])
    /\ ret = <<>> /\ job = Nothing /\ iter = Nothing /\ last = <<"init">>

Positions == -size - 1 .. size

Plain ==
    \/ \E xs \in Arguments : Push(xs) \/ Unshift(xs) \/ New(xs)
    \/ Pop \/ Shift \/ Reversed \/ Shuffle \/ Unique
    \/ \E i \in -size - 2 .. size + 1, xs \in Arguments : InsertItems(i, xs)
    \/ \E i, j \in Positions : EraseAt(i, j)
    \/ \E i \in Positions, n \in {0, 1, 2, Huge} : Part(i, n)
    \/ \E n \in 0 .. MaxItems : Resize(n) \/ ReserveCells(n)
    \/ \E n \in 0 .. 2 : Random(n)
    \/ \E i \in Positions : Get(i)
    \/ \E x \in Item : First(x) \/ LastItem(x)
    \/ \E n \in 1 .. size + 1, give \in BOOLEAN : PopMany(n, give)
    \/ Drop \/ Loop \/ NextItem \/ ReadItem

Starts ==
    \/ \E rev, consistent \in BOOLEAN : Sort(rev, consistent)
    \/ \E keys \in [1 .. size -> {1, 2}], rev \in BOOLEAN : SortMapped(keys, rev)
    \/ \E x \in Item, strict \in BOOLEAN, off \in 0 .. 1 : Find(x, strict, off)
    \/ \E x \in Item, strict, all, skip \in BOOLEAN, off \in 0 .. 1 :
         RemoveItems(x, strict, all, off, skip)
    \/ Filter \/ Process

Step ==
    \/ Partition \/ Scan \/ Place \/ InsertItem \/ SortEnds
    \/ Search \/ SearchEnds
    \/ FilterItem \/ FilterEnds \/ \E x \in Item : ProcessItem(x)

Next ==
    \/ Plain \/ Starts \/ Step
    \/ \E i \in -1 .. size, x \in Item : Set(i, x)

(* A call goes on until it returns: the interpreter runs nothing else.      *)
Spec == Init /\ [][Next]_vars /\ WF_vars(Step)

-----------------------------------------------------------------------------

(* Cells hold items or what was left behind, never fewer than the items.    *)
TypeOK ==
    /\ data \in Seq(Item \cup {Nothing}) /\ size \in 0 .. Mem
    /\ rc \in [Object -> Nat] /\ ret \in Seq(Item)

(* Every call does to the items what its documentation says: the block with *)
(* its moves, reallocations and stale cells is a sequence, a sort with a    *)
(* consistent comparison orders it, find and remove find what they should,  *)
(* and what the callbacks of a call write changes nothing else.             *)
List == INSTANCE ItemList WITH
    list <- Items, out <- ret,
    job <- IF job = Nothing THEN Nothing
           ELSE [op |-> job.op, arg |-> job.arg, before |-> job.before,
                 alone |-> job.alone, at |-> job.at],
    pos <- IF iter = Nothing THEN Nothing ELSE [n |-> iter.size, i |-> iter.off + 1]

Implements == List!ListSpec

(* No call moves an item without its reference: what the counts have more   *)
(* than the places that hold an item changes only when first or last is     *)
(* written, which is the leak of src/sgs_std.c:670 and 699.                 *)
CountsMatch ==
    [][\/ \A o \in Object : Excess(o)' = Excess(o)
       \/ last'[1] \in {"first=", "last="}
          /\ \A o \in Object : Excess(o)' \in {Excess(o), Excess(o) + 1}]_vars

(* With any comparison, consistent or not, and whatever its callback        *)
(* writes, sgs_quicksort stays between the first and the last item, and of  *)
(* the partitions it has put aside each is at least as large as all that    *)
(* came after it: their number is below the logarithm of the size, so the   *)
(* fixed stack of src/sgs_util.c:876 suffices.                              *)
SortInside ==
    Sorts =>
      LET span(r) == r[2] - r[1] + 1
          inside(lo, hi) == 0 <= lo /\ lo <= hi /\ hi < size
          now == IF job.part = Nothing THEN 0 ELSE job.part.right - job.part.left + 1
      IN  /\ \A i \in DOMAIN job.stack :
               /\ inside(job.stack[i][1], job.stack[i][2])
               /\ span(job.stack[i]) >=
                    now + FoldSeq(LAMBDA r, n : span(r) + n, 0,
                                  SubSeq(job.stack, i + 1, Len(job.stack)))
          /\ job.part # Nothing =>
               /\ inside(job.part.left, job.part.right)
               /\ job.part.left <= job.part.store /\ job.part.store <= job.part.idx
               /\ job.part.idx <= job.part.right
          /\ \A i \in DOMAIN job.ins :
               LET r == job.ins[i]
               IN  r.lo <= r.hi => inside(r.lo, r.hi) /\ r.lo - 1 <= r.trail /\ r.trail < r.idx

(* A call ends, whatever its comparison answers.                            *)
CallEnds == job # Nothing ~> job = Nothing
=============================================================================

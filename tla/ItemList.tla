------------------------------- MODULE ItemList -------------------------------
(* What the array type of src/sgs_std.c promises (docs, array [object]): a  *)
(* sequence of items and the calls that read and change it.  A call that    *)
(* calls back into the script is a job: until it ends the script may write  *)
(* items of the array.                                                      *)
EXTENDS Integers, Sequences, SequencesExt, FiniteSetsExt, TLC

CONSTANTS Item, Null, Order, Type, Nothing

VARIABLES
    list,       \* the items
    out,        \* the items a call gave to the script
    job,        \* the call that is calling back, or Nothing
    pos,        \* a loop over the items: how many there were, how many were read
    last        \* the call that was made last, with its arguments and answer

listVars == <<list, out, job, pos, last>>

(* Are two items equal for find and remove: of equal order, and when strict *)
(* of the same type as well.                                                *)
Alike(x, y, strict) == Order[x] = Order[y] /\ (strict => Type[x] = Type[y])

(* A negative position counts from the end.                                 *)
FromEnd(i, n) == IF i < 0 THEN i + n ELSE i

Does(call) == last' = call
Keeps == UNCHANGED <<out, job, pos>>

ListPush(xs) == Does(<<"push", xs>>) /\ list' = list \o xs /\ Keeps
ListUnshift(xs) == Does(<<"unshift", xs>>) /\ list' = xs \o list /\ Keeps

ListPop ==
    /\ Does(<<"pop">>) /\ UNCHANGED <<job, pos>>
    /\ list' = IF list = <<>> THEN list ELSE Front(list)
    /\ out' = IF list = <<>> THEN out ELSE <<Last(list)>>

ListShift ==
    /\ Does(<<"shift">>) /\ UNCHANGED <<job, pos>>
    /\ list' = IF list = <<>> THEN list ELSE Tail(list)
    /\ out' = IF list = <<>> THEN out ELSE <<Head(list)>>

ListInsert(i, xs) ==
    LET at == FromEnd(i, Len(list) + 1)
    IN  /\ Does(<<"insert", i, xs>>) /\ Keeps
        /\ list' = IF at \in 0 .. Len(list)
                   THEN SubSeq(list, 1, at) \o xs \o SubSeq(list, at + 1, Len(list))
                   ELSE list

ListErase(i, j) ==
    LET a == FromEnd(i, Len(list))
        b == FromEnd(j, Len(list))
    IN  /\ Does(<<"erase", i, j>>) /\ Keeps
        /\ list' = IF 0 <= a /\ a <= b /\ b < Len(list)
                   THEN SubSeq(list, 1, a) \o SubSeq(list, b + 2, Len(list))
                   ELSE list

(* The items of the positions from .. from + count - 1 that there are.      *)
ListPart(from, count) ==
    LET a == FromEnd(from, Len(list))
        here == {i \in DOMAIN list : a < i /\ (i - 1) - a < count}
    IN  /\ Does(<<"part", from, count>>) /\ UNCHANGED <<list, job, pos>>
        /\ out' = IF here = {} THEN <<>> ELSE SubSeq(list, Min(here), Max(here))

ListReverse == Does(<<"reverse">>) /\ list' = Reverse(list) /\ Keeps

ListResize(n) ==
    /\ Does(<<"resize", n>>) /\ Keeps
    /\ list' = [i \in 1 .. n |-> IF i <= Len(list) THEN list[i] ELSE Null]

ListReserve(n) == Does(<<"reserve", n>>) /\ UNCHANGED list /\ Keeps

(* A new array replaces the old one.                                        *)
ListNew(xs) == Does(<<"array", xs>>) /\ list' = xs /\ Keeps

SameItems(xs, ys) ==
    \A x \in Item : Len(SelectSeq(xs, LAMBDA y : y = x)) = Len(SelectSeq(ys, LAMBDA y : y = x))

ListShuffle ==
    /\ Does(<<"shuffle">>) /\ Keeps
    /\ SameItems(list', list)

(* The first item of each kind, in order.                                   *)
ListUnique ==
    LET new == {i \in DOMAIN list : \A j \in 1 .. i - 1 : ~ Alike(list[j], list[i], TRUE)}
    IN  /\ Does(<<"unique">>) /\ UNCHANGED <<list, job, pos>>
        /\ out' = [k \in 1 .. Cardinality(new) |->
                     list[CHOOSE i \in new : Cardinality({j \in new : j <= i}) = k]]

ListRandom(n) ==
    /\ Does(<<"random", n>>) /\ UNCHANGED <<list, job, pos>>
    /\ Len(out') = n /\ ToSet(out') \subseteq ToSet(list)

ListGet(i) ==
    /\ Does(<<"get", i>>) /\ UNCHANGED <<list, job, pos>>
    /\ out' = IF i \in 0 .. Len(list) - 1 THEN <<list[i + 1]>> ELSE out

(* The script stores an item, from the outside or from a callback: a job    *)
(* that is under way can no longer promise anything about the whole array.  *)
Disturbed ==
    IF job = Nothing THEN job
    ELSE [job EXCEPT !.alone = FALSE, !.before = [i \in DOMAIN @ |-> Null]]

ListSet(i, x) ==
    /\ Does(<<"set", i, x>>) /\ job' = Disturbed /\ UNCHANGED <<out, pos>>
    /\ list' = IF i \in 0 .. Len(list) - 1 THEN [list EXCEPT ![i + 1] = x] ELSE list

ListFirst(x) ==
    /\ Does(<<"first=", x>>) /\ UNCHANGED <<out, job, pos>>
    /\ list' = IF list = <<>> THEN list ELSE [list EXCEPT ![1] = x]

ListLast(x) ==
    /\ Does(<<"last=", x>>) /\ UNCHANGED <<out, job, pos>>
    /\ list' = IF list = <<>> THEN list ELSE [list EXCEPT ![Len(list)] = x]

ListDrop == Does(<<"drop">>) /\ out' = <<>> /\ UNCHANGED <<list, job, pos>>

(* sgs_ArrayPop: the last n items, given to the caller or not.              *)
ListPopMany(n, give) ==
    LET k == Len(list) - n
    IN  /\ Does(<<"popmany", n, give>>) /\ UNCHANGED <<job, pos>>
        /\ list' = IF k < 0 THEN list ELSE SubSeq(list, 1, k)
        /\ out' = IF k >= 0 /\ give THEN SubSeq(list, k + 1, Len(list)) ELSE out

(* A loop over the array reads its items one after the other; it fails when *)
(* the number of items is not what it was when the loop began.              *)
ListLoop ==
    /\ Does(<<"loop">>) /\ pos' = [n |-> Len(list), i |-> 0] /\ UNCHANGED <<list, out, job>>
ListNext(answer) ==
    /\ Does(<<"next", answer>>) /\ pos # Nothing /\ UNCHANGED <<list, out, job>>
    /\ answer = IF pos.n # Len(list) THEN "changed"
                ELSE IF pos.i < pos.n THEN "more" ELSE "end"
    /\ pos' = IF answer = "more" THEN [pos EXCEPT !.i = @ + 1] ELSE Nothing
ListRead(answer) ==
    /\ Does(<<"read", answer>>) /\ UNCHANGED <<list, out, job, pos>>
    /\ answer = IF pos.n = Len(list) THEN <<pos.i - 1, list[pos.i]>> ELSE <<>>

-----------------------------------------------------------------------------

ListStart(op, arg) ==
    /\ Does(<<"start", op, arg>>) /\ job = Nothing
    /\ job' = [op |-> op, arg |-> arg, before |-> list, alone |-> TRUE, at |-> 0]
    /\ UNCHANGED <<list, out, pos>>

(* While a sort runs its items may stand in any order; a removal takes      *)
(* equal items out; array_filter gives an item or leaves it and             *)
(* array_process stores what the callback made of it, one after the other.  *)
ListStep ==
    /\ Does(<<"step">>) /\ job # Nothing
    /\ CASE job.op = "sort" ->
              SameItems(list', list) /\ UNCHANGED <<out, job, pos>>
         [] job.op = "remove" ->
              /\ UNCHANGED <<out, job, pos>>
              /\ \/ UNCHANGED list
                 \/ \E i \in DOMAIN list :
                      /\ job.alone => Alike(list[i], job.arg.x, job.arg.strict)
                      /\ list' = RemoveAt(list, i)
         [] job.op = "process" ->
              /\ UNCHANGED <<out, pos>> /\ job' = [job EXCEPT !.at = @ + 1]
              /\ \E x \in Item : list' = [list EXCEPT ![job.at + 1] = x]
         [] job.op = "filter" ->
              /\ UNCHANGED <<list, pos>> /\ job' = [job EXCEPT !.at = @ + 1]
              /\ out' \in {out, Append(out, list[job.at + 1])}
         [] OTHER -> UNCHANGED <<list, out, job, pos>>

Ordered(xs, rev) ==
    \A i, j \in DOMAIN xs : i < j => IF rev THEN Order[xs[i]] >= Order[xs[j]]
                                     ELSE Order[xs[i]] <= Order[xs[j]]

(* What the call promises when it ends and the callbacks left the array     *)
(* alone.                                                                   *)
Promised(answer) ==
    LET arg == job.arg
        Equal(xs) == {i \in DOMAIN xs : Alike(xs[i], arg.x, arg.strict)}
    IN  CASE job.op = "sort" -> arg.consistent => Ordered(list, arg.rev)
          [] job.op = "sort_mapped" ->
                \E p \in Permutations(DOMAIN list) :
                    /\ list' = [i \in DOMAIN list |-> job.before[p[i]]]
                    /\ \A i, j \in DOMAIN list : i < j =>
                         IF arg.rev THEN arg.keys[p[i]] >= arg.keys[p[j]]
                         ELSE arg.keys[p[i]] <= arg.keys[p[j]]
          [] job.op = "find" ->
                answer = IF \E i \in Equal(list) : i > arg.off
                         THEN Min({i \in Equal(list) : i > arg.off}) - 1 ELSE -1
          [] job.op = "remove" ->
                LET gone == {i \in Equal(job.before) : i > arg.off}
                    cut == IF arg.all \/ gone = {} THEN gone ELSE {Min(gone)}
                    kept == DOMAIN job.before \ cut
                IN  /\ answer = Cardinality(cut)
                    /\ list = [k \in 1 .. Cardinality(kept) |->
                         job.before[CHOOSE i \in kept :
                                      Cardinality({j \in kept : j <= i}) = k]]
          [] OTHER -> job.at = Len(job.before)

ListEnd(answer) ==
    /\ Does(<<"end", answer>>) /\ job # Nothing /\ job' = Nothing
    /\ job.alone => Promised(answer)
    /\ job.op = "sort_mapped" \/ UNCHANGED list
    /\ UNCHANGED <<out, pos>>

-----------------------------------------------------------------------------

ListInit == list \in Seq(Item) /\ out = <<>> /\ job = Nothing /\ pos = Nothing /\ last = <<"init">>

(* The call that last' names, with its arguments.                           *)
ListNextCall ==
    LET name == last'[1]
    IN  CASE name = "push" -> ListPush(last'[2])
          [] name = "unshift" -> ListUnshift(last'[2])
          [] name = "pop" -> ListPop
          [] name = "shift" -> ListShift
          [] name = "insert" -> ListInsert(last'[2], last'[3])
          [] name = "erase" -> ListErase(last'[2], last'[3])
          [] name = "part" -> ListPart(last'[2], last'[3])
          [] name = "reverse" -> ListReverse
          [] name = "resize" -> ListResize(last'[2])
          [] name = "reserve" -> ListReserve(last'[2])
          [] name = "array" -> ListNew(last'[2])
          [] name = "shuffle" -> ListShuffle
          [] name = "unique" -> ListUnique
          [] name = "random" -> ListRandom(last'[2])
          [] name = "get" -> ListGet(last'[2])
          [] name = "set" -> ListSet(last'[2], last'[3])
          [] name = "first=" -> ListFirst(last'[2])
          [] name = "last=" -> ListLast(last'[2])
          [] name = "popmany" -> ListPopMany(last'[2], last'[3])
          [] name = "drop" -> ListDrop
          [] name = "loop" -> ListLoop
          [] name = "next" -> ListNext(last'[2])
          [] name = "read" -> ListRead(last'[2])
          [] name = "start" -> ListStart(last'[2], last'[3])
          [] name = "step" -> ListStep
          [] name = "end" -> ListEnd(last'[2])

ListSpec == ListInit /\ [][ListNextCall]_listVars
=============================================================================

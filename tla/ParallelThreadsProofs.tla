------------------------ MODULE ParallelThreadsProofs ------------------------
(***************************************************************************)
(* What ParallelThreads promises for every set of keys, values and         *)
(* scripts: the variables keep their types, the worker never outlives its  *)
(* thread object, and the map that the two threads share implements        *)
(* SharedMap, in which every operation happens at one moment.              *)
(***************************************************************************)
EXTENDS ParallelThreads, TLAPS

---------------------------------------------------------------------------
(* The inductive invariant.                                                *)

(* The program points at which THR->mutex is held.                         *)
Critical == {"inside", "set", "store", "link", "spawn", "assign", "unlock",
             "done", "leave"}

MutexOK == \A a \in Actor : thr.mutex = a <=> call[a].at \in Critical

(* Where each of the threads can be at all.                                *)
Shared == {"script", "lock", "inside", "set", "store", "link", "unlock", "return"}
PlacesOK ==
    /\ call["main"].at \in Shared \cup {"spawn", "assign", "join", "reap", "destroy"}
    /\ call["worker"].at \in Shared \cup {"off", "boot", "close", "ending", "done", "leave"}

(* What a call knows of itself at each point.                              *)
CallOK(c) ==
    /\ c.at \in {"script", "off", "boot", "reap", "destroy", "close", "ending",
                 "done", "leave"} => c.op = "none"
    /\ c.at = "join" => c.op = "wait"
    /\ c.at \in {"lock", "inside", "unlock"} => c.op \in MapOps \cup {"start"}
    /\ c.at \in {"set", "store", "link"} => c.op \in {"set", "set_if"} /\ c.ret = "true"
    /\ c.at \in {"spawn", "assign"} => c.op = "start"
    /\ c.op \in MapOps => c.key \in Key
    /\ c.op \in {"set", "set_if"} => c.val \in Value
    /\ c.op = "set_if" => c.old \in Value

CallsOK == \A a \in Actor : CallOK(call[a])

(* A set knows what it replaces: nothing changes the map behind its back.  *)
ItemsOK ==
    \A a \in Actor :
        LET c == call[a]
        IN  /\ c.at \in {"set", "link"} /\ c.op = "set_if" => items[c.key] = c.old
            /\ c.at = "link" => c.rest = items /\ items[c.key] = None

(* The thread object, its state and the operating system agree on whether  *)
(* there is a worker.                                                      *)
LifeOK ==
    /\ call["main"].at # "script" => thr.live
    /\ call["worker"].at # "off" => thr.live
    /\ call["worker"].at \notin {"off", "leave"} => thr.state = "RUNNING"
    /\ call["worker"].at # "off" <=> os = "running"
    /\ thr.live /\ thr.thread = "main" => os = "none" \/ call["main"].at = "assign"
    /\ call["main"].at \in {"spawn", "assign"} => thr.thread = "main"
    /\ call["main"].at = "spawn" => thr.state = "RUNNING"
    /\ call["main"].at = "destroy" => call["worker"].at = "off"

IInv == TypeOK /\ MutexOK /\ PlacesOK /\ CallsOK /\ ItemsOK /\ LifeOK

---------------------------------------------------------------------------
(* How a call moves.                                                       *)

(* The other thread stays where it is.                                     *)
OthersStay(a) == \A b \in Actor : b # a => call'[b] = call[b]

(* Only the program point and the answer of a's call change.               *)
Moved(a, at, ret) ==
    /\ call' \in [Actor -> Call]
    /\ call'[a].at = at /\ call'[a].ret = ret
    /\ call'[a].op = call[a].op /\ call'[a].key = call[a].key
    /\ call'[a].val = call[a].val /\ call'[a].old = call[a].old
    /\ call'[a].rest = call[a].rest
    /\ OthersStay(a)

LEMMA GoesMoves ==
    ASSUME TypeOK, NEW a \in Actor, NEW at \in At, Goes(a, at)
    PROVE  Moved(a, at, call[a].ret)
BY DEF TypeOK, Goes, Moved, OthersStay, Call

LEMMA AnswersMoves ==
    ASSUME TypeOK, NEW a \in Actor, NEW at \in At, NEW ret,
           ret \in Data \cup {"true", "false", "INIT", "RUNNING", "DONE"},
           Answers(a, at, ret)
    PROVE  Moved(a, at, ret)
BY DEF TypeOK, Answers, Moved, OthersStay, Call
LEMMA OutsideIsCall == \A at \in At : Outside(at) \in Call
BY DEF Outside, Call, Data, Empty

(* a's call is another one.                                                *)
Became(a, c) == call' \in [Actor -> Call] /\ call'[a] = c /\ OthersStay(a)

LEMMA Becomes ==
    ASSUME TypeOK, NEW a \in Actor, NEW c \in Call, call' = [call EXCEPT ![a] = c]
    PROVE  Became(a, c)
BY DEF TypeOK, Became, OthersStay

LEMMA LockKeeps ==
    ASSUME IInv, NEW a \in Actor, Lock(a)
    PROVE  IInv'
<1>1. Moved(a, "inside", call[a].ret)
  BY GoesMoves DEF IInv, Lock, At
<1>2. TypeOK'
  BY <1>1 DEF IInv, TypeOK, Moved, Lock, Thread
<1>3. MutexOK'
  BY <1>1, ValueAssumption
     DEF IInv, Moved, OthersStay, Lock, MutexOK, Critical, Actor
<1>4. PlacesOK'
  BY <1>1 DEF IInv, Moved, OthersStay, PlacesOK, Shared, Actor
<1>5. CallsOK'
  BY <1>1 DEF IInv, Moved, OthersStay, Lock, CallsOK, CallOK
<1>6. ItemsOK'
  BY <1>1 DEF IInv, Moved, OthersStay, Lock, ItemsOK
<1>7. LifeOK'
  BY <1>1 DEF IInv, Moved, OthersStay, Lock, LifeOK, Actor
<1>9. QED  BY <1>2, <1>3, <1>4, <1>5, <1>6, <1>7 DEF IInv

LEMMA SetKeeps ==
    ASSUME IInv, NEW a \in Actor, Set(a)
    PROVE  IInv'
<1>1. Moved(a, "set", "true")
  BY AnswersMoves DEF IInv, Set, At
<1>2. TypeOK'
  BY <1>1 DEF IInv, TypeOK, Moved, Set
<1>3. MutexOK'
  BY <1>1 DEF IInv, Moved, OthersStay, Set, Inside, MutexOK, Critical
<1>4. PlacesOK'
  BY <1>1 DEF IInv, Moved, OthersStay, PlacesOK, Shared, Actor
<1>5. CallsOK'
  BY <1>1 DEF IInv, Moved, OthersStay, Set, Inside, CallsOK, CallOK
<1>6. ItemsOK'
  BY <1>1 DEF IInv, Moved, OthersStay, Set, Inside, ItemsOK
<1>7. LifeOK'
  BY <1>1 DEF IInv, Moved, OthersStay, Set, Inside, LifeOK, Actor
<1>9. QED  BY <1>2, <1>3, <1>4, <1>5, <1>6, <1>7 DEF IInv

LEMMA ReplaceKeeps ==
    ASSUME IInv, NEW a \in Actor, Replace(a)
    PROVE  IInv'
<1>1. Moved(a, "store", call[a].ret)
  BY GoesMoves DEF IInv, Replace, At
<1>2. TypeOK'
  BY <1>1 DEF IInv, TypeOK, Moved, Replace, Data
<1>3. MutexOK'
  BY <1>1 DEF IInv, Moved, OthersStay, Replace, MutexOK, Critical
<1>4. PlacesOK'
  BY <1>1 DEF IInv, Moved, OthersStay, PlacesOK, Shared, Actor
<1>5. CallsOK'
  BY <1>1 DEF IInv, Moved, OthersStay, Replace, CallsOK, CallOK
<1>6. ItemsOK'
  BY <1>1 DEF IInv, Moved, OthersStay, Replace, ItemsOK, MutexOK, Critical
<1>7. LifeOK'
  BY <1>1 DEF IInv, Moved, OthersStay, Replace, LifeOK, Actor
<1>9. QED  BY <1>2, <1>3, <1>4, <1>5, <1>6, <1>7 DEF IInv

LEMMA StoreKeeps ==
    ASSUME IInv, NEW a \in Actor, Store(a)
    PROVE  IInv'
<1>1. Moved(a, "unlock", call[a].ret)
  BY GoesMoves DEF IInv, Store, At
<1>2. TypeOK'
  BY <1>1 DEF IInv, TypeOK, Moved, Store, Data, Call
<1>3. MutexOK'
  BY <1>1 DEF IInv, Moved, OthersStay, Store, MutexOK, Critical
<1>4. PlacesOK'
  BY <1>1 DEF IInv, Moved, OthersStay, PlacesOK, Shared, Actor
<1>5. CallsOK'
  BY <1>1 DEF IInv, Moved, OthersStay, Store, CallsOK, CallOK, MapOps
<1>6. ItemsOK'
  BY <1>1 DEF IInv, Moved, OthersStay, Store, ItemsOK, MutexOK, Critical
<1>7. LifeOK'
  BY <1>1 DEF IInv, Moved, OthersStay, Store, LifeOK, Actor
<1>9. QED  BY <1>2, <1>3, <1>4, <1>5, <1>6, <1>7 DEF IInv

LEMMA LinkKeeps ==
    ASSUME IInv, NEW a \in Actor, Link(a)
    PROVE  IInv'
<1>1. Moved(a, "unlock", call[a].ret)
  BY GoesMoves DEF IInv, Link, At
<1>2. TypeOK'
  BY <1>1 DEF IInv, TypeOK, Moved, Link, Data, Call
<1>3. MutexOK'
  BY <1>1 DEF IInv, Moved, OthersStay, Link, MutexOK, Critical
<1>4. PlacesOK'
  BY <1>1 DEF IInv, Moved, OthersStay, PlacesOK, Shared, Actor
<1>5. CallsOK'
  BY <1>1 DEF IInv, Moved, OthersStay, Link, CallsOK, CallOK, MapOps
<1>6. ItemsOK'
  BY <1>1 DEF IInv, Moved, OthersStay, Link, ItemsOK, MutexOK, Critical
<1>7. LifeOK'
  BY <1>1 DEF IInv, Moved, OthersStay, Link, LifeOK, Actor
<1>9. QED  BY <1>2, <1>3, <1>4, <1>5, <1>6, <1>7 DEF IInv

LEMMA UnlockKeeps ==
    ASSUME IInv, NEW a \in Actor, Unlock(a)
    PROVE  IInv'
<1>1. Moved(a, "return", call[a].ret)
  BY GoesMoves DEF IInv, Unlock, At
<1>2. TypeOK'
  BY <1>1 DEF IInv, TypeOK, Moved, Unlock, Thread
<1>3. MutexOK'
  BY <1>1, ValueAssumption
     DEF IInv, Moved, OthersStay, Unlock, MutexOK, Critical, Actor
<1>4. PlacesOK'
  BY <1>1 DEF IInv, Moved, OthersStay, PlacesOK, Shared, Actor
<1>5. CallsOK'
  BY <1>1 DEF IInv, Moved, OthersStay, CallsOK, CallOK
<1>6. ItemsOK'
  BY <1>1 DEF IInv, Moved, OthersStay, Unlock, ItemsOK
<1>7. LifeOK'
  BY <1>1 DEF IInv, Moved, OthersStay, Unlock, LifeOK, Actor
<1>9. QED  BY <1>2, <1>3, <1>4, <1>5, <1>6, <1>7 DEF IInv

LEMMA AssignKeeps ==
    ASSUME IInv, NEW a \in Actor, Assign(a)
    PROVE  IInv'
<1>1. Moved(a, "unlock", call[a].ret)
  BY GoesMoves DEF IInv, Assign, At
<1>2. TypeOK'
  BY <1>1 DEF IInv, TypeOK, Moved, Assign, Thread, Actor
<1>3. MutexOK'
  BY <1>1 DEF IInv, Moved, OthersStay, Assign, MutexOK, Critical
<1>4. PlacesOK'
  BY <1>1 DEF IInv, Moved, OthersStay, PlacesOK, Shared, Actor
<1>5. CallsOK'
  BY <1>1 DEF IInv, Moved, OthersStay, Assign, CallsOK, CallOK
<1>6. ItemsOK'
  BY <1>1 DEF IInv, Moved, OthersStay, Assign, ItemsOK
<1>7. LifeOK'
  BY <1>1 DEF IInv, Moved, OthersStay, Assign, LifeOK, MutexOK, Critical, Actor
<1>9. QED  BY <1>2, <1>3, <1>4, <1>5, <1>6, <1>7 DEF IInv

LEMMA JoinKeeps ==
    ASSUME IInv, Join
    PROVE  IInv'
<1>1. Moved("main", "return", call["main"].ret)
  BY GoesMoves DEF IInv, Join, At, Actor
<1>2. TypeOK'
  BY <1>1 DEF IInv, TypeOK, Moved, Join
<1>3. MutexOK'
  BY <1>1 DEF IInv, Moved, OthersStay, Join, MutexOK, Critical
<1>4. PlacesOK'
  BY <1>1 DEF IInv, Moved, OthersStay, PlacesOK, Shared, Actor
<1>5. CallsOK'
  BY <1>1 DEF IInv, Moved, OthersStay, CallsOK, CallOK
<1>6. ItemsOK'
  BY <1>1 DEF IInv, Moved, OthersStay, Join, ItemsOK
<1>7. LifeOK'
  BY <1>1 DEF IInv, Moved, OthersStay, Join, LifeOK, Actor
<1>9. QED  BY <1>2, <1>3, <1>4, <1>5, <1>6, <1>7 DEF IInv

LEMMA ReapKeeps ==
    ASSUME IInv, Reap
    PROVE  IInv'
<1>1. Moved("main", "destroy", call["main"].ret)
  BY GoesMoves DEF IInv, Reap, At, Actor
<1>2. TypeOK'
  BY <1>1 DEF IInv, TypeOK, Moved, Reap
<1>3. MutexOK'
  BY <1>1 DEF IInv, Moved, OthersStay, Reap, MutexOK, Critical
<1>4. PlacesOK'
  BY <1>1 DEF IInv, Moved, OthersStay, PlacesOK, Actor
<1>5. CallsOK'
  BY <1>1 DEF IInv, Moved, OthersStay, Reap, CallsOK, CallOK
<1>6. ItemsOK'
  BY <1>1 DEF IInv, Moved, OthersStay, Reap, ItemsOK
<1>7. LifeOK'
  BY <1>1 DEF IInv, Moved, OthersStay, Reap, LifeOK, Actor
<1>9. QED  BY <1>2, <1>3, <1>4, <1>5, <1>6, <1>7 DEF IInv

LEMMA DestroyThreadKeeps ==
    ASSUME IInv, DestroyThread
    PROVE  IInv'
<1>1. Moved("main", "script", call["main"].ret)
  BY GoesMoves DEF IInv, DestroyThread, At, Actor
<1>2. TypeOK'
  BY <1>1
     DEF IInv, TypeOK, Moved, DestroyThread, NoThread, Empty, Thread, Data,
         Actor
<1>3. MutexOK'
  BY <1>1, ValueAssumption
     DEF IInv, Moved, OthersStay, DestroyThread, NoThread, MutexOK, Critical,
         LifeOK, Actor
<1>4. PlacesOK'
  BY <1>1 DEF IInv, Moved, OthersStay, PlacesOK, Shared, Actor
<1>5. CallsOK'
  BY <1>1 DEF IInv, Moved, OthersStay, DestroyThread, CallsOK, CallOK
<1>6. ItemsOK'
  BY <1>1 DEF IInv, Moved, OthersStay, DestroyThread, ItemsOK, LifeOK, Actor
<1>7. LifeOK'
  BY <1>1 DEF IInv, Moved, OthersStay, DestroyThread, NoThread, LifeOK, Actor
<1>9. QED  BY <1>2, <1>3, <1>4, <1>5, <1>6, <1>7 DEF IInv

LEMMA BootKeeps ==
    ASSUME IInv, Boot
    PROVE  IInv'
<1>1. Moved("worker", "script", call["worker"].ret)
  BY GoesMoves DEF IInv, Boot, At, Actor
<1>2. TypeOK'
  BY <1>1 DEF IInv, TypeOK, Moved, Boot
<1>3. MutexOK'
  BY <1>1 DEF IInv, Moved, OthersStay, Boot, MutexOK, Critical
<1>4. PlacesOK'
  BY <1>1 DEF IInv, Moved, OthersStay, PlacesOK, Shared, Actor
<1>5. CallsOK'
  BY <1>1 DEF IInv, Moved, OthersStay, Boot, CallsOK, CallOK
<1>6. ItemsOK'
  BY <1>1 DEF IInv, Moved, OthersStay, Boot, ItemsOK
<1>7. LifeOK'
  BY <1>1 DEF IInv, Moved, OthersStay, Boot, LifeOK, Actor
<1>9. QED  BY <1>2, <1>3, <1>4, <1>5, <1>6, <1>7 DEF IInv

LEMMA CodeEndsKeeps ==
    ASSUME IInv, CodeEnds
    PROVE  IInv'
<1>1. Moved("worker", "close", call["worker"].ret)
  BY GoesMoves DEF IInv, CodeEnds, At, Actor
<1>2. TypeOK'
  BY <1>1 DEF IInv, TypeOK, Moved, CodeEnds
<1>3. MutexOK'
  BY <1>1 DEF IInv, Moved, OthersStay, CodeEnds, MutexOK, Critical
<1>4. PlacesOK'
  BY <1>1 DEF IInv, Moved, OthersStay, PlacesOK, Actor
<1>5. CallsOK'
  BY <1>1 DEF IInv, Moved, OthersStay, CodeEnds, CallsOK, CallOK
<1>6. ItemsOK'
  BY <1>1 DEF IInv, Moved, OthersStay, CodeEnds, ItemsOK
<1>7. LifeOK'
  BY <1>1 DEF IInv, Moved, OthersStay, CodeEnds, LifeOK, Actor
<1>9. QED  BY <1>2, <1>3, <1>4, <1>5, <1>6, <1>7 DEF IInv

LEMMA CloseEngineKeeps ==
    ASSUME IInv, CloseEngine
    PROVE  IInv'
<1>1. Moved("worker", "ending", call["worker"].ret)
  BY GoesMoves DEF IInv, CloseEngine, At, Actor
<1>2. TypeOK'
  BY <1>1 DEF IInv, TypeOK, Moved, CloseEngine
<1>3. MutexOK'
  BY <1>1 DEF IInv, Moved, OthersStay, CloseEngine, MutexOK, Critical
<1>4. PlacesOK'
  BY <1>1 DEF IInv, Moved, OthersStay, PlacesOK, Actor
<1>5. CallsOK'
  BY <1>1 DEF IInv, Moved, OthersStay, CloseEngine, CallsOK, CallOK
<1>6. ItemsOK'
  BY <1>1 DEF IInv, Moved, OthersStay, CloseEngine, ItemsOK
<1>7. LifeOK'
  BY <1>1 DEF IInv, Moved, OthersStay, CloseEngine, LifeOK, Actor
<1>9. QED  BY <1>2, <1>3, <1>4, <1>5, <1>6, <1>7 DEF IInv

LEMMA LockEndKeeps ==
    ASSUME IInv, LockEnd
    PROVE  IInv'
<1>1. Moved("worker", "done", call["worker"].ret)
  BY GoesMoves DEF IInv, LockEnd, At, Actor
<1>2. TypeOK'
  BY <1>1 DEF IInv, TypeOK, Moved, OthersStay, LockEnd, Thread
<1>3. MutexOK'
  BY <1>1, ValueAssumption
     DEF IInv, Moved, OthersStay, LockEnd, MutexOK, Critical, Actor
<1>4. PlacesOK'
  BY <1>1 DEF IInv, Moved, OthersStay, PlacesOK, Actor
<1>5. CallsOK'
  BY <1>1 DEF IInv, Moved, OthersStay, LockEnd, CallsOK, CallOK
<1>6. ItemsOK'
  BY <1>1 DEF IInv, Moved, OthersStay, LockEnd, ItemsOK
<1>7. LifeOK'
  BY <1>1 DEF IInv, Moved, OthersStay, LockEnd, LifeOK, Actor
<1>9. QED  BY <1>2, <1>3, <1>4, <1>5, <1>6, <1>7 DEF IInv

LEMMA SetDoneKeeps ==
    ASSUME IInv, SetDone
    PROVE  IInv'
<1>1. Moved("worker", "leave", call["worker"].ret)
  BY GoesMoves DEF IInv, SetDone, At, Actor
<1>2. TypeOK'
  BY <1>1 DEF IInv, TypeOK, Moved, SetDone, Thread
<1>3. MutexOK'
  BY <1>1 DEF IInv, Moved, OthersStay, SetDone, MutexOK, Critical
<1>4. PlacesOK'
  BY <1>1 DEF IInv, Moved, OthersStay, PlacesOK, Actor
<1>5. CallsOK'
  BY <1>1 DEF IInv, Moved, OthersStay, SetDone, CallsOK, CallOK
<1>6. ItemsOK'
  BY <1>1 DEF IInv, Moved, OthersStay, SetDone, ItemsOK
<1>7. LifeOK'
  BY <1>1 DEF IInv, Moved, OthersStay, SetDone, LifeOK, Actor
<1>9. QED  BY <1>2, <1>3, <1>4, <1>5, <1>6, <1>7 DEF IInv

LEMMA BeginKeeps ==
    ASSUME IInv, NEW a \in Actor, NEW op, NEW k, NEW v, NEW w,
           op \in MapOps \cup {"start"}, k \in Key \cup {None},
           v \in Value \cup {None}, w \in Value \cup {None},
           op \in MapOps => k \in Key, op \in {"set", "set_if"} => v \in Value,
           op = "set_if" => w \in Value, Begin(a, op, k, v, w)
    PROVE  IInv'
<1>0. [Outside("lock") EXCEPT !.op = op, !.key = k, !.val = v, !.old = w] \in Call
  BY DEF Outside, Call, At, Data, Empty, MapOps
<1>1. Became(a, [Outside("lock") EXCEPT !.op = op, !.key = k, !.val = v, !.old = w])
  BY <1>0, Becomes DEF IInv, Begin
<1>2. TypeOK'
  BY <1>1 DEF IInv, TypeOK, Begin, Became
<1>3. MutexOK'
  BY DEF IInv, Outside, Begin, MutexOK, Critical
<1>4. PlacesOK'
  BY DEF IInv, Outside, Begin, PlacesOK, Shared
<1>5. CallsOK'
  BY DEF IInv, Outside, Begin, CallsOK, CallOK
<1>6. ItemsOK'
  BY DEF IInv, Outside, Begin, ItemsOK
<1>7. LifeOK'
  BY DEF IInv, Outside, Begin, LifeOK
<1>9. QED  BY <1>2, <1>3, <1>4, <1>5, <1>6, <1>7 DEF IInv

LEMMA ReturnKeeps ==
    ASSUME IInv, NEW a \in Actor, Return(a)
    PROVE  IInv'
<1>1. Became(a, Outside("script"))
  BY OutsideIsCall, Becomes DEF IInv, Return, At
<1>2. TypeOK'
  BY <1>1 DEF IInv, TypeOK, Return, Became
<1>3. MutexOK'
  BY DEF IInv, Outside, Return, MutexOK, Critical
<1>4. PlacesOK'
  BY DEF IInv, Outside, Return, PlacesOK, Shared
<1>5. CallsOK'
  BY DEF IInv, Outside, Return, CallsOK, CallOK, MapOps
<1>6. ItemsOK'
  BY DEF IInv, Outside, Return, ItemsOK
<1>7. LifeOK'
  BY DEF IInv, Outside, Return, LifeOK
<1>9. QED  BY <1>2, <1>3, <1>4, <1>5, <1>6, <1>7 DEF IInv

LEMMA WaitKeeps ==
    ASSUME IInv, NEW a \in Actor, Wait(a)
    PROVE  IInv'
<1> DEFINE there == IF thr.thread # "main" /\ a = "main" THEN "join" ELSE "return"
<1> DEFINE next == [Outside(there) EXCEPT !.op = "wait", !.ret = Bool(thr.thread # "main")]
<1>0. next \in Call
  BY DEF Outside, Call, At, Data, Empty, Bool
<1>1. Became(a, next)
  BY <1>0, Becomes DEF IInv, Wait
<1>2. TypeOK'
  BY <1>1 DEF IInv, TypeOK, Wait, Became
<1>3. MutexOK'
  BY DEF IInv, Outside, Wait, MutexOK, Critical
<1>4. PlacesOK'
  BY DEF IInv, Outside, Wait, PlacesOK, Shared
<1>5. CallsOK'
  BY DEF IInv, Outside, Wait, CallsOK, CallOK, MapOps
<1>6. ItemsOK'
  BY DEF IInv, Outside, Wait, ItemsOK
<1>7. LifeOK'
  BY DEF IInv, Outside, Wait, LifeOK
<1>9. QED  BY <1>2, <1>3, <1>4, <1>5, <1>6, <1>7 DEF IInv

LEMMA StateKeeps ==
    ASSUME IInv, NEW a \in Actor, State(a)
    PROVE  IInv'
<1>0. [Outside("return") EXCEPT !.op = "state", !.ret = thr.state] \in Call
  BY DEF IInv, TypeOK, Thread, Outside, Call, At, Data, Empty
<1>1. Became(a, [Outside("return") EXCEPT !.op = "state", !.ret = thr.state])
  BY <1>0, Becomes DEF IInv, State
<1>2. TypeOK'
  BY <1>1 DEF IInv, TypeOK, State, Became
<1>3. MutexOK'
  BY DEF IInv, Outside, State, MutexOK, Critical
<1>4. PlacesOK'
  BY DEF IInv, Outside, State, PlacesOK, Shared
<1>5. CallsOK'
  BY DEF IInv, Outside, State, CallsOK, CallOK, MapOps
<1>6. ItemsOK'
  BY DEF IInv, Outside, State, ItemsOK
<1>7. LifeOK'
  BY DEF IInv, Outside, State, LifeOK
<1>9. QED  BY <1>2, <1>3, <1>4, <1>5, <1>6, <1>7 DEF IInv

LEMMA LeaveKeeps ==
    ASSUME IInv, Leave
    PROVE  IInv'
<1>1. Became("worker", Outside("off"))
  BY OutsideIsCall, Becomes DEF IInv, Leave, At, Actor
<1>2. TypeOK'
  BY <1>1 DEF IInv, TypeOK, Leave, Became, Thread
<1>3. MutexOK'
  BY <1>1, ValueAssumption
     DEF IInv, Outside, Leave, Became, MutexOK, Critical, Actor
<1>4. PlacesOK'
  BY DEF IInv, Outside, Leave, PlacesOK
<1>5. CallsOK'
  BY DEF IInv, Outside, Leave, CallsOK, CallOK, MapOps
<1>6. ItemsOK'
  BY DEF IInv, Outside, Leave, ItemsOK
<1>7. LifeOK'
  BY <1>1 DEF IInv, Outside, Leave, Became, LifeOK
<1>9. QED  BY <1>2, <1>3, <1>4, <1>5, <1>6, <1>7 DEF IInv

LEMMA CreateKeeps ==
    ASSUME IInv, Create
    PROVE  IInv'
<1>1. UNCHANGED call  BY DEF Create
<1>2. TypeOK'
  BY DEF IInv, TypeOK, OthersStay, Outside, Create, NoThread, Empty, Thread,
         Data, Actor
<1>3. MutexOK'
  BY ValueAssumption
     DEF IInv, Create, NoThread, MutexOK, Critical, LifeOK, Actor
<1>4. PlacesOK'
  BY <1>1 DEF IInv, PlacesOK
<1>5. CallsOK'
  BY <1>1 DEF IInv, CallsOK
<1>6. ItemsOK'
  BY DEF IInv, Create, ItemsOK, LifeOK, Actor
<1>7. LifeOK'
  BY DEF IInv, Create, LifeOK
<1>9. QED  BY <1>2, <1>3, <1>4, <1>5, <1>6, <1>7 DEF IInv

LEMMA ReadKeeps ==
    ASSUME IInv, NEW a \in Actor, Read(a)
    PROVE  IInv'
<1> DEFINE found == items[call[a].key]
<1> DEFINE ret == IF call[a].op = "has" THEN Bool(found # None) ELSE found
<1>0. ret \in Data \cup {"true", "false"} /\ Answers(a, "unlock", ret)
  BY DEF IInv, TypeOK, CallsOK, CallOK, Read, Inside, Bool
<1>1. Moved(a, "unlock", ret)
  BY <1>0, AnswersMoves DEF IInv, At
<1>2. TypeOK'
  BY <1>1 DEF IInv, TypeOK, Read, Moved
<1>3. MutexOK'
  BY <1>1 DEF IInv, OthersStay, Read, Inside, Moved, MutexOK, Critical
<1>4. PlacesOK'
  BY <1>1 DEF IInv, OthersStay, Moved, PlacesOK, Shared, Actor
<1>5. CallsOK'
  BY <1>1 DEF IInv, OthersStay, Read, Inside, Moved, CallsOK, CallOK
<1>6. ItemsOK'
  BY <1>1 DEF IInv, OthersStay, Read, Moved, ItemsOK
<1>7. LifeOK'
  BY <1>1 DEF IInv, OthersStay, Read, Inside, Moved, LifeOK, Actor
<1>9. QED  BY <1>2, <1>3, <1>4, <1>5, <1>6, <1>7 DEF IInv

LEMMA SetIfKeeps ==
    ASSUME IInv, NEW a \in Actor, SetIf(a)
    PROVE  IInv'
<1> DEFINE found == items[call[a].key]
<1>1. \/ found = call[a].old /\ Moved(a, "set", "true")
      \/ found # call[a].old /\ Moved(a, "unlock", IF found = None THEN None ELSE "false")
  <2>1. CASE found = call[a].old
    BY <2>1, AnswersMoves DEF IInv, SetIf, At
  <2>2. CASE found # call[a].old
    <3>1. (IF found = None THEN None ELSE "false") \in Data \cup {"true", "false"}
      BY DEF Data
    <3>2. QED  BY <3>1, AnswersMoves DEF IInv, SetIf, At
  <2>3. QED  BY <2>1, <2>2
<1>2. TypeOK'
  BY <1>1 DEF IInv, TypeOK, SetIf, Moved
<1>3. MutexOK'
  BY <1>1 DEF IInv, OthersStay, SetIf, Inside, Moved, MutexOK, Critical
<1>4. PlacesOK'
  BY <1>1 DEF IInv, OthersStay, Moved, PlacesOK, Shared, Actor
<1>5. CallsOK'
  BY <1>1 DEF IInv, OthersStay, SetIf, Inside, Moved, CallsOK, CallOK
<1>6. ItemsOK'
  BY <1>1 DEF IInv, OthersStay, SetIf, Moved, ItemsOK
<1>7. LifeOK'
  BY <1>1 DEF IInv, OthersStay, SetIf, Inside, Moved, LifeOK, Actor
<1>9. QED  BY <1>2, <1>3, <1>4, <1>5, <1>6, <1>7 DEF IInv

LEMMA StartKeeps ==
    ASSUME IInv, NEW a \in Actor, Start(a)
    PROVE  IInv'
<1>1. \/ UNCHANGED thr /\ Moved(a, "unlock", "false")
      \/ /\ a = "main" /\ thr.thread = "main" /\ thr.state # "RUNNING"
         /\ thr' = [thr EXCEPT !.state = "RUNNING"] /\ Moved(a, "spawn", "true")
  BY AnswersMoves DEF IInv, LifeOK, Actor, Start, Inside, At
<1>2. TypeOK'
  BY <1>1 DEF IInv, TypeOK, Start, Inside, Moved, Thread, Data
<1>3. MutexOK'
  BY <1>1
     DEF IInv, TypeOK, OthersStay, Outside, Start, Thread, Inside, Moved,
         MutexOK, Critical
<1>4. PlacesOK'
  BY <1>1 DEF IInv, OthersStay, Moved, PlacesOK, Shared, Actor
<1>5. CallsOK'
  BY <1>1 DEF IInv, OthersStay, Start, Inside, Moved, CallsOK, CallOK
<1>6. ItemsOK'
  BY <1>1 DEF IInv, OthersStay, Start, Moved, ItemsOK
<1>7. LifeOK'
  BY <1>1
     DEF IInv, TypeOK, OthersStay, Outside, Start, Thread, Inside, Moved,
         LifeOK, Actor
<1>9. QED  BY <1>2, <1>3, <1>4, <1>5, <1>6, <1>7 DEF IInv

LEMMA PrependKeeps ==
    ASSUME IInv, NEW a \in Actor, Prepend(a)
    PROVE  IInv'
<1>0. [call[a] EXCEPT !.at = "link", !.rest = items] \in Call
  <2>1. call[a] \in Call /\ "link" \in At /\ items \in [Key -> Data]
    BY DEF IInv, TypeOK, At
  <2>2. QED  BY <2>1 DEF Call
<1>1. Became(a, [call[a] EXCEPT !.at = "link", !.rest = items])
  BY <1>0, Becomes DEF IInv, Prepend
<1>2. TypeOK'
  BY <1>1 DEF IInv, TypeOK, Prepend, Became
<1>3. MutexOK'
  BY DEF IInv, Prepend, MutexOK, Critical
<1>4. PlacesOK'
  BY DEF IInv, Prepend, PlacesOK, Shared
<1>5. CallsOK'
  BY DEF IInv, Prepend, CallsOK, CallOK
<1>6. ItemsOK'
  BY DEF IInv, Prepend, ItemsOK
<1>7. LifeOK'
  BY DEF IInv, Prepend, LifeOK
<1>9. QED  BY <1>2, <1>3, <1>4, <1>5, <1>6, <1>7 DEF IInv

LEMMA SpawnKeeps ==
    ASSUME IInv, NEW a \in Actor, Spawn(a)
    PROVE  IInv'
<1>0. a = "main"
  BY DEF IInv, PlacesOK, Shared, Spawn, Actor
<1>1. /\ call' \in [Actor -> Call] /\ a = "main"
      /\ call'["main"] = [call["main"] EXCEPT !.at = "assign"]
      /\ call'["worker"] = Outside("boot")
  <2>1. [call["main"] EXCEPT !.at = "assign"] \in Call /\ Outside("boot") \in Call
    <3>1. "assign" \in At /\ "boot" \in At /\ call["main"] \in Call
      BY DEF IInv, TypeOK, Actor, At
    <3>2. QED  BY <3>1, OutsideIsCall DEF Call
  <2>2. call' = [call EXCEPT !["main"] = [call["main"] EXCEPT !.at = "assign"],
                             !["worker"] = Outside("boot")]
    BY <1>0 DEF Spawn
  <2>3. QED  BY <1>0, <2>1, <2>2 DEF IInv, TypeOK, Actor
<1>2. TypeOK'
  BY <1>1 DEF IInv, TypeOK, OthersStay, Spawn
<1>3. MutexOK'
  BY <1>1 DEF IInv, Outside, Spawn, Call, MutexOK, Critical
<1>4. PlacesOK'
  BY <1>1 DEF Outside, PlacesOK
<1>5. CallsOK'
  BY <1>1 DEF IInv, Outside, Spawn, Call, CallsOK, CallOK, MapOps
<1>6. ItemsOK'
  BY <1>1 DEF IInv, Outside, Spawn, Call, ItemsOK
<1>7. LifeOK'
  BY <1>1 DEF IInv, Outside, Spawn, Call, LifeOK
<1>9. QED  BY <1>2, <1>3, <1>4, <1>5, <1>6, <1>7 DEF IInv

LEMMA ReleaseKeeps ==
    ASSUME IInv, "release_early" \notin Ops, Release
    PROVE  IInv'
<1> DEFINE there == IF thr.state = "RUNNING" THEN "reap" ELSE "destroy"
<1>1. Moved("main", there, call["main"].ret)
  BY GoesMoves DEF IInv, Release, Actor, At
<1>2. TypeOK'
  BY <1>1 DEF IInv, TypeOK, Release, Moved
<1>3. MutexOK'
  BY <1>1 DEF IInv, OthersStay, Release, Moved, MutexOK, Critical
<1>4. PlacesOK'
  BY <1>1 DEF IInv, OthersStay, Moved, PlacesOK, Actor
<1>5. CallsOK'
  BY <1>1 DEF IInv, OthersStay, Release, Moved, CallsOK, CallOK
<1>6. ItemsOK'
  BY <1>1 DEF IInv, OthersStay, Release, Moved, ItemsOK
<1>7. LifeOK'
  BY <1>1 DEF IInv, OthersStay, Release, Moved, LifeOK, Actor
<1>9. QED  BY <1>2, <1>3, <1>4, <1>5, <1>6, <1>7 DEF IInv

---------------------------------------------------------------------------
(* The invariant holds.                                                    *)

LEMMA InitOK == Init => IInv
<1> SUFFICES ASSUME Init PROVE IInv
  OBVIOUS
<1>1. /\ call["main"].at = "script" /\ call["main"].op = "none"
      /\ call["worker"].at = "off" /\ call["worker"].op = "none"
  <2>1. call["main"] = Outside("script") /\ call["worker"] = Outside("off")
    BY DEF Init, Actor
  <2>2. QED  BY <2>1 DEF Outside
<1>2. TypeOK
  <2>1. call \in [Actor -> Call]
    BY OutsideIsCall DEF Init, At
  <2>2. QED  BY <2>1 DEF Init, TypeOK, NoThread, Thread, Empty, Data, Actor
<1>3. MutexOK
  BY <1>1, ValueAssumption DEF Init, MutexOK, NoThread, Critical, Actor
<1>4. PlacesOK
  BY <1>1 DEF PlacesOK, Shared, Actor
<1>5. CallsOK
  BY <1>1 DEF CallsOK, CallOK, MapOps, Actor
<1>6. ItemsOK
  BY <1>1 DEF ItemsOK, Actor
<1>7. LifeOK
  BY <1>1 DEF Init, LifeOK
<1>8. QED  BY <1>2, <1>3, <1>4, <1>5, <1>6, <1>7 DEF IInv

(* The steps of one of the two threads.                                    *)
LEMMA ScriptKeeps ==
    ASSUME IInv, NEW a \in Actor, Script(a)
    PROVE  IInv'
<1>1. CASE BeginMapOp(a)
  <2>1. PICK k \in Key :
            \/ \E op \in {"has", "get"} : Begin(a, op, k, None, None)
            \/ \E v \in Value : \/ Begin(a, "set", k, v, None)
                                \/ \E w \in Value : Begin(a, "set_if", k, v, w)
    BY <1>1 DEF BeginMapOp
  <2>2. CASE \E op \in {"has", "get"} : Begin(a, op, k, None, None)
    BY <2>2, BeginKeeps DEF MapOps
  <2>3. CASE \E v \in Value : Begin(a, "set", k, v, None)
    BY <2>3, BeginKeeps DEF MapOps
  <2>4. CASE \E v \in Value, w \in Value : Begin(a, "set_if", k, v, w)
    BY <2>4, BeginKeeps DEF MapOps
  <2>5. QED  BY <2>1, <2>2, <2>3, <2>4
<1>2. CASE BeginStart(a)
  BY <1>2, BeginKeeps DEF BeginStart, MapOps
<1>3. QED  BY <1>1, <1>2, WaitKeeps, StateKeeps DEF Script

LEMMA NextKeeps ==
    ASSUME IInv, [Next]_vars, "release_early" \notin Ops
    PROVE  IInv'
<1>1. CASE \E a \in Actor : Script(a)
  BY <1>1, ScriptKeeps
<1>2. CASE \E a \in Actor : Step(a)
  BY <1>2, LockKeeps, ReadKeeps, SetKeeps, SetIfKeeps, ReplaceKeeps,
     StoreKeeps, PrependKeeps, LinkKeeps, UnlockKeeps, ReturnKeeps, StartKeeps,
     SpawnKeeps, AssignKeeps
     DEF Step
<1>3. CASE Create \/ Release \/ CodeEnds
  BY <1>3, CreateKeeps, ReleaseKeeps, CodeEndsKeeps
<1>4. CASE MainStep
  BY <1>4, JoinKeeps, ReapKeeps, DestroyThreadKeeps DEF MainStep
<1>5. CASE WorkerStep
  BY <1>5, BootKeeps, CloseEngineKeeps, LockEndKeeps, SetDoneKeeps, LeaveKeeps
     DEF WorkerStep
<1>6. CASE UNCHANGED vars
  BY <1>6 DEF vars, IInv, TypeOK, MutexOK, PlacesOK, CallsOK, ItemsOK, LifeOK
<1>7. QED  BY <1>1, <1>2, <1>3, <1>4, <1>5, <1>6 DEF Next

(* Every thread has a mutex, an item and a call of its kind, whatever the  *)
(* scripts do; the mutex is held by the one thread in a critical section,  *)
(* a set knows what it replaces, and the operating system, the state and   *)
(* the thread object agree on the worker.                                  *)
THEOREM WorkerAccounted ==
    ASSUME "release_early" \notin Ops
    PROVE  Spec => []IInv
<1>1. Init => IInv
  BY InitOK
<1>2. IInv /\ [Next]_vars => IInv'
  BY NextKeeps
<1>3. QED  BY <1>1, <1>2, PTL DEF Spec

(* One thread at a time is in a critical section.                          *)
THEOREM MutualExclusion ==
    ASSUME "release_early" \notin Ops
    PROVE  Spec => [](\A a, b \in Actor : call[a].at \in Critical /\ call[b].at \in Critical
                                            => a = b)
<1>1. IInv => \A a, b \in Actor : call[a].at \in Critical /\ call[b].at \in Critical => a = b
  BY DEF IInv, MutexOK
<1>2. QED  BY <1>1, WorkerAccounted, PTL

(* The worker has its thread object until it ends.                         *)
THEOREM ObjectOutlivesWorker ==
    ASSUME "release_early" \notin Ops
    PROVE  Spec => []NoUseAfterFree
<1>1. IInv => NoUseAfterFree
  BY DEF IInv, LifeOK, NoUseAfterFree
<1>2. QED  BY <1>1, WorkerAccounted, PTL

---------------------------------------------------------------------------
(* ParallelThreads implements SharedMap.                                   *)

(* The map that the calls so far have made: as the items say, but for the  *)
(* one whose old buffer was just freed.                                    *)
MapFollows ==
    /\ (\A a \in Actor : call[a].at # "store") => Contents = items
    /\ \A a \in Actor : call[a].at = "store" =>
            Contents = [items EXCEPT ![call[a].key] = call[a].val]

LEMMA MapIs == IInv => MapFollows
<1> SUFFICES ASSUME IInv PROVE MapFollows
  OBVIOUS
<1>1. ASSUME \A a \in Actor : call[a].at # "store"
      PROVE  Contents = items
  BY <1>1 DEF Contents, Storing, IInv, TypeOK
<1>2. ASSUME NEW a \in Actor, call[a].at = "store"
      PROVE  Contents = [items EXCEPT ![call[a].key] = call[a].val]
  <2>1. \A b \in Actor : call[b].at = "store" => b = a
    BY <1>2 DEF IInv, MutexOK, Critical
  <2>2. \A k \in Key : Storing(k) = IF call[a].key = k THEN {a} ELSE {}
    BY <1>2, <2>1 DEF Storing
  <2>3. (CHOOSE b \in {a} : TRUE) = a
    OBVIOUS
  <2>4. ASSUME NEW k \in Key
        PROVE  Contents[k] = [items EXCEPT ![call[a].key] = call[a].val][k]
    <3>1. CASE call[a].key = k
      <4>1. Storing(k) = {a}
        BY <2>2, <3>1
      <4>2. Contents[k] = call[a].val
        BY <4>1 DEF Contents
      <4>3. QED  BY <3>1, <4>2 DEF IInv, TypeOK
    <3>2. CASE call[a].key # k
      BY <2>2, <3>2 DEF Contents
    <3>3. QED  BY <3>1, <3>2
  <2>5. QED  BY <2>4 DEF Contents, IInv, TypeOK
<1>3. QED  BY <1>1, <1>2 DEF MapFollows

(* A step of a that frees and stores nothing leaves the map as it is.      *)
LEMMA MapStays ==
    ASSUME IInv, IInv', NEW a \in Actor, OthersStay(a), items' = items,
           call[a].at # "store", call'[a].at # "store"
    PROVE  Contents' = Contents
<1>1. MapFollows /\ MapFollows'
  BY MapIs, PTL
<1>2. QED  BY <1>1 DEF MapFollows, OthersStay

(* A step of a changes at most a's request.                                *)
LEMMA OneRequest ==
    ASSUME NEW a \in Actor, OthersStay(a)
    PROVE  Requests' = [Requests EXCEPT ![a] = Requests'[a]]
BY DEF Requests, OthersStay

(* Steps which an observer of the map does not see.                        *)
LEMMA Unseen ==
    ASSUME IInv, IInv', NEW a \in Actor, OthersStay(a), items' = items,
           call[a].at # "store", call'[a].at # "store",
           Requests'[a] = Requests[a]
    PROVE  UNCHANGED <<Contents, Requests>>
<1>1. Requests' = [Requests EXCEPT ![a] = Requests[a]]
  BY OneRequest
<1>2. Requests = [Requests EXCEPT ![a] = Requests[a]]
  BY DEF Requests
<1>3. QED  BY <1>1, <1>2, MapStays

(* What an observer sees of a thread's request.                            *)
RequestFollows ==
    \A a \in Actor :
        LET c == call[a]
        IN  /\ c.op \notin MapOps => Requests[a] = [at |-> "idle"]
            /\ c.op \in MapOps /\ c.at \in {"store", "unlock", "return"} =>
                   Requests[a] = [at |-> "answered", ret |-> c.ret]
            /\ c.op \in MapOps /\ c.at \notin {"store", "unlock", "return"} =>
                   Requests[a] = [at |-> "asked", op |-> c.op, key |-> c.key,
                                  val |-> c.val, old |-> c.old]

LEMMA RequestIs == RequestFollows
BY DEF RequestFollows, Requests

AbsStep == [Abstract!AbsNext]_(Abstract!absVars)

LEMMA UnseenStep ==
    ASSUME IInv, IInv', NEW a \in Actor, OthersStay(a), items' = items,
           call[a].at # "store", call'[a].at # "store",
           call'[a].op = call[a].op, call'[a].ret = call[a].ret,
           call'[a].key = call[a].key, call'[a].val = call[a].val,
           call'[a].old = call[a].old,
           call[a].at \in {"unlock", "return"} <=> call'[a].at \in {"unlock", "return"}
    PROVE  AbsStep
<1>1. RequestFollows /\ RequestFollows'
  BY RequestIs, PTL
<1>2. Requests'[a] = Requests[a]
  BY <1>1 DEF RequestFollows
<1>3. QED  BY <1>2, Unseen DEF AbsStep, Abstract!absVars

(* A thread that is in no operation of the map stays so.                   *)
LEMMA IdleStep ==
    ASSUME IInv, IInv', NEW a \in Actor, OthersStay(a), items' = items,
           call[a].op \notin MapOps, call'[a].op \notin MapOps
    PROVE  AbsStep
<1>1. RequestFollows /\ RequestFollows'
  BY RequestIs, PTL
<1>2. Requests'[a] = Requests[a]
  BY <1>1 DEF RequestFollows
<1>3. call[a].at # "store" /\ call'[a].at # "store"
  BY DEF IInv, CallsOK, CallOK, MapOps
<1>4. QED  BY <1>2, <1>3, Unseen DEF AbsStep, Abstract!absVars

(* A thread that answers from the map as it is, or changes it, performs    *)
(* its request.                                                            *)
LEMMA PerformStep ==
    ASSUME IInv, IInv', NEW a \in Actor, OthersStay(a), call[a].op \in MapOps,
           call[a].at \notin {"store", "unlock", "return"},
           call'[a].at \in {"store", "unlock", "return"}, call'[a].op = call[a].op,
           call'[a].ret = Abstract!Answer(Requests[a]),
           Contents' = IF Abstract!Changes(Requests[a])
                       THEN [Contents EXCEPT ![call[a].key] = call[a].val] ELSE Contents
    PROVE  AbsStep
<1>1. RequestFollows /\ RequestFollows'
  BY RequestIs, PTL
<1>2. Requests[a] = [at |-> "asked", op |-> call[a].op, key |-> call[a].key,
                     val |-> call[a].val, old |-> call[a].old]
  BY <1>1 DEF RequestFollows
<1>3. Requests'[a] = [at |-> "answered", ret |-> Abstract!Answer(Requests[a])]
  BY <1>1 DEF RequestFollows
<1>4. Requests' = [Requests EXCEPT ![a] = [at |-> "answered",
                                           ret |-> Abstract!Answer(Requests[a])]]
  BY <1>3, OneRequest
<1>5. Abstract!Perform(a)
  BY <1>2, <1>4 DEF Abstract!Perform
<1>6. QED  BY <1>5 DEF AbsStep, Abstract!AbsNext

LEMMA LockMaps ==
    ASSUME IInv, IInv', NEW a \in Actor, Lock(a)
    PROVE  AbsStep
<1>1. Moved(a, "inside", call[a].ret)
  BY GoesMoves DEF IInv, Lock, At
<1>2. QED  BY <1>1, UnseenStep DEF Lock, Moved

LEMMA UnlockMaps ==
    ASSUME IInv, IInv', NEW a \in Actor, Unlock(a)
    PROVE  AbsStep
<1>1. Moved(a, "return", call[a].ret)
  BY GoesMoves DEF IInv, Unlock, At
<1>2. QED  BY <1>1, UnseenStep DEF Unlock, Moved

LEMMA SetMaps ==
    ASSUME IInv, IInv', NEW a \in Actor, Set(a)
    PROVE  AbsStep
<1>1. Moved(a, "set", "true")
  BY AnswersMoves DEF IInv, Set, At
<1>2. RequestFollows /\ RequestFollows'
  BY RequestIs, PTL
<1>3. Requests'[a] = Requests[a]
  BY <1>1, <1>2 DEF RequestFollows, Set, Inside, Moved, MapOps
<1>4. QED  BY <1>1, <1>3, Unseen
       DEF Set, Inside, Moved, AbsStep, Abstract!absVars

LEMMA PrependMaps ==
    ASSUME IInv, IInv', NEW a \in Actor, Prepend(a)
    PROVE  AbsStep
<1>1. call[a] \in Call /\ call' = [call EXCEPT ![a] = [call[a] EXCEPT !.at = "link", !.rest = items]]
  BY DEF IInv, TypeOK, Prepend
<1>2. OthersStay(a) /\ call'[a] = [call[a] EXCEPT !.at = "link", !.rest = items]
  BY <1>1 DEF OthersStay, IInv, TypeOK
<1>3. QED  BY <1>2, UnseenStep DEF Prepend

(* While a is in a critical section nobody else is storing.                *)
LEMMA Alone ==
    ASSUME IInv, NEW a \in Actor, call[a].at \in Critical, call[a].at # "store"
    PROVE  Contents = items
<1>1. MapFollows
  BY MapIs
<1>2. \A b \in Actor : call[b].at # "store"
  BY DEF IInv, MutexOK, Critical
<1>3. QED  BY <1>1, <1>2 DEF MapFollows

LEMMA ReadMaps ==
    ASSUME IInv, IInv', NEW a \in Actor, Read(a)
    PROVE  AbsStep
<1> DEFINE found == items[call[a].key]
<1> DEFINE ret == IF call[a].op = "has" THEN Bool(found # None) ELSE found
<1>0. ret \in Data \cup {"true", "false"} /\ Answers(a, "unlock", ret)
  BY DEF IInv, TypeOK, CallsOK, CallOK, Read, Inside, Bool
<1>1. Moved(a, "unlock", ret)
  BY <1>0, AnswersMoves DEF IInv, At
<1>2. Contents = items /\ Contents' = Contents
  BY <1>1, Alone, MapStays DEF Read, Inside, Critical, Moved
<1>3. Requests[a] = [at |-> "asked", op |-> call[a].op, key |-> call[a].key,
                     val |-> call[a].val, old |-> call[a].old]
  BY RequestIs DEF RequestFollows, Read, Inside, MapOps
<1>4. Abstract!Answer(Requests[a]) = ret /\ ~Abstract!Changes(Requests[a])
  BY <1>2, <1>3
     DEF Abstract!Answer, Abstract!Changes, Abstract!Bool, Bool, Read, Inside
<1>5. QED  BY <1>1, <1>2, <1>4, PerformStep DEF Read, Inside, Moved, MapOps

LEMMA SetIfMaps ==
    ASSUME IInv, IInv', NEW a \in Actor, SetIf(a)
    PROVE  AbsStep
<1> DEFINE found == items[call[a].key]
<1>1. Contents = items
  BY Alone DEF SetIf, Inside, Critical
<1>2. Requests[a] = [at |-> "asked", op |-> "set_if", key |-> call[a].key,
                     val |-> call[a].val, old |-> call[a].old]
  BY RequestIs DEF RequestFollows, SetIf, Inside, MapOps
<1>3. CASE found = call[a].old
  <2>1. Moved(a, "set", "true")
    BY <1>3, AnswersMoves DEF IInv, SetIf, At
  <2>2. RequestFollows'
    BY RequestIs, PTL
  <2>3. Requests'[a] = Requests[a]
    BY <1>2, <2>1, <2>2 DEF RequestFollows, SetIf, Inside, Moved, MapOps
  <2>4. QED  BY <2>1, <2>3, Unseen
         DEF SetIf, Inside, Moved, AbsStep, Abstract!absVars
<1>4. CASE found # call[a].old
  <2> DEFINE ret == IF found = None THEN None ELSE "false"
  <2>1. ret \in Data \cup {"true", "false"} /\ Answers(a, "unlock", ret)
    BY <1>4 DEF Data, SetIf
  <2>2. Moved(a, "unlock", ret)
    BY <2>1, AnswersMoves DEF IInv, At
  <2>3. Contents' = Contents
    BY <2>2, MapStays DEF SetIf, Inside, Moved
  <2>4. Abstract!Answer(Requests[a]) = ret /\ ~Abstract!Changes(Requests[a])
    BY <1>1, <1>2, <1>4, ValueAssumption
       DEF Abstract!Answer, Abstract!Changes, Abstract!Bool
  <2>5. QED  BY <2>2, <2>3, <2>4, PerformStep DEF SetIf, Inside, Moved, MapOps
<1>5. QED  BY <1>3, <1>4

(* The moment of a set: the request is answered with "true" and the value  *)
(* is in the map, though its bytes are only copied by the next step.       *)
LEMMA SetHappens ==
    ASSUME IInv, IInv', NEW a \in Actor, call[a].at \in {"set", "link"}
    PROVE  /\ Contents = items /\ call[a].op \in {"set", "set_if"}
           /\ call[a].key \in Key /\ call[a].ret = "true"
           /\ Abstract!Answer(Requests[a]) = "true" /\ Abstract!Changes(Requests[a])
<1>1. Contents = items
  BY Alone DEF Critical
<1>2. /\ call[a].op \in {"set", "set_if"} /\ call[a].key \in Key /\ call[a].ret = "true"
      /\ call[a].op = "set_if" => items[call[a].key] = call[a].old /\ call[a].old \in Value
  BY DEF IInv, CallsOK, CallOK, ItemsOK, MapOps
<1>3. Requests[a] = [at |-> "asked", op |-> call[a].op, key |-> call[a].key,
                     val |-> call[a].val, old |-> call[a].old]
  BY <1>2, RequestIs DEF RequestFollows, MapOps
<1>4. Abstract!Answer(Requests[a]) = "true"
  BY <1>1, <1>2, <1>3, ValueAssumption DEF Abstract!Answer, Abstract!Bool
<1>5. QED  BY <1>1, <1>2, <1>3, <1>4 DEF Abstract!Changes

LEMMA ReplaceMaps ==
    ASSUME IInv, IInv', NEW a \in Actor, Replace(a)
    PROVE  AbsStep
<1>1. Moved(a, "store", call[a].ret)
  BY GoesMoves DEF IInv, Replace, At
<1>2. MapFollows'
  BY MapIs, PTL
<1>3. Contents' = [items EXCEPT ![call[a].key] = call[a].val]
  BY <1>1, <1>2 DEF MapFollows, Moved, Replace
<1>4. QED  BY <1>1, <1>3, SetHappens, PerformStep DEF Replace, Moved, MapOps

LEMMA LinkMaps ==
    ASSUME IInv, IInv', NEW a \in Actor, Link(a)
    PROVE  AbsStep
<1>1. Moved(a, "unlock", call[a].ret)
  BY GoesMoves DEF IInv, Link, At
<1>2. \A b \in Actor : call'[b].at # "store"
  BY <1>1 DEF IInv, MutexOK, Critical, Moved
<1>3. MapFollows'
  BY MapIs, PTL
<1>4. Contents' = [items EXCEPT ![call[a].key] = call[a].val]
  BY <1>2, <1>3 DEF MapFollows, Link, IInv, ItemsOK
<1>5. QED  BY <1>1, <1>4, SetHappens, PerformStep DEF Link, Moved, MapOps

LEMMA StoreMaps ==
    ASSUME IInv, IInv', NEW a \in Actor, Store(a)
    PROVE  AbsStep
<1>1. Moved(a, "unlock", call[a].ret)
  BY GoesMoves DEF IInv, Store, At
<1>2. \A b \in Actor : call'[b].at # "store"
  BY <1>1 DEF IInv, MutexOK, Critical, Moved
<1>3. MapFollows /\ MapFollows' /\ RequestFollows /\ RequestFollows'
  BY MapIs, RequestIs, PTL
<1>4. Contents' = Contents
  BY <1>2, <1>3 DEF MapFollows, Store
<1>5. Requests'[a] = Requests[a]
  BY <1>1, <1>3 DEF RequestFollows, Store, Moved
<1>6. Requests' = Requests
  <2>1. Requests' = [Requests EXCEPT ![a] = Requests[a]]
    BY <1>1, <1>5, OneRequest DEF Moved
  <2>2. QED  BY <2>1 DEF Requests
<1>7. QED  BY <1>4, <1>6 DEF AbsStep, Abstract!absVars

LEMMA ReturnMaps ==
    ASSUME IInv, IInv', NEW a \in Actor, Return(a)
    PROVE  AbsStep
<1>1. Became(a, Outside("script"))
  BY OutsideIsCall, Becomes DEF IInv, Return, At
<1>2. OthersStay(a) /\ call'[a].op = "none" /\ call'[a].at = "script" /\ items' = items
  BY <1>1 DEF Became, Outside, Return
<1>3. CASE call[a].op \notin MapOps
  BY <1>2, <1>3, IdleStep DEF MapOps
<1>4. CASE call[a].op \in MapOps
  <2>1. RequestFollows /\ RequestFollows'
    BY RequestIs, PTL
  <2>2. Requests[a] = [at |-> "answered", ret |-> call[a].ret]
    BY <1>4, <2>1 DEF RequestFollows, Return
  <2>3. call'[a].op \notin MapOps
    BY <1>2 DEF MapOps
  <2>4. Requests'[a] = [at |-> "idle"]
    BY <2>1, <2>3 DEF RequestFollows
  <2>5. Contents' = Contents
    BY <1>2, MapStays DEF Return
  <2>6. Abstract!Reply(a)
    BY <1>2, <2>2, <2>4, <2>5, OneRequest DEF Abstract!Reply, Abstract!NoRequest
  <2>7. QED  BY <2>6 DEF AbsStep, Abstract!AbsNext
<1>5. QED  BY <1>3, <1>4

LEMMA BeginMaps ==
    ASSUME IInv, IInv', NEW a \in Actor, NEW op, NEW k, NEW v, NEW w, op \in MapOps,
           k \in Key, v \in Value \cup {None}, w \in Value \cup {None},
           Begin(a, op, k, v, w)
    PROVE  AbsStep
<1> DEFINE next == [Outside("lock") EXCEPT !.op = op, !.key = k, !.val = v, !.old = w]
<1>1. call[a].op = "none" /\ call[a].at = "script"
  BY DEF IInv, CallsOK, CallOK, Begin
<1>2. call'[a] = next /\ OthersStay(a) /\ items' = items
  BY DEF Begin, IInv, TypeOK, OthersStay
<1>3. /\ call'[a].at = "lock" /\ call'[a].op = op /\ call'[a].key = k
      /\ call'[a].val = v /\ call'[a].old = w
  BY <1>2 DEF Outside
<1>4. RequestFollows /\ RequestFollows'
  BY RequestIs, PTL
<1>5. Requests[a] = Abstract!NoRequest /\ Requests'[a] = Abstract!Ask(op, k, v, w)
  BY <1>1, <1>3, <1>4
     DEF RequestFollows, Abstract!NoRequest, Abstract!Ask, MapOps
<1>6. Contents' = Contents
  BY <1>1, <1>2, <1>3, MapStays
<1>7. Requests' = [Requests EXCEPT ![a] = Abstract!Ask(op, k, v, w)]
  BY <1>2, <1>5, OneRequest
<1>8. Abstract!Request(a)
  BY <1>5, <1>6, <1>7 DEF Abstract!Request, Abstract!Serialized, MapOps
<1>9. QED  BY <1>8 DEF AbsStep, Abstract!AbsNext

(* What the threads do besides the map.                                    *)
LEMMA ElseMaps ==
    ASSUME IInv, IInv', NEW a \in Actor,
           BeginStart(a) \/ Wait(a) \/ State(a) \/ Start(a) \/ Assign(a)
    PROVE  AbsStep
<1>1. call[a].op \notin MapOps
  BY DEF IInv, CallsOK, CallOK, MapOps, BeginStart, Begin, Wait, State, Start,
         Assign, Inside
<1>2. items' = items /\ OthersStay(a) /\ call'[a].op \notin MapOps
  <2>1. CASE BeginStart(a)
    BY <2>1 DEF IInv, TypeOK, BeginStart, Begin, MapOps, OthersStay
  <2>2. CASE Wait(a)
    BY <2>2 DEF IInv, TypeOK, Wait, MapOps, OthersStay
  <2>3. CASE State(a)
    BY <2>3 DEF IInv, TypeOK, State, MapOps, OthersStay
  <2>4. CASE Start(a)
    BY <1>1, <2>4, AnswersMoves DEF IInv, Start, At, Moved
  <2>5. CASE Assign(a)
    BY <1>1, <2>5, GoesMoves DEF IInv, Assign, At, Moved
  <2>6. QED  BY <2>1, <2>2, <2>3, <2>4, <2>5
<1>3. QED  BY <1>1, <1>2, IdleStep

LEMMA SpawnMaps ==
    ASSUME IInv, IInv', NEW a \in Actor, Spawn(a)
    PROVE  AbsStep
<1>1. RequestFollows /\ RequestFollows' /\ MapFollows /\ MapFollows'
  BY MapIs, RequestIs, PTL
<1>2. a = "main" /\ call["worker"].at = "off" /\ call["worker"].op = "none"
  BY DEF IInv, PlacesOK, Shared, LifeOK, CallsOK, CallOK, Spawn, Actor
<1>3. /\ call' = [call EXCEPT !["main"] = [call["main"] EXCEPT !.at = "assign"],
                              !["worker"] = Outside("boot")]
      /\ call["main"] \in Call /\ call["main"].at = "spawn" /\ call["main"].op = "start"
  BY <1>2 DEF Spawn, IInv, TypeOK, CallsOK, CallOK
<1>4. /\ call'["main"] = [call["main"] EXCEPT !.at = "assign"]
      /\ call'["worker"] = Outside("boot")
  BY <1>3 DEF IInv, TypeOK, Actor
<1>5. \A b \in Actor : /\ call[b].op \notin MapOps /\ call'[b].op \notin MapOps
                       /\ call[b].at # "store" /\ call'[b].at # "store"
  <2>1. call'["worker"].op = "none" /\ call'["worker"].at = "boot"
    BY <1>4 DEF Outside
  <2>2. call'["main"].op = "start" /\ call'["main"].at = "assign"
    BY <1>3, <1>4 DEF Call
  <2>3. QED  BY <1>2, <1>3, <2>1, <2>2 DEF Actor, MapOps
<1>6. Contents' = Contents
  BY <1>1, <1>5 DEF MapFollows, Spawn
<1>7. Requests' = Requests
  BY <1>5 DEF Requests
<1>8. QED  BY <1>6, <1>7 DEF AbsStep, Abstract!absVars

LEMMA WorkerMaps ==
    ASSUME IInv, IInv', CodeEnds \/ WorkerStep
    PROVE  AbsStep
<1>1. items' = items /\ "worker" \in Actor
  BY DEF CodeEnds, WorkerStep, Boot, CloseEngine, LockEnd, SetDone, Leave, Actor
<1>2. call["worker"].op = "none"
  BY <1>1
     DEF IInv, CallsOK, CallOK, CodeEnds, WorkerStep, Boot, CloseEngine,
         LockEnd, SetDone, Leave
<1>3. OthersStay("worker") /\ call'["worker"].op = "none"
  <2>1. CASE CodeEnds
    BY <1>1, <1>2, <2>1, GoesMoves DEF IInv, CodeEnds, At, Moved
  <2>2. CASE Boot
    BY <1>1, <1>2, <2>2, GoesMoves DEF IInv, Boot, At, Moved
  <2>3. CASE CloseEngine
    BY <1>1, <1>2, <2>3, GoesMoves DEF IInv, CloseEngine, At, Moved
  <2>4. CASE LockEnd
    BY <1>1, <1>2, <2>4, GoesMoves DEF IInv, LockEnd, At, Moved
  <2>5. CASE SetDone
    BY <1>1, <1>2, <2>5, GoesMoves DEF IInv, SetDone, At, Moved
  <2>6. CASE Leave
    BY <2>6 DEF IInv, TypeOK, Leave, Outside, OthersStay
  <2>7. QED  BY <2>1, <2>2, <2>3, <2>4, <2>5, <2>6 DEF WorkerStep
<1>4. QED  BY <1>1, <1>2, <1>3, IdleStep DEF MapOps

LEMMA MainMaps ==
    ASSUME IInv, IInv', Join \/ Reap \/ Release
    PROVE  AbsStep
<1>1. items' = items /\ "main" \in Actor
  BY DEF Join, Reap, Release, Actor
<1>2. call["main"].op \in {"none", "wait"}
  BY <1>1 DEF IInv, CallsOK, CallOK, Join, Reap, Release
<1>3. OthersStay("main") /\ call'["main"].op = call["main"].op
  <2>1. CASE Join
    BY <1>1, <2>1, GoesMoves DEF IInv, Join, At, Moved
  <2>2. CASE Reap
    BY <1>1, <2>2, GoesMoves DEF IInv, Reap, At, Moved
  <2>3. CASE Release
    BY <1>1, <2>3, GoesMoves DEF IInv, Release, At, Moved
  <2>4. QED  BY <2>1, <2>2, <2>3
<1>4. QED  BY <1>1, <1>2, <1>3, IdleStep DEF MapOps

(* The object is made and destroyed while no thread is in an operation.    *)
LEMMA ForgetMaps ==
    ASSUME IInv, IInv', Create \/ DestroyThread
    PROVE  AbsStep
<1>1. /\ call["worker"].at = "off" /\ call["main"].at \in {"script", "destroy"}
      /\ items' = Empty
  BY DEF IInv, LifeOK, Create, DestroyThread
<1>2. /\ call'["worker"] = call["worker"] /\ call'["main"].at = "script"
      /\ call'["main"].op = call["main"].op
  <2>1. CASE Create
    BY <2>1 DEF Create
  <2>2. CASE DestroyThread
    BY <2>2, GoesMoves DEF IInv, DestroyThread, Actor, At, Moved, OthersStay
  <2>3. QED  BY <2>1, <2>2
<1>3. \A b \in Actor : call[b].op = "none" /\ call'[b].op = "none" /\ call'[b].at # "store"
  BY <1>1, <1>2 DEF IInv, CallsOK, CallOK, Actor
<1>4. \A b \in Actor : Requests[b] = Abstract!NoRequest
  BY <1>3 DEF Requests, MapOps, Abstract!NoRequest
<1>5. Requests' = Requests
  BY <1>3 DEF Requests, MapOps
<1>6. MapFollows'
  BY MapIs, PTL
<1>7. Contents' = [k \in Key |-> None]
  BY <1>1, <1>3, <1>6 DEF MapFollows, Empty
<1>8. Abstract!Forget
  BY <1>4, <1>5, <1>7 DEF Abstract!Forget
<1>9. QED  BY <1>8 DEF AbsStep, Abstract!AbsNext

LEMMA NextMaps ==
    ASSUME IInv, IInv', [Next]_vars
    PROVE  AbsStep
<1>1. ASSUME NEW a \in Actor, Script(a)
      PROVE  AbsStep
  <2>1. CASE BeginMapOp(a)
    <3>1. PICK op \in MapOps, k \in Key, v \in Value \cup {None}, w \in Value \cup {None} :
              Begin(a, op, k, v, w)
      BY <2>1 DEF BeginMapOp, MapOps
    <3>2. QED  BY <3>1, BeginMaps
  <2>2. QED  BY <1>1, <2>1, ElseMaps DEF Script
<1>2. ASSUME NEW a \in Actor, Step(a)
      PROVE  AbsStep
  BY <1>2, LockMaps, ReadMaps, SetMaps, SetIfMaps, ReplaceMaps, StoreMaps,
     PrependMaps, LinkMaps, UnlockMaps, ReturnMaps, SpawnMaps, ElseMaps
     DEF Step
<1>3. CASE Create \/ Release \/ CodeEnds \/ MainStep \/ WorkerStep
  BY <1>3, ForgetMaps, MainMaps, WorkerMaps DEF MainStep
<1>4. CASE UNCHANGED vars
  <2>1. Contents' = Contents /\ Requests' = Requests
    BY <1>4 DEF vars, Contents, Storing, Requests
  <2>2. QED  BY <2>1 DEF AbsStep, Abstract!absVars
<1>5. QED  BY <1>1, <1>2, <1>3, <1>4 DEF Next

LEMMA InitMaps == Init => Abstract!AbsInit
<1> SUFFICES ASSUME Init PROVE Abstract!AbsInit
  OBVIOUS
<1>1. \A a \in Actor : call[a].op = "none" /\ call[a].at # "store"
  BY DEF Init, Outside, Actor
<1>2. Contents = [k \in Key |-> None]
  BY <1>1, MapIs, InitOK DEF MapFollows, Init, Empty
<1>3. Requests = [a \in Actor |-> Abstract!NoRequest]
  BY <1>1 DEF Requests, MapOps, Abstract!NoRequest
<1>4. QED  BY <1>2, <1>3 DEF Abstract!AbsInit

(* has, get, set and set_if of the two threads happen one at a time.       *)
THEOREM MapIsLinearizable ==
    ASSUME "release_early" \notin Ops
    PROVE  Spec => Linearizable
<1>1. Init => Abstract!AbsInit
  BY InitMaps
<1>2. IInv /\ IInv' /\ [Next]_vars => [Abstract!AbsNext]_(Abstract!absVars)
  BY NextMaps DEF AbsStep
<1>3. QED
  BY <1>1, <1>2, WorkerAccounted, PTL DEF Spec, Linearizable, Abstract!AbsSpec
=====

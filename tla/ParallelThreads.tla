--------------------------- MODULE ParallelThreads ---------------------------
(***************************************************************************)
(* A ppthread object of the parallel processing library,                   *)
(* ext/sgspproc.c: an operating-system thread with an engine of its    *)
(* own, and a map that the thread which made the object and the worker     *)
(* share.  The operations of the map run under THR->mutex; start, wait,    *)
(* the state and the destructor partly do not.                             *)
(***************************************************************************)
CONSTANTS
    Key,        \* the keys of the map
    Value,      \* the serialized values
    None,       \* no value
    Freed,      \* what a freed buffer holds
    Ops         \* what the scripts of this instance do

ASSUME ValueAssumption ==
    /\ None \notin Value /\ Freed \notin Value /\ None # Freed
    /\ None \notin {"true", "false", "main", "worker"}

VARIABLES
    thr,        \* the ppthread_t
    items,      \* THR->data: the data of each key
    engine,     \* THR->C exists
    os,         \* the worker, as the operating system knows it
    call        \* where each thread is, and its local variables

vars == <<thr, items, engine, os, call>>

---------------------------------------------------------------------------
Actor == {"main", "worker"}

(* self is always the thread that made the object; thread is the same      *)
(* until a worker is started.                                              *)
Thread ==
    [live : BOOLEAN, state : {"INIT", "RUNNING", "DONE"},
     thread : Actor, mutex : Actor \cup {None}]

NoThread == [live |-> FALSE, state |-> "INIT", thread |-> "main", mutex |-> None]

Empty == [k \in Key |-> None]

(* The library call a thread is in.  at is the program point: "script"     *)
(* outside of any, "off" when there is no such thread.                     *)
At == {"off", "boot", "script", "lock", "inside", "set", "store", "link",
       "spawn", "assign", "unlock", "return", "join", "reap", "destroy",
       "close", "ending", "done", "leave"}

Data == Value \cup {None, Freed}

Call ==
    [at : At, op : {"none", "has", "get", "set", "set_if", "start", "wait", "state"},
     key : Key \cup {None}, val : Value \cup {None}, old : Value \cup {None},
     rest : [Key -> Data],                  \* THR->data as read by a set
     ret : Data \cup {"true", "false", "INIT", "RUNNING", "DONE"}]

Outside(at) ==
    [at |-> at, op |-> "none", key |-> None, val |-> None, old |-> None,
     rest |-> Empty, ret |-> None]

Bool(b) == IF b THEN "true" ELSE "false"

Goes(a, at) == call' = [call EXCEPT ![a].at = at]
Answers(a, at, ret) == call' = [call EXCEPT ![a] = [call[a] EXCEPT !.at = at, !.ret = ret]]

---------------------------------------------------------------------------
(* The operations of the map.                                              *)

(* A script calls one; the arguments are serialized before the lock.       *)
Begin(a, op, k, v, w) ==
    /\ call[a].at = "script" /\ thr.live
    /\ call' = [call EXCEPT ![a] =
                  [Outside("lock") EXCEPT !.op = op, !.key = k, !.val = v, !.old = w]]
    /\ UNCHANGED <<thr, items, engine, os>>

BeginMapOp(a) ==
    \E k \in Key :
        \/ \E op \in {"has", "get"} : Begin(a, op, k, None, None)
        \/ \E v \in Value : \/ Begin(a, "set", k, v, None)
                            \/ \E w \in Value : Begin(a, "set_if", k, v, w)

(* Mutant of Lock: set_if does not lock.                                   *)
LockNotSetIf(a) ==
    /\ call[a].at = "lock"
    /\ call[a].op = "set_if" \/ thr.mutex = None
    /\ thr' = IF call[a].op = "set_if" THEN thr ELSE [thr EXCEPT !.mutex = a]
    /\ Goes(a, "inside")
    /\ UNCHANGED <<items, engine, os>>

Lock(a) ==
    /\ call[a].at = "lock"
    /\ thr.mutex = None
    /\ thr' = [thr EXCEPT !.mutex = a]
    /\ Goes(a, "inside")
    /\ UNCHANGED <<items, engine, os>>

Inside(a, ops) == call[a].at = "inside" /\ call[a].op \in ops

(* Mutant of Read: an item that is not found leaves the mutex locked.      *)
ReadKeepsMutex(a) ==
    LET found == items[call[a].key]
    IN  /\ Inside(a, {"has", "get"})
        /\ Answers(a, IF found = None THEN "return" ELSE "unlock",
                   IF call[a].op = "has" THEN Bool(found # None) ELSE found)
        /\ UNCHANGED <<thr, items, engine, os>>

(* has and get: get copies the data, or warns that there is no such item.  *)
Read(a) ==
    LET found == items[call[a].key]
    IN  /\ Inside(a, {"has", "get"})
        /\ Answers(a, "unlock", IF call[a].op = "has" THEN Bool(found # None) ELSE found)
        /\ UNCHANGED <<thr, items, engine, os>>

Set(a) ==
    /\ Inside(a, {"set"})
    /\ Answers(a, "set", "true")
    /\ UNCHANGED <<thr, items, engine, os>>

(* Mutant of SetIf: ret keeps its initial value when the bytes differ.      *)
SetIfUnset(a) ==
    LET found == items[call[a].key]
    IN  /\ Inside(a, {"set_if"})
        /\ IF found = call[a].old THEN Answers(a, "set", "true")
           ELSE Answers(a, "unlock", IF found = None THEN None ELSE "unset")
        /\ UNCHANGED <<thr, items, engine, os>>

(* set_if: the item must be there and hold the bytes of the third argument. *)
SetIf(a) ==
    LET found == items[call[a].key]
    IN  /\ Inside(a, {"set_if"})
        /\ IF found = call[a].old THEN Answers(a, "set", "true")
           ELSE Answers(a, "unlock", IF found = None THEN None ELSE "false")
        /\ UNCHANGED <<thr, items, engine, os>>

(* ppthread_map_set: an item that is there gets a new buffer and the old   *)
(* one is freed; otherwise a new item goes in front of the list.           *)
Replace(a) ==
    /\ call[a].at = "set" /\ items[call[a].key] # None
    /\ items' = [items EXCEPT ![call[a].key] = Freed]
    /\ Goes(a, "store")
    /\ UNCHANGED <<thr, engine, os>>

Store(a) ==
    /\ call[a].at = "store"
    /\ items' = [items EXCEPT ![call[a].key] = call[a].val]
    /\ Goes(a, "unlock")
    /\ UNCHANGED <<thr, engine, os>>

Prepend(a) ==
    /\ call[a].at = "set" /\ items[call[a].key] = None
    /\ call' = [call EXCEPT ![a] = [call[a] EXCEPT !.at = "link", !.rest = items]]
    /\ UNCHANGED <<thr, items, engine, os>>

Link(a) ==
    /\ call[a].at = "link"
    /\ items' = [call[a].rest EXCEPT ![call[a].key] = call[a].val]
    /\ Goes(a, "unlock")
    /\ UNCHANGED <<thr, engine, os>>

Unlock(a) ==
    /\ call[a].at = "unlock"
    /\ thr' = [thr EXCEPT !.mutex = None]
    /\ Goes(a, "return")
    /\ UNCHANGED <<items, engine, os>>

Return(a) ==
    /\ call[a].at = "return"
    /\ call' = [call EXCEPT ![a] = Outside("script")]
    /\ UNCHANGED <<thr, items, engine, os>>

---------------------------------------------------------------------------
(* The life of the thread.                                                 *)

(* pproc_create_thread, in the main script.                                *)
Create ==
    /\ call["main"].at = "script" /\ ~thr.live
    /\ thr' = [NoThread EXCEPT !.live = TRUE]
    /\ items' = Empty
    /\ os' = "none"
    /\ UNCHANGED <<engine, call>>

BeginStart(a) == Begin(a, "start", None, None, None)

(* ppthread_start: the operating system may run the worker before          *)
(* THR->thread is assigned.                                                *)
Start(a) ==
    /\ Inside(a, {"start"})
    /\ IF thr.thread # "main" \/ thr.state = "RUNNING"
       THEN Answers(a, "unlock", "false") /\ UNCHANGED thr
       ELSE Answers(a, "spawn", "true") /\ thr' = [thr EXCEPT !.state = "RUNNING"]
    /\ UNCHANGED <<items, engine, os>>

Spawn(a) ==
    /\ call[a].at = "spawn"
    /\ os' = "running"
    /\ call' = [call EXCEPT ![a].at = "assign", !["worker"] = Outside("boot")]
    /\ UNCHANGED <<thr, items, engine>>

Assign(a) ==
    /\ call[a].at = "assign"
    /\ thr' = [thr EXCEPT !.thread = "worker"]
    /\ Goes(a, "unlock")
    /\ UNCHANGED <<items, engine, os>>

(* ppthread_wait.  A worker that waits for itself gets EDEADLK, which is   *)
(* not looked at.  Without "rejoin" in Ops the scripts wait for a worker   *)
(* once: joining a thread that was joined is undefined.                    *)
Wait(a) ==
    /\ call[a].at = "script" /\ thr.live
    /\ a = "main" => "rejoin" \in Ops \/ os # "joined"
    /\ call' = [call EXCEPT ![a] =
                  [Outside(IF thr.thread # "main" /\ a = "main" THEN "join" ELSE "return")
                        EXCEPT !.op = "wait", !.ret = Bool(thr.thread # "main")]]
    /\ UNCHANGED <<thr, items, engine, os>>

Join ==
    /\ call["main"].at = "join" /\ os = "ended"
    /\ os' = "joined"
    /\ Goes("main", "return")
    /\ UNCHANGED <<thr, items, engine>>

(* The property "state", read without the mutex.                           *)
State(a) ==
    /\ call[a].at = "script" /\ thr.live
    /\ call' = [call EXCEPT ![a] =
                  [Outside("return") EXCEPT !.op = "state", !.ret = thr.state]]
    /\ UNCHANGED <<thr, items, engine, os>>

(* Mutant of Release: a worker that runs is not joined.                    *)
ReleaseRunning ==
    /\ call["main"].at = "script" /\ thr.live
    /\ "release_early" \in Ops \/ call["worker"].at # "leave"
    /\ Goes("main", "destroy")
    /\ UNCHANGED <<thr, items, engine, os>>

(* ppthread_destruct, when the main script drops its last reference: the   *)
(* state is read without the mutex.  Without "release_early" in Ops this   *)
(* does not happen between the worker's last assignment and its unlock.    *)
Release ==
    /\ call["main"].at = "script" /\ thr.live
    /\ "release_early" \in Ops \/ call["worker"].at # "leave"
    /\ Goes("main", IF thr.state = "RUNNING" THEN "reap" ELSE "destroy")
    /\ UNCHANGED <<thr, items, engine, os>>

Reap ==
    /\ call["main"].at = "reap" /\ os = "ended"
    /\ os' = "joined"
    /\ Goes("main", "destroy")
    /\ UNCHANGED <<thr, items, engine>>

(* ppthread_destroy: the code, the map, the mutex and the object are gone. *)
DestroyThread ==
    /\ call["main"].at = "destroy"
    /\ thr' = NoThread
    /\ items' = Empty
    /\ Goes("main", "script")
    /\ UNCHANGED <<engine, os>>

---------------------------------------------------------------------------
(* ppthread_threadfunc.                                                    *)

Boot ==
    /\ call["worker"].at = "boot"
    /\ engine' = TRUE
    /\ Goes("worker", "script")
    /\ UNCHANGED <<thr, items, os>>

(* sgs_ExecBuffer returns.                                                 *)
CodeEnds ==
    /\ call["worker"].at = "script"
    /\ Goes("worker", "close")
    /\ UNCHANGED <<thr, items, engine, os>>

CloseEngine ==
    /\ call["worker"].at = "close"
    /\ engine' = FALSE
    /\ Goes("worker", "ending")
    /\ UNCHANGED <<thr, items, os>>

LockEnd ==
    /\ call["worker"].at = "ending" /\ thr.mutex = None
    /\ thr' = [thr EXCEPT !.mutex = "worker"]
    /\ Goes("worker", "done")
    /\ UNCHANGED <<items, engine, os>>

SetDone ==
    /\ call["worker"].at = "done"
    /\ thr' = [thr EXCEPT !.state = "DONE"]
    /\ Goes("worker", "leave")
    /\ UNCHANGED <<items, engine, os>>

(* The last unlock, and the thread returns.                                *)
Leave ==
    /\ call["worker"].at = "leave"
    /\ thr' = [thr EXCEPT !.mutex = None]
    /\ os' = "ended"
    /\ call' = [call EXCEPT !["worker"] = Outside("off")]
    /\ UNCHANGED <<items, engine>>

---------------------------------------------------------------------------
Init ==
    /\ thr = NoThread /\ items = Empty
    /\ engine = FALSE /\ os = "none"
    /\ call = [a \in Actor |-> Outside(IF a = "main" THEN "script" ELSE "off")]

(* What scripts decide.                                                    *)
Script(a) == BeginMapOp(a) \/ BeginStart(a) \/ Wait(a) \/ State(a)

(* The steps of C code.                                                    *)
Step(a) ==
    \/ Lock(a) \/ Read(a) \/ Set(a) \/ SetIf(a) \/ Replace(a) \/ Store(a)
    \/ Prepend(a) \/ Link(a) \/ Unlock(a) \/ Return(a)
    \/ Start(a) \/ Spawn(a) \/ Assign(a)

MainStep == Join \/ Reap \/ DestroyThread
WorkerStep == Boot \/ CloseEngine \/ LockEnd \/ SetDone \/ Leave

Next ==
    \/ \E a \in Actor : Script(a) \/ Step(a)
    \/ Create \/ Release \/ CodeEnds \/ MainStep \/ WorkerStep

Spec == Init /\ [][Next]_vars

(* The operating system runs both threads, and the worker's code ends.     *)
FairSpec ==
    /\ Spec
    /\ \A a \in Actor : WF_vars(Step(a))
    /\ WF_vars(MainStep) /\ WF_vars(WorkerStep)
    /\ SF_vars(CodeEnds)

---------------------------------------------------------------------------
(* Every variable has its type.                                            *)
TypeOK ==
    /\ thr \in Thread /\ items \in [Key -> Data]
    /\ engine \in BOOLEAN /\ os \in {"none", "running", "ended", "joined"}
    /\ call \in [Actor -> Call]

(* The map as the operations have changed it: a set has happened once the  *)
(* old buffer is freed.                                                    *)
Storing(k) == {a \in Actor : call[a].at = "store" /\ call[a].key = k}

Contents ==
    [k \in Key |-> IF Storing(k) # {} THEN call[CHOOSE a \in Storing(k) : TRUE].val
                   ELSE items[k]]

MapOps == {"has", "get", "set", "set_if"}

Requests ==
    [a \in Actor |->
        LET c == call[a]
        IN  IF c.op \notin MapOps THEN [at |-> "idle"]
            ELSE IF c.at \in {"store", "unlock", "return"}
                 THEN [at |-> "answered", ret |-> c.ret]
                 ELSE [at |-> "asked", op |-> c.op, key |-> c.key, val |-> c.val,
                       old |-> c.old]]

Abstract == INSTANCE SharedMap WITH map <- Contents, req <- Requests

(* has, get, set and set_if of the two threads each happen at one moment,  *)
(* and the map is freed while neither is in one of them.                   *)
Linearizable == Abstract!AbsSpec

(* The worker has its thread object until it ends: the destructor joins it. *)
NoUseAfterFree == call["worker"].at # "off" => thr.live

(* wait() and the destructor return: the worker gets the mutex it needs to *)
(* end.                                                                    *)
JoinReturns == call["main"].at \in {"join", "reap"} ~> call["main"].at = "script"
=============================================================================

----------------------------- MODULE ObjectHeap -----------------------------
(***************************************************************************)
(* The memory of the engine: reference-counted objects and contexts        *)
(* (src/sgs_proc.c, src/sgs_ctx.c), the mark-and-sweep collector that      *)
(* frees the cycles, the pool of freed objects, and the destruction of the *)
(* engine.                                                                 *)
(*                                                                         *)
(* Dropping a reference may destroy an object, whose destructor drops      *)
(* others, which may free a context, and so on: calls holds the C calls    *)
(* that are under way, the innermost first, and every action but those of  *)
(* scripts is a step of the innermost call.                                *)
(***************************************************************************)
EXTENDS Integers, Sequences, FiniteSets

CONSTANTS
    Obj,        \* the blocks of memory that hold objects
    Ctx,        \* the blocks that hold contexts
    Null,
    Root,       \* the engine's first context
    Array,      \* the object array_iface, shared by all arrays
    Global,     \* the object that holds the global variables
    Field,      \* the places in an object that hold a value
    Stored,     \* what scripts store in each field of each object: a bound
    Var,        \* the places on a context's stack that hold a value
    Size,       \* appsize of each block
    PoolMax,    \* SGS_OBJPOOL_SIZE
    MaxApp,     \* SGS_OBJPOOL_MAX_APPMEM
    Ops         \* what the scripts of this instance do

ASSUME NameAssumption ==
    /\ Null \notin Obj \cup Ctx /\ Obj \cap Ctx = {}
    /\ Root \in Ctx /\ {Array, Global} \subseteq Obj /\ Array # Global
    /\ Var \cap {"_G", "sub"} = {}
ASSUME FiniteAssumption ==
    IsFiniteSet(Obj) /\ IsFiniteSet(Ctx) /\ IsFiniteSet(Field) /\ IsFiniteSet(Var)
ASSUME StoredAssumption ==
    Stored \in [Obj -> [Field -> SUBSET (Obj \cup Ctx \cup {Null})]]
ASSUME SizeAssumption ==
    Size \in [Obj -> Nat] /\ PoolMax \in Nat \ {0} /\ MaxApp \in Nat

VARIABLES
    obj,        \* the objects
    context,    \* the contexts
    states,     \* S->state_list
    pool,       \* S->objpool_data, objpool_size
    array,      \* S->array_iface
    redblue,    \* S->redblue
    gcrun,      \* S->gcrun
    calls,      \* the C calls under way, innermost first
    engine      \* "up", "closing" or "down"

vars == <<obj, context, states, pool, array, redblue, gcrun, calls, engine>>

---------------------------------------------------------------------------
Val == Obj \cup Ctx \cup {Null}

(* "_G" and "subthreads" are references of a context as its variables are. *)
Slot == Var \cup {"_G", "sub"}

Object ==
    [live : BOOLEAN, done : BOOLEAN, rc : Int, mark : BOOLEAN, ref : [Field -> Val]]
Context ==
    [live : BOOLEAN, destroying : BOOLEAN, rc : Int, ref : [Slot -> Val]]

NoObject ==
    [live |-> FALSE, done |-> FALSE, rc |-> 0, mark |-> FALSE,
     ref |-> [f \in Field |-> Null]]
NoContext ==
    [live |-> FALSE, destroying |-> FALSE, rc |-> 0, ref |-> [s \in Slot |-> Null]]

(* A call: what it does to what, and the objects a sweep has yet to visit. *)
Call ==
    [k : {"destroy", "destruct"}, x : Obj, todo : {{}}]
    \cup [k : {"free", "safe", "drop", "last", "clear", "next"}, x : Ctx, todo : {{}}]
    \cup [k : {"gc", "sweep", "round", "pick", "forced"}, x : {Null}, todo : SUBSET Obj]

Do(k, x) == [k |-> k, x |-> x, todo |-> {}]

Top == IF calls = <<>> THEN Do("none", Null) ELSE Head(calls)
Rest == Tail(calls)
Idle == calls = <<>> /\ engine = "up"

---------------------------------------------------------------------------
(* What is reachable from the values in V through the blocks in B.         *)
Refs(x) ==
    IF x \in Obj THEN {obj[x].ref[f] : f \in Field}
    ELSE IF x \in Ctx THEN {context[x].ref[s] : s \in Slot}
    ELSE {}

Reach(V, B) ==
    LET wave[i \in 0 .. Cardinality(B)] ==
            IF i = 0 THEN V \cap B
            ELSE LET W == wave[i - 1]
                 IN  W \cup ((UNION {Refs(x) : x \in W}) \cap B)
    IN  wave[Cardinality(B)]

Listed == {states[i] : i \in 1 .. Len(states)}

(* The entry points of the marking phase.                                  *)
Entries == (UNION {Refs(c) : c \in Listed}) \cup {array}

(* VAR_ACQUIRE.                                                            *)
Acquire(os, v) == IF v \in Obj THEN [os EXCEPT ![v].rc = @ + 1] ELSE os
AcquireCtx(cs, v) == IF v \in Ctx THEN [cs EXCEPT ![v].rc = @ + 1] ELSE cs

(* VAR_RELEASE: the count, and the call it makes when the count is zero.   *)
(* sgsCTX_FreeState takes the reference back while it clears the context.  *)
Less(os, v) == IF v \in Obj THEN [os EXCEPT ![v].rc = @ - 1] ELSE os
LessCtx(cs, v) ==
    IF v \notin Ctx THEN cs
    ELSE IF cs[v].rc > 1 THEN [cs EXCEPT ![v].rc = @ - 1]
    ELSE [cs EXCEPT ![v].destroying = TRUE]

(* Mutant of Then: objects are destroyed by their counts during a sweep.   *)
ThenInSweep(os, cs, v) ==
    IF v \in Obj /\ os[v].rc <= 1 THEN <<Do("destroy", v)>>
    ELSE IF v \in Ctx /\ cs[v].rc <= 1 THEN <<Do("free", v)>>
    ELSE <<>>

(* Mutant of Then: contexts are not freed by their counts during a sweep.  *)
ThenNotInSweep(os, cs, v) ==
    IF v \in Obj /\ os[v].rc <= 1 /\ ~gcrun THEN <<Do("destroy", v)>>
    ELSE IF v \in Ctx /\ cs[v].rc <= 1 /\ ~gcrun THEN <<Do("free", v)>>
    ELSE <<>>

Then(os, cs, v) ==
    IF v \in Obj /\ os[v].rc <= 1 /\ ~gcrun THEN <<Do("destroy", v)>>
    ELSE IF v \in Ctx /\ cs[v].rc <= 1 THEN <<Do("free", v)>>
    ELSE <<>>

---------------------------------------------------------------------------
(* The pool keeps freed blocks sorted by size.  objpool_binary_search:     *)
(* the first position of a search that halves the range.                   *)
Search(p, size) ==
    LET find[r \in (1 .. Len(p) + 1) \X (0 .. Len(p))] ==
            LET lo == r[1]
                hi == r[2]
                mid == (lo + hi) \div 2
            IN  IF lo > hi THEN lo
                ELSE IF Size[p[mid]] = size THEN mid
                ELSE IF Size[p[mid]] < size THEN find[<<mid + 1, hi>>]
                ELSE find[<<lo, mid - 1>>]
    IN  find[<<1, Len(p)>>]

(* Mutant of Pooled: the block goes to the end of the pool.                *)
PooledLast(p, o) ==
    IF Size[o] > MaxApp THEN p
    ELSE IF Len(p) < PoolMax THEN Append(p, o)
    ELSE [p EXCEPT ![PoolMax] = o]

(* var_free_object puts the block in the pool; a full pool gives up the    *)
(* block at that position.                                                 *)
Pooled(p, o) ==
    LET at == Search(p, Size[o])
    IN  IF Size[o] > MaxApp THEN p
        ELSE IF Len(p) < PoolMax
             THEN SubSeq(p, 1, at - 1) \o <<o>> \o SubSeq(p, at, Len(p))
             ELSE [p EXCEPT ![IF at > PoolMax THEN PoolMax ELSE at] = o]

(* var_create_obj takes a block of the same size from the pool when there  *)
(* is one, and otherwise memory that is neither in use nor pooled.         *)
InPool == {pool[i] : i \in 1 .. Len(pool)}

Obtained(o) ==
    LET at == Search(pool, Size[o])
        hit == at <= Len(pool) /\ Size[pool[at]] = Size[o]
    IN  IF hit THEN pool[at] = o ELSE ~obj[o].live /\ o \notin InPool

Without(p, o) ==
    IF \A i \in 1 .. Len(p) : p[i] # o THEN p
    ELSE LET at == CHOOSE i \in 1 .. Len(p) : p[i] = o
         IN  [i \in 1 .. Len(p) - 1 |-> p[IF i < at THEN i ELSE i + 1]]

---------------------------------------------------------------------------
(* Scripts.  A place is a variable of a context or a field of an object.   *)

At(pl) == IF pl[1] \in Ctx THEN context[pl[1]].ref[pl[2]] ELSE obj[pl[1]].ref[pl[2]]

(* What scripts can get at, starting from the main one.  Without           *)
(* "extend_array" in Ops they store nothing in the array interface.        *)
Known == Reach({Root}, Obj \cup Ctx)

Place ==
    LET known == Known
    IN  ((known \cap Ctx) \X Var) \cup
        ((IF "extend_array" \in Ops THEN known \cap Obj ELSE (known \cap Obj) \ {Array})
            \X Field)

(* Which values scripts store in the place: a bound of the instance.       *)
MayHold(pl, v) == pl[1] \in Obj => v \in Stored[pl[1]][pl[2]]

SetObj(os, pl, v) == IF pl[1] \in Obj THEN [os EXCEPT ![pl[1]].ref[pl[2]] = v] ELSE os
SetCtx(cs, pl, v) == IF pl[1] \in Ctx THEN [cs EXCEPT ![pl[1]].ref[pl[2]] = v] ELSE cs

(* Mutant of Write: the new value is not acquired.                         *)
WriteUnacquired(os, cs, pl, v) ==
    LET old == At(pl)
    IN  /\ obj' = Less(SetObj(os, pl, v), old)
        /\ context' = LessCtx(SetCtx(cs, pl, v), old)
        /\ calls' = Then(os, cs, old)

(* The place gets v, and the value it had is released.  v is also in a     *)
(* register of the running script, so that it outlives the release.        *)
Write(os, cs, pl, v) ==
    LET old == At(pl)
        os1 == Acquire(SetObj(os, pl, v), v)
        cs1 == AcquireCtx(SetCtx(cs, pl, v), v)
    IN  /\ obj' = Less(os1, old)
        /\ context' = LessCtx(cs1, old)
        /\ calls' = Then(os1, cs1, old)

Assign(pl, v) ==
    /\ Idle
    /\ v # At(pl) /\ MayHold(pl, v)
    /\ Write(obj, context, pl, v)
    /\ UNCHANGED <<states, pool, array, redblue, gcrun, engine>>

(* var_create_obj: the new object has the colour of the collector.         *)
NewObject(o, pl) ==
    /\ Idle
    /\ Obtained(o) /\ MayHold(pl, o)
    /\ Write([obj EXCEPT ![o] = [NoObject EXCEPT !.live = TRUE, !.mark = redblue]],
             context, pl, o)
    /\ pool' = Without(pool, o)
    /\ UNCHANGED <<states, array, redblue, gcrun, engine>>

(* co_create: sgsCTX_ForkState shares the globals.                         *)
Fork(c, pl) ==
    /\ Idle
    /\ ~context[c].live /\ MayHold(pl, c)
    /\ Write(Acquire(obj, Global),
             [context EXCEPT ![c] = [NoContext EXCEPT !.live = TRUE, !.ref["_G"] = Global]],
             pl, c)
    /\ states' = <<c>> \o states
    /\ UNCHANGED <<pool, array, redblue, gcrun, engine>>

(* A context known to a script becomes the subthread of another.           *)
Owners(c) == {p \in Ctx : context[p].ref["sub"] = c}

Adopt(p, c) ==
    /\ Idle /\ "adopt" \in Ops
    /\ c \notin {p, Root}
    /\ context[p].ref["sub"] = Null /\ Owners(c) = {}
    /\ context' = AcquireCtx([context EXCEPT ![p].ref["sub"] = c], c)
    /\ UNCHANGED <<obj, states, pool, array, redblue, gcrun, calls, engine>>

---------------------------------------------------------------------------
(* The steps of the calls that destroy things.                             *)

(* One reference that the innermost call drops: v, from the given tables,  *)
(* while it continues as the frames next.                                  *)
Drops(os, cs, v, next) ==
    /\ obj' = Less(os, v)
    /\ context' = LessCtx(cs, v)
    /\ calls' = Then(os, cs, v) \o next

(* var_destruct_object: the destructor of the object and its metaobject.   *)
DropField(f) ==
    /\ Top.k \in {"destroy", "destruct"}
    /\ obj[Top.x].ref[f] # Null
    /\ Drops([obj EXCEPT ![Top.x].ref[f] = Null], context, obj[Top.x].ref[f], calls)
    /\ UNCHANGED <<states, pool, array, redblue, gcrun, engine>>

NoFields == \A f \in Field : obj[Top.x].ref[f] = Null

(* sgsVM_VarDestroyObject ends: var_free_object.                           *)
FreeObject ==
    /\ Top.k = "destroy" /\ NoFields
    /\ obj' = [obj EXCEPT ![Top.x] = NoObject]
    /\ pool' = Pooled(pool, Top.x)
    /\ calls' = Rest
    /\ UNCHANGED <<context, states, array, redblue, gcrun, engine>>

(* The destructor that a sweep called ends.                                *)
Destructed ==
    /\ Top.k = "destruct" /\ NoFields
    /\ obj' = [obj EXCEPT ![Top.x].done = TRUE]
    /\ calls' = Rest
    /\ UNCHANGED <<context, states, pool, array, redblue, gcrun, engine>>

(* ctx_safedestroy: the stack, then the globals, then the threads.         *)
Order(s) == CASE s \in Var -> 0 [] s = "_G" -> 1 [] s = "sub" -> 2

DropSlot(s) ==
    /\ Top.k \in {"free", "safe"}
    /\ context[Top.x].ref[s] # Null
    /\ \A t \in Slot : context[Top.x].ref[t] # Null => Order(s) <= Order(t)
    /\ Drops(obj, [context EXCEPT ![Top.x].ref[s] = Null], context[Top.x].ref[s], calls)
    /\ UNCHANGED <<states, pool, array, redblue, gcrun, engine>>

Cleared(c) == \A s \in Slot : context[c].ref[s] = Null

(* sgsSTD_ThreadsFree: the context leaves the list it is in.  The code     *)
(* then frees an owner whose count is not above zero; there is none, since *)
(* an owner still has its threads (OwnersAreHeld in ObjectHeapProofs).     *)
LeaveOwner(p) ==
    /\ Top.k \in {"free", "safe"} /\ Cleared(Top.x)
    /\ p \in Owners(Top.x)
    /\ context' = [context EXCEPT ![p].ref["sub"] = Null, ![Top.x].rc = @ - 1]
    /\ UNCHANGED <<obj, states, pool, array, redblue, gcrun, calls, engine>>

Finished == Top.k \in {"free", "safe"} /\ Cleared(Top.x) /\ Owners(Top.x) = {}

(* The reference that protected the context is given back; sgsCTX_FreeState *)
(* goes on to ctx_destroy.                                                 *)
ContextCleared ==
    /\ Finished
    /\ context' = [context EXCEPT ![Top.x].rc = @ - 1]
    /\ calls' = IF Top.k = "free" THEN <<Do("drop", Top.x)>> \o Rest ELSE Rest
    /\ UNCHANGED <<obj, states, pool, array, redblue, gcrun, engine>>

(* ctx_destroy: the context leaves the state list.  The last one first     *)
(* releases what the contexts shared and collects what is left.            *)
DestroyContext ==
    /\ Top.k = "drop" /\ states # <<Top.x>>
    /\ states' = Without(states, Top.x)
    /\ context' = [context EXCEPT ![Top.x] = NoContext]
    /\ calls' = Rest
    /\ UNCHANGED <<obj, pool, array, redblue, gcrun, engine>>

DestroyLast ==
    /\ Top.k = "drop" /\ states = <<Top.x>> /\ array # Null
    /\ array' = Null
    /\ Drops(obj, context, array, <<Do("gc", Null), Do("last", Top.x)>> \o Rest)
    /\ UNCHANGED <<states, pool, redblue, gcrun, engine>>

LastDestroyed ==
    /\ Top.k = "last"
    /\ states' = <<>>
    /\ context' = [context EXCEPT ![Top.x] = NoContext]
    /\ calls' = Rest
    /\ UNCHANGED <<obj, pool, array, redblue, gcrun, engine>>

---------------------------------------------------------------------------
(* sgsVM_GCExecute.                                                        *)

Collect ==
    /\ Idle
    /\ calls' = <<Do("gc", Null)>>
    /\ UNCHANGED <<obj, context, states, pool, array, redblue, gcrun, engine>>

(* Mutant of Mark: only the root context's stack is an entry point.        *)
MarkRootOnly ==
    LET colour == ~redblue
        found == Reach(Refs(Root) \cup {array}, Obj)
    IN  /\ Top.k = "gc"
        /\ redblue' = colour
        /\ gcrun' = TRUE
        /\ obj' = [o \in Obj |-> IF o \in found THEN [obj[o] EXCEPT !.mark = colour] ELSE obj[o]]
        /\ calls' = <<[k |-> "sweep", x |-> Null,
                       todo |-> {o \in Obj : obj'[o].live /\ obj'[o].mark # colour}]>> \o Rest
        /\ UNCHANGED <<context, states, pool, array, engine>>

(* The colour is flipped and everything that the entry points reach gets   *)
(* it; the sweep will visit the rest.                                      *)
Mark ==
    LET colour == ~redblue
        found == Reach(Entries, Obj)
    IN  /\ Top.k = "gc"
        /\ redblue' = colour
        /\ gcrun' = TRUE
        /\ obj' = [o \in Obj |-> IF o \in found THEN [obj[o] EXCEPT !.mark = colour] ELSE obj[o]]
        /\ calls' = <<[k |-> "sweep", x |-> Null,
                       todo |-> {o \in Obj : obj'[o].live /\ obj'[o].mark # colour}]>> \o Rest
        /\ UNCHANGED <<context, states, pool, array, engine>>

(* First all of them are destructed, in the order of the object list.      *)
SweepDestruct(o) ==
    /\ Top.k = "sweep" /\ o \in Top.todo
    /\ calls' = <<Do("destruct", o), [Top EXCEPT !.todo = @ \ {o}]>> \o Rest
    /\ UNCHANGED <<obj, context, states, pool, array, redblue, gcrun, engine>>

Unmarked == {o \in Obj : obj[o].live /\ obj[o].mark # redblue}

(* Then all of them are freed.                                             *)
SweepFree(o) ==
    /\ Top.k = "sweep" /\ Top.todo = {} /\ o \in Unmarked
    /\ obj' = [obj EXCEPT ![o] = NoObject]
    /\ pool' = Pooled(pool, o)
    /\ UNCHANGED <<context, states, array, redblue, gcrun, calls, engine>>

(* Mutant of SweepEnds: the sweep ends before the last one is freed.       *)
SweepEndsEarly ==
    /\ Top.k = "sweep" /\ Top.todo = {} /\ Cardinality(Unmarked) <= 1
    /\ gcrun' = FALSE
    /\ calls' = Rest
    /\ UNCHANGED <<obj, context, states, pool, array, redblue, engine>>

SweepEnds ==
    /\ Top.k = "sweep" /\ Top.todo = {} /\ Unmarked = {}
    /\ gcrun' = FALSE
    /\ calls' = Rest
    /\ UNCHANGED <<obj, context, states, pool, array, redblue, engine>>

---------------------------------------------------------------------------
(* sgs_DestroyEngine, called by the host with the root context.            *)

Destroy ==
    /\ Idle /\ "destroy" \in Ops
    /\ engine' = "closing"
    /\ context' = [context EXCEPT ![Root].rc = @ - 1]
    /\ calls' = <<Do("round", Null)>>
    /\ UNCHANGED <<obj, states, pool, array, redblue, gcrun>>

(* Each round clears every context, collects, and destroys one context     *)
(* that nothing refers to.                                                 *)
Round ==
    /\ Top.k = "round" /\ states # <<>>
    /\ context' = [context EXCEPT ![Root].rc = @ + 1]
    /\ calls' = <<Do("clear", Head(states))>> \o Rest
    /\ UNCHANGED <<obj, states, pool, array, redblue, gcrun, engine>>

ClearOne ==
    /\ Top.k = "clear"
    /\ context' = [context EXCEPT ![Top.x].rc = @ + 1, ![Top.x].destroying = TRUE]
    /\ calls' = <<Do("safe", Top.x), Do("next", Top.x)>> \o Rest
    /\ UNCHANGED <<obj, states, pool, array, redblue, gcrun, engine>>

Following(c) ==
    LET i == CHOOSE i \in 1 .. Len(states) : states[i] = c
    IN  IF i = Len(states) THEN Null ELSE states[i + 1]

(* Mutant of ClearNext: the end of the list is not noticed.                *)
ClearNextAlways ==
    /\ Top.k = "next"
    /\ calls' = <<Do("clear", Following(Top.x))>> \o Rest
    /\ UNCHANGED <<obj, context, states, pool, array, redblue, gcrun, engine>>

ClearNext ==
    /\ Top.k = "next"
    /\ calls' = (IF Following(Top.x) # Null THEN <<Do("clear", Following(Top.x))>>
                 ELSE <<Do("gc", Null), Do("pick", Null)>>) \o Rest
    /\ UNCHANGED <<obj, context, states, pool, array, redblue, gcrun, engine>>

Unused == {i \in 1 .. Len(states) : context'[states[i]].rc <= 0}

(* Mutant of Pick: the reference that protects the root is kept.           *)
PickKeepsRoot ==
    /\ Top.k = "pick"
    /\ UNCHANGED context
    /\ calls' = (IF Unused = {} THEN <<Do("forced", Null)>>
                 ELSE LET i == CHOOSE i \in Unused : \A j \in Unused : i <= j
                      IN  <<Do("drop", states[i]), Do("round", Null)>>) \o Rest
    /\ UNCHANGED <<obj, states, pool, array, redblue, gcrun, engine>>

(* A context with no references is destroyed.  When there is none, the     *)
(* assertion "some user-made states have not been freed" fails and the     *)
(* model stops.                                                            *)
Pick ==
    /\ Top.k = "pick"
    /\ context' = [context EXCEPT ![Root].rc = @ - 1]
    /\ calls' = (IF Unused = {} THEN <<Do("forced", Null)>>
                 ELSE LET i == CHOOSE i \in Unused : \A j \in Unused : i <= j
                      IN  <<Do("drop", states[i]), Do("round", Null)>>) \o Rest
    /\ UNCHANGED <<obj, states, pool, array, redblue, gcrun, engine>>

(* All contexts are gone: shctx_destroy frees the pool.                    *)
Down ==
    /\ Top.k = "round" /\ states = <<>>
    /\ engine' = "down"
    /\ pool' = <<>>
    /\ calls' = <<>>
    /\ UNCHANGED <<obj, context, states, array, redblue, gcrun>>

---------------------------------------------------------------------------
Init ==
    /\ obj = [o \in Obj |->
                IF o = Array THEN [NoObject EXCEPT !.live = TRUE, !.rc = 1 + Cardinality(Field)]
                ELSE IF o = Global
                THEN [NoObject EXCEPT !.live = TRUE, !.rc = 1, !.ref = [f \in Field |-> Array]]
                ELSE NoObject]
    /\ context = [c \in Ctx |->
                IF c = Root THEN [NoContext EXCEPT !.live = TRUE, !.rc = 1, !.ref["_G"] = Global]
                ELSE NoContext]
    /\ states = <<Root>>
    /\ pool = <<>>
    /\ array = Array
    /\ redblue = FALSE
    /\ gcrun = FALSE
    /\ calls = <<>>
    /\ engine = "up"

Script ==
    \/ \E pl \in Place : \/ \E v \in (Known \ {Root}) \cup {Null} : Assign(pl, v)
                         \/ \E o \in Obj : NewObject(o, pl)
                         \/ \E c \in Ctx : Fork(c, pl)
    \/ \E p, c \in Known \cap Ctx : Adopt(p, c)
    \/ Collect
    \/ Destroy

Step ==
    \/ \E f \in Field : DropField(f)
    \/ \E s \in Slot : DropSlot(s)
    \/ \E p \in Ctx : LeaveOwner(p)
    \/ \E o \in Obj : SweepDestruct(o) \/ SweepFree(o)
    \/ FreeObject \/ Destructed \/ ContextCleared \/ DestroyContext \/ DestroyLast
    \/ LastDestroyed \/ Mark \/ SweepEnds
    \/ Round \/ ClearOne \/ ClearNext \/ Pick \/ Down

Next == Script \/ Step

Spec == Init /\ [][Next]_vars

(* Nothing interrupts the C code: a call that is under way continues.      *)
FairSpec == Spec /\ WF_vars(Step)

---------------------------------------------------------------------------
(* Every variable has its type.                                            *)
TypeOK ==
    /\ obj \in [Obj -> Object] /\ context \in [Ctx -> Context]
    /\ states \in Seq(Ctx) /\ pool \in Seq(Obj)
    /\ array \in Obj \cup {Null} /\ redblue \in BOOLEAN /\ gcrun \in BOOLEAN
    /\ calls \in Seq(Call) /\ engine \in {"up", "closing", "down"}

LiveObj == {o \in Obj : obj[o].live}
LiveCtx == {c \in Ctx : context[c].live}
Frames(kinds, x) == {i \in 1 .. Len(calls) : calls[i].k \in kinds /\ calls[i].x = x}

References(v) ==
    Cardinality({pl \in LiveObj \X Field : obj[pl[1]].ref[pl[2]] = v})
    + Cardinality({pl \in LiveCtx \X Slot : context[pl[1]].ref[pl[2]] = v})
    + (IF array = v THEN 1 ELSE 0)

(* The engine's own reference to the root context, which a round of        *)
(* sgs_DestroyEngine takes back for a while.                               *)
EngineHolds ==
    engine = "up" \/ \E i \in 1 .. Len(calls) : calls[i].k \in {"clear", "next", "pick"}

(* Every count is the number of references, in the middle of destructors   *)
(* and sweeps as well, and a context being cleared has one more.           *)
RcExact ==
    /\ \A o \in LiveObj : obj[o].rc = References(o)
    /\ \A c \in LiveCtx :
          context[c].rc = References(c) + Cardinality(Frames({"free", "safe"}, c))
                            + (IF c = Root /\ EngineHolds THEN 1 ELSE 0)

(* No value anywhere, and no call under way, refers to a freed block: a    *)
(* sweep, which frees objects whatever their counts, included.             *)
NoDangling ==
    LET used == (UNION {Refs(x) : x \in LiveObj \cup LiveCtx}) \cup {array}
                    \cup {calls[i].x : i \in 1 .. Len(calls)}
    IN  used \subseteq LiveObj \cup LiveCtx \cup {Null}

(* What a script could still reach is never destructed, by its count or    *)
(* by a sweep.                                                             *)
ReachableIntact ==
    engine = "up" => \A o \in Reach(Entries, Obj) :
        obj[o].live /\ ~obj[o].done /\ Frames({"destroy", "destruct"}, o) = {}

(* A collection leaves nothing that was out of reach when it began: what   *)
(* it finds is reachable, while destructors run and contexts are freed     *)
(* nothing else gets the colour, and only what has it is left in the end.  *)
(* Contexts get no colour: each of them, wherever it is referred to, is an *)
(* entry point.  But those that only garbage held are freed with it, so    *)
(* that in the end something that is left refers to every other thread.    *)
Found == {o \in LiveObj : obj[o].mark = redblue}
Held == \A c \in LiveCtx \ {Root} : \E x \in LiveObj \cup LiveCtx : c \in Refs(x)
CollectsCycles ==
    [][/\ ~gcrun /\ gcrun' => Found' \subseteq Reach(Entries, Obj)
       /\ gcrun /\ gcrun' => Found' \subseteq Found
       /\ gcrun /\ ~gcrun' => LiveObj' \subseteq Found /\ (engine = "up" => Held')]_vars

(* The pool is sorted, within its size, and holds free blocks, each once.  *)
PoolSound ==
    /\ Len(pool) <= PoolMax
    /\ \A i, j \in 1 .. Len(pool) : i < j => Size[pool[i]] <= Size[pool[j]] /\ pool[i] # pool[j]
    /\ InPool \cap LiveObj = {}

(* sgs_DestroyEngine frees every context and ends.                         *)
DestroyEnds == engine = "closing" ~> engine = "down"
=============================================================================

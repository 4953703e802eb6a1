------------------------------ MODULE SharedMap ------------------------------
(***************************************************************************)
(* What a ppthread object of ext/sgspproc.c promises the two threads that  *)
(* share it: a map on which has, get, set and set_if each take effect at   *)
(* one moment between the call and its return.  set_if is the              *)
(* compare-and-swap that examples/threaded-load.sgs builds its lock from.  *)
(***************************************************************************)
CONSTANTS
    Actor,      \* the threads that share the map
    Key,
    Value,
    None        \* no value: the key is not in the map

VARIABLES
    map,        \* the value of each key
    req         \* what each thread has asked for, and the answer

absVars == <<map, req>>

NoRequest == [at |-> "idle"]
Serialized == Value \cup {None}

(* The operations and what they answer.                                    *)
Ask(op, k, v, w) == [at |-> "asked", op |-> op, key |-> k, val |-> v, old |-> w]

Bool(b) == IF b THEN "true" ELSE "false"

Answer(r) ==
    CASE r.op = "has"    -> Bool(map[r.key] # None)
      [] r.op = "get"    -> map[r.key]
      [] r.op = "set"    -> "true"
      [] r.op = "set_if" -> IF map[r.key] = None THEN None ELSE Bool(map[r.key] = r.old)

Changes(r) == r.op \in {"set", "set_if"} /\ Answer(r) = "true"

AbsInit == map = [k \in Key |-> None] /\ req = [a \in Actor |-> NoRequest]

Request(a) ==
    /\ req[a] = NoRequest
    /\ \E op \in {"has", "get", "set", "set_if"}, k \in Key, v, w \in Serialized :
            req' = [req EXCEPT ![a] = Ask(op, k, v, w)]
    /\ UNCHANGED map

Perform(a) ==
    LET r == req[a]
    IN  /\ r.at = "asked"
        /\ req' = [req EXCEPT ![a] = [at |-> "answered", ret |-> Answer(r)]]
        /\ map' = IF Changes(r) THEN [map EXCEPT ![r.key] = r.val] ELSE map

Reply(a) ==
    /\ req[a].at = "answered"
    /\ req' = [req EXCEPT ![a] = NoRequest]
    /\ UNCHANGED map

(* The object is destroyed, which no thread may be using.                  *)
Forget ==
    /\ \A a \in Actor : req[a] = NoRequest
    /\ map' = [k \in Key |-> None]
    /\ UNCHANGED req

AbsNext == Forget \/ \E a \in Actor : Request(a) \/ Perform(a) \/ Reply(a)

AbsSpec == AbsInit /\ [][AbsNext]_absVars
=============================================================================

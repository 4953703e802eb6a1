------------------------------ MODULE Dictionary ------------------------------
(* What a hash table of src/sgs_util.c promises: sgs_vht_get finds what    *)
(* the last sgs_vht_set of the key stored, until sgs_vht_unset.            *)
CONSTANTS Key, Value, None

VARIABLES
    dict,       \* the value of each key
    last        \* the call that was made last

absVars == <<dict, last>>

AbsInit == dict = [k \in Key |-> None] /\ last = <<"init">>

AbsSet(k, v) == last' = <<"set", k, v>> /\ dict' = [dict EXCEPT ![k] = v]

AbsUnset(k) == last' = <<"unset", k>> /\ dict' = [dict EXCEPT ![k] = None]

AbsNext == \E k \in Key : AbsUnset(k) \/ \E v \in Value : AbsSet(k, v)

AbsSpec == AbsInit /\ [][AbsNext]_absVars
=============================================================================

---------------------------- MODULE MCSerializer ----------------------------
(***************************************************************************)
(* The serializers on small graphs: a pointer, which cannot be serialized, *)
(* a C function with a symbol, and strings that text has to escape.        *)
(***************************************************************************)
EXTENDS Json

TheLeaves == {<<"ptr">>, CFunc("print"), Str("two\nlines"), Str("say \"x\"")}

(* Unserialize of what serialize made is what was serialized, in all modes *)
(* and in JSON: the graph in mode 2, a tree of the same values in others.  *)
Recreates == RecreatesGraphs /\ RecreatesTrees /\ RecreatesJson
=============================================================================

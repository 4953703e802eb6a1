-------------------------------- MODULE Json --------------------------------
(***************************************************************************)
(* json_encode and json_decode, ext/sgsjson.c, on the lexemes of           *)
(* SerializerText.  The mark ":" of the code is "=" here, as in Parser3.   *)
(***************************************************************************)
EXTENDS SerializerText

Written(text) == [ok |-> TRUE, text |-> text]
NotWritten == [ok |-> FALSE, text |-> <<>>]

(* sgs_ToString of a key                                                   *)
ToText(k) == IF k[1] = "str" THEN k ELSE Str(k[1])

(* Mutant of EscapedJson: quotes are written as they are.                  *)
EscapedNothing == {}
EscapedJson == {"quote"}
WriteBasicJson(v) == IF v[1] = "str" THEN Quoted(v[2], EscapedJson) ELSE WriteBasic(v)

RECURSIVE EncodeVar(_, _)

(* The items as an iterator yields them: a key only outside of arrays.     *)
EncodeItem(h, o, i) ==
    LET e == EncodeVar(h, o.items[i].v)
    IN  IF o.kind = "array" \/ ~e.ok THEN e
        ELSE Written(<<WriteBasicJson(ToText(o.items[i].k)), P(":")>> \o e.text)

(* encode_var: what it cannot write fails the whole call.                  *)
EncodeObject(h, o) ==
    LET items == [i \in DOMAIN o.items |-> EncodeItem(h, o, i)]
        list == Separated([i \in DOMAIN items |-> items[i].text])
    IN  IF ~Serializable(o) \/ \E i \in DOMAIN items : ~items[i].ok THEN NotWritten
        ELSE IF o.kind = "array" THEN Written(<<P("[")>> \o list \o <<P("]")>>)
        ELSE Written(<<P("{")>> \o list \o <<P("}")>>)

EncodeVar(h, v) ==
    CASE v[1] \in Unsupported -> NotWritten
      [] v[1] = "obj" -> EncodeObject(h, h.objs[v[2]])
      [] OTHER -> Written(<<WriteBasicJson(v)>>)

---------------------------------------------------------------------------
(* json_parse.  After a value come a comma and another one, or the closing *)
(* bracket.                                                                *)
CompleteJson(d, text, i) ==
    IF Marked(d) \notin {"[", "="} THEN Goes(d, i)
    ELSE CASE At(text, i) = Closing(d) -> Goes(Store(d), i)
           [] At(text, i) = P(",") /\ At(text, i + 1) # Closing(d) -> Goes(Store(d), i + 1)
           [] OTHER -> Stops(d)

KeyedJson(d, text, i) == IF At(text, i) = P(":") THEN Goes(Remark(d, "="), i + 1) ELSE Stops(d)
CloseJson(d, text, i, marks) ==
    IF Marked(d) \notin marks THEN Stops(d) ELSE CompleteJson(Unmark(d), text, i)

BracketJson(d, text, i) ==
    LET c == text[i][2]
    IN  CASE c = "{" -> Goes(PushNew(Mark(d, "{"), "dict"), i + 1)
          [] c = "}" -> CloseJson(d, text, i + 1, {"{", "="})
          [] c = "[" -> Goes(PushNew(Mark(d, "["), "array"), i + 1)
          [] c = "]" -> CloseJson(d, text, i + 1, {"["})
          [] OTHER -> Stops(d)

(* A control character in a string stops the parser, a quote ends it.      *)
StringJson(d, text, i) ==
    IF text[i][3] # {} THEN Stops(d)
    ELSE LET e == PushVal(d, Str(text[i][2]))
         IN  IF Marked(d) = "{" THEN KeyedJson(e, text, i + 1) ELSE CompleteJson(e, text, i + 1)

ValueJson(d, text, i) ==
    CASE text[i][1] = "num" -> CompleteJson(PushVal(d, Num(text[i][2])), text, i + 1)
      [] text[i][1] = "id" ->
            IF text[i][2] \in Constants THEN CompleteJson(PushVal(d, Null), text, i + 1) ELSE Stops(d)

RECURSIVE ParseJson(_, _, _)
ParseJson(d, text, i) ==
    IF ~d.ok \/ i > Len(text) THEN d
    ELSE LET t == text[i]
             next == CASE Marked(d) = "{" /\ t[1] # "quoted" /\ t # P("}") -> Stops(d)
                       [] Marked(d) = "" /\ d.vals # <<>> -> Stops(d)
                       [] OTHER -> CASE t[1] = "p" -> BracketJson(d, text, i)
                                     [] t[1] = "quoted" -> StringJson(d, text, i)
                                     [] OTHER -> ValueJson(d, text, i)
         IN  ParseJson(next.d, text, next.at)

DecodeJson(h, text) ==
    LET d == ParseJson(Parser3(h), text, 1) IN Kept(h, IF d.marks = <<"">> THEN d ELSE Refuse(d))

---------------------------------------------------------------------------
(* JSON has no functions, and no maps: they come back as dicts.  The keys  *)
(* of maps are compared if they are strings.  A string with a control      *)
(* character is written as it is and refused by the decoder.               *)
Leaf(w) == w[1] # "obj" \/ Serializable(heap.objs[w[2]])
HasText(w) == w[1] # "str" \/ "control" \notin Special(w[2])
TextKeys(w) ==
    IF w[1] # "obj" THEN TRUE
    ELSE heap.objs[w[2]].kind # "map" \/ \A i \in DOMAIN heap.objs[w[2]].items : heap.objs[w[2]].items[i].k[1] = "str"

MapsAsDicts == [array |-> "array", dict |-> "dict", map |-> "dict"]

CopiedByJson(v) ==
    Finite(v, {}) => \A parts \in {PartsOf(v)} : Obj(1) \notin parts /\ (\A w \in parts : TextKeys(w)) =>
        \A e \in {EncodeVar(heap, v)} :
            /\ e.ok = (\A w \in parts : w[1] \notin Unsupported /\ Leaf(w))
            /\ e.ok /\ (\A w \in parts : HasText(w)) =>
                \A u \in {DecodeJson(heap, e.text)} : u.ok /\ Alike(heap, v, u.heap, u.value, MapsAsDicts)

(* What json_decode makes of what json_encode wrote is the same tree; and  *)
(* a tree is written if and only if no part of it is a function, a pointer,*)
(* a thread or an object without an iterator.                              *)
RecreatesJson == \A o \in Objects \ {1} : CopiedByJson(Obj(o))
=============================================================================

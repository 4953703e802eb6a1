--------------------------- MODULE PatternMeaning ---------------------------
(***************************************************************************)
(* What a regular expression means, as the reference for Regex: its tree,  *)
(* and the matches of a tree at a position in the order in which greedy    *)
(* and lazy repeats and alternatives prefer them.                          *)
(*                                                                         *)
(* A pattern is a sequence of tokens: a character stands for itself; the   *)
(* others are . [a] [^a] ^ $ ( ) | the repeats and \1.                     *)
(***************************************************************************)
EXTENDS Integers, Sequences, SequencesExt

Letters == {"a", "b"}
Unlimited == 99
Sets == {".", "[a]", "[^a]"}
Members(t) == CASE t = "." -> Letters [] t = "[a]" -> {"a"} [] t = "[^a]" -> Letters \ {"a"}

Bounds(t) ==
    CASE t = "*" -> <<0, Unlimited>>
      [] t = "+" -> <<1, Unlimited>>
      [] t = "?" -> <<0, 1>>
      [] t = "{2}" -> <<2, 2>>
      [] t = "{1,2}" -> <<1, 2>>
Repeats == {"*", "+", "?", "{2}", "{1,2}"}

---------------------------------------------------------------------------
(* The tree of the tokens p from i, and where it ends; at = 0 if there is  *)
(* none.  Groups are numbered by their opening parentheses.                *)
Parsed(at, tree) == [at |-> at, tree |-> tree]
Nothing == Parsed(0, <<"none">>)
Token(p, i) == IF i <= Len(p) THEN p[i] ELSE "end"
Opened(p, i) == Len(SelectSeq(SubSeq(p, 1, i), LAMBDA t : t = "("))

RECURSIVE ParseAlternatives(_, _), ParseSequence(_, _)

Grouped(p, i, in) ==
    IF in.at # 0 /\ Token(p, in.at) = ")"
    THEN Parsed(in.at + 1, <<"group", Opened(p, i), in.tree>>) ELSE Nothing

ParseAtom(p, i, t) ==
    CASE t \in Letters -> Parsed(i + 1, <<"char", t>>)
      [] t \in Sets -> Parsed(i + 1, <<"set", Members(t)>>)
      [] t = "\\1" -> IF Opened(p, i) > 0 THEN Parsed(i + 1, <<"same", 1>>) ELSE Nothing
      [] t = "(" -> Grouped(p, i, ParseAlternatives(p, i + 1))
      [] OTHER -> Nothing

Repeated(p, atom) ==
    IF atom.at = 0 \/ Token(p, atom.at) \notin Repeats THEN atom
    ELSE LET lazy == Token(p, atom.at + 1) = "?"
         IN  Parsed(IF lazy THEN atom.at + 2 ELSE atom.at + 1,
                    <<"repeat", Bounds(p[atom.at]), lazy, atom.tree>>)

ParseItem(p, i) ==
    IF Token(p, i) \in {"^", "$"} THEN Parsed(i + 1, <<Token(p, i)>>)
    ELSE Repeated(p, ParseAtom(p, i, Token(p, i)))

Joined(kind, first, rest) ==
    IF rest.at = 0 THEN Nothing ELSE Parsed(rest.at, <<kind, first.tree, rest.tree>>)

SequenceFrom(p, first) ==
    IF first.at = 0 \/ Token(p, first.at) \in {"|", ")", "end"} THEN first
    ELSE Joined("then", first, ParseSequence(p, first.at))
ParseSequence(p, i) == SequenceFrom(p, ParseItem(p, i))

AlternativesFrom(p, first) ==
    IF first.at = 0 \/ Token(p, first.at) # "|" THEN first
    ELSE Joined("or", first, ParseAlternatives(p, first.at + 1))
ParseAlternatives(p, i) == AlternativesFrom(p, ParseSequence(p, i))

Whole(p, all) == IF all.at = Len(p) + 1 THEN all.tree ELSE <<"none">>
Tree(p) == Whole(p, ParseAlternatives(p, 1))
WellFormed(p) == Tree(p) # <<"none">>

---------------------------------------------------------------------------
(* The matches of a tree in text s from position i, each the position after*)
(* it with the groups captured so far, the preferred one first.            *)
Unset == <<-1, -1>>
One(j, caps) == <<[at |-> j, caps |-> caps]>>
Next1(s, i, caps, good) == IF i < Len(s) /\ good THEN One(i + 1, caps) ELSE <<>>
After(results, F(_)) == FlattenSeq([k \in DOMAIN results |-> F(results[k])])

RECURSIVE Matches(_, _, _, _), MatchesTimes(_, _, _, _, _)

Matches(t, s, i, caps) ==
    CASE t[1] = "char" -> Next1(s, i, caps, IF i < Len(s) THEN s[i + 1] = t[2] ELSE FALSE)
      [] t[1] = "set" -> Next1(s, i, caps, IF i < Len(s) THEN s[i + 1] \in t[2] ELSE FALSE)
      [] t[1] = "^" -> IF i = 0 THEN One(i, caps) ELSE <<>>
      [] t[1] = "$" -> IF i = Len(s) THEN One(i, caps) ELSE <<>>
      [] t[1] = "same" ->
            LET g == caps[t[2]]
                n == g[2] - g[1]
            IN  IF g # Unset /\ i + n <= Len(s) /\ SubSeq(s, i + 1, i + n) = SubSeq(s, g[1] + 1, g[2])
                THEN One(i + n, caps) ELSE <<>>
      [] t[1] = "then" ->
            After(Matches(t[2], s, i, caps), LAMBDA r : Matches(t[3], s, r.at, r.caps))
      [] t[1] = "or" -> Matches(t[2], s, i, caps) \o Matches(t[3], s, i, caps)
      [] t[1] = "group" ->
            After(Matches(t[3], s, i, caps),
                  LAMBDA r : One(r.at, [r.caps EXCEPT ![t[2]] = <<i, r.at>>]))
      [] t[1] = "repeat" -> MatchesTimes(t, 0, s, i, caps)

MatchesTimes(t, n, s, i, caps) ==
    LET more == IF n = t[2][2] THEN <<>>
                ELSE After(Matches(t[4], s, i, caps), LAMBDA r : MatchesTimes(t, n + 1, s, r.at, r.caps))
        enough == IF n >= t[2][1] THEN One(i, caps) ELSE <<>>
    IN  IF t[3] THEN enough \o more ELSE more \o enough

(* The first match of pattern p in s: the leftmost one, which is not sought*)
(* at the end of the text.                                                 *)
RECURSIVE FirstMatch(_, _, _, _)
FirstMatch(t, s, i, groups) ==
    IF i >= Len(s) THEN <<>>
    ELSE LET found == Matches(t, s, i, [g \in 1 .. groups |-> Unset])
         IN  IF found # <<>> THEN <<<<i, found[1].at>>>> \o found[1].caps
             ELSE FirstMatch(t, s, i + 1, groups)

Found(p, s) == FirstMatch(Tree(p), s, 0, Opened(p, Len(p)))

(* s with every match replaced by the tokens r: letters, and \0 and \1 for *)
(* what the whole match and the first group matched.                       *)
Slot == [t \in {"\\0", "\\1"} |-> IF t = "\\0" THEN 1 ELSE 2]
Between(s, span) == SubSeq(s, span[1] + 1, span[2])
Expand(r, s, spans) ==
    FlattenSeq([k \in DOMAIN r |->
        IF r[k] \notin DOMAIN Slot THEN <<r[k]>>
        ELSE IF Slot[r[k]] \in DOMAIN spans /\ spans[Slot[r[k]]] # Unset
        THEN Between(s, spans[Slot[r[k]]]) ELSE <<>>])

RECURSIVE Replaced(_, _, _, _)
Replaced(p, s, r, found) ==
    IF found = <<>> THEN s
    ELSE LET rest == SubSeq(s, found[1][2] + 1, Len(s))
         IN  SubSeq(s, 1, found[1][1]) \o Expand(r, s, found) \o Replaced(p, rest, r, Found(p, rest))
ReplacedIn(p, s, r) == Replaced(p, s, r, Found(p, s))

---------------------------------------------------------------------------
(* Trees that can match without a character; and those with a repeat of    *)
(* one, which need not end.                                                *)
RECURSIVE Nullable(_)
Nullable(t) ==
    CASE t[1] \in {"char", "set"} -> FALSE
      [] t[1] \in {"^", "$", "same"} -> TRUE
      [] t[1] = "then" -> Nullable(t[2]) /\ Nullable(t[3])
      [] t[1] = "or" -> Nullable(t[2]) \/ Nullable(t[3])
      [] t[1] = "group" -> Nullable(t[3])
      [] t[1] = "repeat" -> t[2][1] = 0 \/ Nullable(t[4])

(* The trees in t, itself included.                                        *)
RECURSIVE Subtrees(_)
Subtrees(t) ==
    {t} \cup
    CASE t[1] \in {"then", "or"} -> Subtrees(t[2]) \cup Subtrees(t[3])
      [] t[1] = "group" -> Subtrees(t[3])
      [] t[1] = "repeat" -> Subtrees(t[4])
      [] OTHER -> {}
=============================================================================

-------------------------------- MODULE Regex --------------------------------
(***************************************************************************)
(* Regular expressions, sgs_regex.c: the compiler from tokens to           *)
(* instructions, and the matcher with its stack of states, its stack of    *)
(* iteration counts and its captures, one action per instruction.          *)
(* Positions in text and code count from 0, as in the source.              *)
(***************************************************************************)
EXTENDS PatternMeaning, FiniteSets

CONSTANTS
    Patterns,   \* the patterns that are compiled
    Texts,      \* the texts in which they are sought
    Replacement, \* what srx_ReplaceExt puts in the place of a match
    MaxCaptures \* RX_MAX_CAPTURES

ASSUME TextsAssumption == \A s \in Texts : s = <<>> \/ Tail(s) \in Texts

VARIABLES
    pattern, subject,
    text,    \* the part of subject that is matched
    out,     \* what was made of the rest
    prog,    \* what the compiler made of the pattern
    states,  \* the stack of states: off, instr, back (tried before), iters
    iternum, \* the stack of iteration counts
    caps,    \* per capture its start and end, or -1
    from,    \* where the match is to begin
    result   \* "running", "match", "none", "replaced", "error" or "fault"
vars == <<pattern, subject, text, out, prog, states, iternum, caps, from, result>>

---------------------------------------------------------------------------
(* The compiler: code, the open groups, and the number of captures.        *)
Instr(op, start, n, len, chars) == [op |-> op, start |-> start, from |-> n, len |-> len, chars |-> chars]
Op(op) == Instr(op, 0, 0, 0, <<>>)
NoTarget == -1
RefersToOther == {"greedy", "lazy", "jump", "btjump"}

Group(n, slot) == [start |-> n, section |-> n, repeat |-> n, slot |-> slot]
NoCode == [code |-> <<>>, groups |-> <<Group(1, 0)>>, captures |-> 0, empty |-> TRUE, err |-> ""]

Size(c) == Len(c.code)
LastOp(c) == IF c.code = <<>> THEN "" ELSE Last(c.code).op
LastGroup(c) == Last(c.groups)
Fails(c, err) == [c EXCEPT !.err = err]
RepeatFrom(c, n) == [c EXCEPT !.groups[Len(c.groups)].repeat = n]

(* rxFixLastInstr: two strings at the end become one.                      *)
FixLast(c) ==
    LET n == Size(c)
    IN  IF n >= 2 /\ LastOp(c) = "string" /\ c.code[n - 1].op = "string"
        THEN [c EXCEPT !.code = Append(SubSeq(c.code, 1, n - 2),
                           [c.code[n - 1] EXCEPT !.chars = @ \o c.code[n].chars])]
        ELSE c

Push(c, i) == LET d == FixLast(c) IN [d EXCEPT !.code = Append(@, i)]

(* rxInsertInstr: references behind the place are adjusted.                *)
Insert(c, pos, i) ==
    LET Moved(j) == IF j.op \in RefersToOther /\ j.start > pos THEN [j EXCEPT !.start = @ + 1] ELSE j
        code == [k \in DOMAIN c.code |-> Moved(c.code[k])]
    IN  [c EXCEPT !.code = SubSeq(code, 1, pos) \o <<i>> \o SubSeq(code, pos + 1, Len(code))]

(* The jumps behind alternatives of a group lead to its end.               *)
FixJumps(c, start) ==
    [c EXCEPT !.code = [k \in DOMAIN @ |->
        IF k > start /\ @[k].op = "jump" /\ @[k].start = NoTarget
        THEN [@[k] EXCEPT !.start = Size(c)] ELSE @[k]]]

Matcher(c, i) == LET d == Push(c, i) IN RepeatFrom(d, Size(d) - 1)
Position(c, op) == LET d == Push(c, Op(op)) IN [RepeatFrom(d, Size(d)) EXCEPT !.empty = FALSE]

OpenGroup(c) ==
    LET slot == IF c.captures < MaxCaptures THEN c.captures ELSE 0
        d == RepeatFrom(c, Size(c))
        e == IF slot = 0 THEN d
             ELSE [Push(d, Instr("capstart", 0, slot, 0, <<>>)) EXCEPT !.captures = @ + 1]
    IN  [e EXCEPT !.groups = Append(@, Group(Size(e), slot))]

CloseGroup(c) ==
    LET d == FixJumps(FixLast(c), LastGroup(c).start)
        e == [d EXCEPT !.groups = Front(@)]
        slot == LastGroup(c).slot
    IN  IF Len(c.groups) < 2 \/ LastGroup(c).section = Size(c) THEN Fails(c, "RXEUNEXP")
        ELSE IF slot = 0 THEN e ELSE Push(e, Instr("capend", 0, slot, 0, <<>>))

Alternative(c) ==
    LET d == Push(c, Instr("jump", NoTarget, 0, 0, <<>>))
        e == Insert(d, LastGroup(c).section, Instr("btjump", Size(d) + 1, 0, 0, <<>>))
    IN  IF LastGroup(c).section = Size(c) THEN Fails(c, "RXEUNEXP")
        ELSE [RepeatFrom(e, Size(e)) EXCEPT !.groups[Len(c.groups)].section = Size(e)]

Repeat(c, t) ==
    LET at == LastGroup(c).repeat
        d == Insert(c, at, Instr("jump", Size(c) + 1, 0, 0, <<>>))
        e == Push(d, Instr("greedy", at + 1, Bounds(t)[1], Bounds(t)[2], <<>>))
    IN  IF LastOp(c) \in {"greedy", "lazy"} \/ Size(c) = at THEN Fails(c, "RXEUNEXP")
        ELSE RepeatFrom(e, Size(e))

CompileToken(c, t) ==
    CASE t \in Letters -> Matcher(c, Instr("string", 0, 0, 0, <<t>>))
      [] t \in Sets -> Matcher(c, Instr("set", 0, 0, 0, Members(t)))
      [] t = "\\1" -> IF 1 >= c.captures THEN Fails(c, "RXENOREF")
                      ELSE Matcher(c, Instr("backref", 0, 1, 0, <<>>))
      [] t = "^" -> Position(c, "slstart")
      [] t = "$" -> Position(c, "slend")
      [] t = "(" -> OpenGroup(c)
      [] t = ")" -> CloseGroup(c)
      [] t = "|" -> Alternative(c)
      [] t = "?" /\ LastOp(c) = "greedy" -> [c EXCEPT !.code[Size(c)].op = "lazy"]
      [] t \in Repeats /\ ~(t = "?" /\ LastOp(c) = "greedy") -> Repeat(c, t)

(* The loop of rxCompile; something was compiled once the place to repeat  *)
(* is in front of the end.                                                 *)
CompileNext(c, t) ==
    LET d == CompileToken(c, t)
    IN  IF c.err # "" THEN c
        ELSE IF d.err # "" THEN d
        ELSE [d EXCEPT !.empty = @ /\ ~(LastOp(d) # "capend" /\ LastGroup(d).repeat < Size(d))]

Ended(c) ==
    IF c.err # "" THEN c
    ELSE IF c.empty THEN Fails(c, "RXEEMPTY")
    ELSE IF LastGroup(c).section = Size(c) THEN Fails(c, "RXEPART")
    ELSE LET d == FixJumps(c, LastGroup(c).start)
         IN  Push(Push(d, Op("capend")), Op("done"))

Compile(p) == Ended(FoldLeft(CompileNext, [Push(NoCode, Op("capstart")) EXCEPT !.captures = 1], p))

---------------------------------------------------------------------------
(* The matcher: the top state and its instruction.                         *)
State(off, instr) == [off |-> off, instr |-> instr, back |-> FALSE, iters |-> 0]
S == Last(states)
OnTop(stack, s) == Append(Front(stack), s)
InCode(n) == n >= 0 /\ n < Len(prog.code)
I == prog.code[S.instr + 1]
At(op) == result = "running" /\ InCode(S.instr) /\ I.op = op

(* rxPushState, on a state that remembers what was tried.                  *)
Try(s, instr) == states' = Append(OnTop(states, s), State(S.off, instr))
NoCounts == UNCHANGED <<iternum, caps, from, result>>
Fixed == UNCHANGED <<pattern, subject, text, out, prog>>

(* The place did_not_match: back to the last state with something to try.  *)
RECURSIVE Unwound(_, _, _)
Unwound(stack, counts, captured) ==
    IF stack = <<>> \/ ~Last(stack).back
    THEN [stack |-> stack, counts |-> counts, captured |-> captured]
    ELSE LET s == Last(stack)
             i == prog.code[s.instr + 1]
         IN  Unwound(Front(stack),
                     IF i.op = "lazy" /\ counts # <<>> /\ s.iters = Last(counts) - 1
                     THEN Front(counts) ELSE counts,
                     CASE i.op = "capstart" -> [captured EXCEPT ![i.from][1] = s.iters]
                       [] i.op = "capend" -> [captured EXCEPT ![i.from][2] = s.iters]
                       [] OTHER -> captured)

(* Mutant: the state to which is gone back does not remember that.         *)
BacktrackUnmarked(stack, counts) ==
    LET u == Unwound(stack, counts, caps)
    IN  /\ iternum' = u.counts /\ caps' = u.captured
        /\ states' = u.stack
        /\ result' = IF u.stack = <<>> THEN "none" ELSE "running"
        /\ UNCHANGED from

(* The loop of srx_MatchExt goes on with the next position.                *)
Backtrack(stack, counts) ==
    LET u == Unwound(stack, counts, caps)
        done == u.stack = <<>>
    IN  /\ iternum' = u.counts /\ caps' = u.captured
        /\ IF done
           THEN /\ from' = from + 1
                /\ states' = IF from + 1 < Len(text) THEN <<State(from + 1, 0)>> ELSE <<>>
                /\ result' = IF from + 1 < Len(text) THEN "running" ELSE "none"
           ELSE /\ states' = OnTop(u.stack, [Last(u.stack) EXCEPT !.back = TRUE])
                /\ UNCHANGED <<from, result>>
DidNotMatch == Backtrack(Front(states), iternum)

Advance(n) == states' = OnTop(states, [S EXCEPT !.off = @ + n, !.instr = @ + 1]) /\ NoCounts

MatchDone ==
    /\ At("done") /\ result' = "match" /\ states' = <<>>
    /\ UNCHANGED <<iternum, caps, from>> /\ Fixed

MatchCharset ==
    /\ At("set") /\ (IF S.off < Len(text) /\ text[S.off + 1] \in I.chars THEN Advance(1) ELSE DidNotMatch) /\ Fixed

Same(a, b, n) == a + n <= Len(text) /\ SubSeq(text, a + 1, a + n) = SubSeq(text, b + 1, b + n)
MatchString ==
    /\ At("string")
    /\ LET n == Len(I.chars)
       IN  IF S.off + n <= Len(text) /\ SubSeq(text, S.off + 1, S.off + n) = I.chars
           THEN Advance(n) ELSE DidNotMatch
    /\ Fixed

MatchBackref ==
    /\ At("backref")
    /\ LET c == caps[I.from]
       IN  IF -1 \notin {c[1], c[2]} /\ Same(S.off, c[1], c[2] - c[1])
           THEN Advance(c[2] - c[1]) ELSE DidNotMatch
    /\ Fixed

MatchStart == At("slstart") /\ (IF S.off = 0 THEN Advance(0) ELSE DidNotMatch) /\ Fixed
MatchEnd == At("slend") /\ (IF S.off = Len(text) THEN Advance(0) ELSE DidNotMatch) /\ Fixed

(* Mutant: one more iteration than allowed is tried.                       *)
RepeatGreedyMore ==
    /\ At("greedy") /\ iternum # <<>> /\ ~S.back
    /\ LET n == Last(iternum)
       IN  IF n > I.len
           THEN states' = OnTop(states, [S EXCEPT !.iters = n, !.back = TRUE])
           ELSE Try([S EXCEPT !.iters = n], I.start)
    /\ iternum' = OnTop(iternum, Last(iternum) + 1)
    /\ UNCHANGED <<caps, from, result>> /\ Fixed

RepeatGreedy ==
    /\ At("greedy") /\ iternum # <<>> /\ ~S.back
    /\ LET n == Last(iternum)
       IN  IF n = I.len
           THEN states' = OnTop(states, [S EXCEPT !.iters = n, !.back = TRUE])
           ELSE Try([S EXCEPT !.iters = n], I.start)
    /\ iternum' = OnTop(iternum, Last(iternum) + 1)
    /\ UNCHANGED <<caps, from, result>> /\ Fixed

GreedyDone ==
    /\ At("greedy") /\ S.back
    /\ LET counts == IF iternum # <<>> /\ S.iters + 1 = Last(iternum) THEN Front(iternum) ELSE iternum
       IN  IF S.iters < I.from THEN Backtrack(Front(states), counts)
           ELSE Try(S, S.instr + 1) /\ iternum' = counts /\ UNCHANGED <<caps, from, result>>
    /\ Fixed

RepeatLazy ==
    /\ At("lazy") /\ iternum # <<>> /\ ~S.back
    /\ LET n == Last(iternum)
       IN  IF n < I.from
           THEN states' = OnTop(states, [S EXCEPT !.iters = n, !.back = TRUE])
           ELSE Try([S EXCEPT !.iters = n], S.instr + 1)
    /\ iternum' = Front(iternum)
    /\ UNCHANGED <<caps, from, result>> /\ Fixed

LazyMore ==
    /\ At("lazy") /\ S.back
    /\ IF S.iters = I.len THEN DidNotMatch
       ELSE /\ Try(S, I.start) /\ iternum' = Append(iternum, S.iters + 1)
            /\ UNCHANGED <<caps, from, result>>
    /\ Fixed

Jump ==
    /\ At("jump")
    /\ states' = OnTop(states, [S EXCEPT !.instr = I.start])
    /\ iternum' = Append(iternum, 0)
    /\ UNCHANGED <<caps, from, result>> /\ Fixed

BacktrackJump ==
    At("btjump") /\ Try(S, IF S.back THEN I.start ELSE S.instr + 1) /\ NoCounts /\ Fixed

(* The state of a capture holds the previous one, to be restored.          *)
Capture(op, k) ==
    /\ At(op)
    /\ Try([S EXCEPT !.back = TRUE, !.iters = caps[I.from][k]], S.instr + 1)
    /\ caps' = [caps EXCEPT ![I.from][k] = S.off]
    /\ UNCHANGED <<iternum, from, result>> /\ Fixed
CaptureStart == Capture("capstart", 1)
CaptureEnd == Capture("capend", 2)

(* Undefined: a jump out of the code, or a count of an empty stack.        *)
Faulty ==
    /\ result = "running"
    /\ IF InCode(S.instr) THEN I.op \in {"greedy", "lazy"} /\ ~S.back /\ iternum = <<>> ELSE TRUE
Fault == Faulty /\ result' = "fault" /\ UNCHANGED <<states, iternum, caps, from>> /\ Fixed

---------------------------------------------------------------------------
(* srx_ReplaceExt: one round of its loop, from a match to the call for the *)
(* next one with what is left of the text.                                 *)
NoCaptures == [k \in 0 .. MaxCaptures - 1 |-> Unset]
Captured == [k \in 1 .. prog.captures |-> caps[k - 1]]
EndOfMatch == caps[0][2]
(* Mutant: behind every match a character is passed over.                  *)
RestBehind == SubSeq(text, EndOfMatch + 2, Len(text))
Rest == SubSeq(text, (IF EndOfMatch = 0 THEN 1 ELSE EndOfMatch) + 1, Len(text))

(* srx_MatchExt: captures are reset, the counts are not.                   *)
Search(s) ==
    /\ text' = s /\ from' = 0
    /\ states' = IF s = <<>> THEN <<>> ELSE <<State(0, 0)>>
    /\ result' = IF s = <<>> THEN "none" ELSE "running"
    /\ UNCHANGED <<pattern, subject, prog, iternum>>

ReplaceMatch ==
    /\ result = "match" /\ -1 \notin {caps[0][1], caps[0][2]}
    /\ out' = out \o SubSeq(text, 1, caps[0][1]) \o Expand(Replacement, text, Captured)
    /\ Search(Rest) /\ caps' = NoCaptures

ReplaceRest ==
    /\ result = "none" /\ result' = "replaced" /\ out' = out \o text
    /\ UNCHANGED <<pattern, subject, text, prog, states, iternum, caps, from>>

---------------------------------------------------------------------------
(* srx_CreateExt, rxResetCaptures and the first call of rxExecDo           *)
Init ==
    /\ pattern \in Patterns /\ subject \in Texts /\ text = subject /\ out = <<>>
    /\ prog = Compile(pattern)
    /\ states = IF prog.err = "" /\ text # <<>> THEN <<State(0, 0)>> ELSE <<>>
    /\ iternum = <<>> /\ caps = NoCaptures /\ from = 0
    /\ result = IF prog.err # "" THEN "error" ELSE IF text = <<>> THEN "none" ELSE "running"

Next ==
    \/ MatchDone \/ MatchCharset \/ MatchString \/ MatchBackref \/ MatchStart \/ MatchEnd
    \/ RepeatGreedy \/ GreedyDone \/ RepeatLazy \/ LazyMore \/ Jump \/ BacktrackJump
    \/ CaptureStart \/ CaptureEnd \/ Fault \/ ReplaceMatch \/ ReplaceRest

(* The matcher is a loop without calls: it goes on while it can.           *)
Spec == Init /\ [][Next]_vars /\ WF_vars(Next)

---------------------------------------------------------------------------
(* The patterns for which the matcher is right.  Iteration counts are not  *)
(* kept apart for a repeat in a repeat, nor from the jumps behind          *)
(* alternatives in one; two characters at the end of the last alternative, *)
(* or before a repeated group, are joined when places in the code have     *)
(* been taken already.                                                     *)
Plain(t) == \A u \in Subtrees(t) : u[1] \notin {"repeat", "or"}
TwoLetters(p, i) == i >= 2 /\ p[i] \in Letters /\ p[i - 1] \in Letters
Supported(p) ==
    /\ \A t \in Subtrees(Tree(p)) :
            t[1] = "repeat" => Plain(t[4]) /\ ~Nullable(t[4])
    /\ ~(Tree(p)[1] = "or" /\ TwoLetters(p, Len(p)))
    /\ \A i \in DOMAIN p : p[i] = "(" => ~TwoLetters(p, i - 1)

(* Every group is closed: the compiler does not ask for it.                *)
Opens(p) == Cardinality({i \in DOMAIN p : p[i] = "("})
Closed(p) == Opens(p) = Cardinality({i \in DOMAIN p : p[i] = ")"})
Sound == {p \in Patterns : Closed(p) /\ WellFormed(p) /\ Supported(p)}

(* An empty match loses the character behind it in re_replace, and ^       *)
(* matches where each search begins.                                       *)
Replaceable == {p \in Sound : ~Nullable(Tree(p)) /\ <<"^">> \notin Subtrees(Tree(p))}

---------------------------------------------------------------------------
(* srx_CreateExt refuses exactly what is no pattern; of the others the     *)
(* leftmost match is found, with the spans of all groups, if there is one, *)
(* and no instruction is reached that is none.                             *)
Refused == {p \in Patterns : ~WellFormed(p)}
Meaning == [p \in Sound |-> [s \in Texts |-> Found(p, s)]]
SameMatch ==
    /\ Closed(pattern) => (result = "error" <=> pattern \in Refused)
    /\ (result \in {"match", "none", "fault"} /\ pattern \in Sound) =>
          LET found == Meaning[pattern][text]
          IN  IF found = <<>> THEN result = "none"
              ELSE result = "match" /\ Captured = SubSeq(found, 1, prog.captures)

(* re_replace replaces every match, by what its own groups matched.        *)
Replacing == [p \in Replaceable |-> [s \in Texts |-> ReplacedIn(p, s, Replacement)]]
SameReplaced ==
    (result = "replaced" /\ pattern \in Replaceable) => out = Replacing[pattern][subject]

(* The search for all matches ends.                                        *)
MatchEnds == pattern \in Sound => <>(result \in {"replaced", "error"})
=============================================================================

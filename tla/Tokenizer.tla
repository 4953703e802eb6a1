------------------------------ MODULE Tokenizer ------------------------------
(***************************************************************************)
(* The tokenizer, sgs_tok.c, with the numbers of sgs_util.c.  A text is a  *)
(* sequence of characters, each a string of length 1; a token has a type,  *)
(* a value and the line it starts in.  A real is <<m, e>>, m times 10^e.   *)
(***************************************************************************)
EXTENDS Integers, Sequences, SequencesExt, FiniteSetsExt, TLC

CONSTANTS IdentLimit,   \* characters of an identifier: 255
          WordSize,     \* bits of an integer: 64
          DollarSign    \* whether names may have a $, of sgs_ParserConfig

Chars(s) == [i \in 1 .. Len(s) |-> SubSeq(s, i, i)]
CharsOf(s) == ToSet(Chars(s))

Digit == CharsOf("0123456789")
Symbol == CharsOf("()[]{},;:#\\")
OpChar == CharsOf("=<>+-*/%?!~&|^.$@")
Blank == {" ", "\n", "\r", "\t"}
Quote == {"'", "\""}
HexDigits == Chars("0123456789abcdef")
DigitsOf(base) == {HexDigits[k] : k \in 1 .. base}
                    \cup (IF base = 16 THEN CharsOf("ABCDEF") ELSE {})
DigitValue(c) ==
    LET upper == Chars("0123456789ABCDEF")
    IN  CHOOSE n \in 0 .. 15 : c \in {HexDigits[n + 1], upper[n + 1]}

(* The character of a code, and # with the code for other than letters.    *)
Alphabet == Chars("abcdefghijklmnopqrstuvwxyz")
Capitals == Chars("ABCDEFGHIJKLMNOPQRSTUVWXYZ")
Letter == ToSet(Alphabet) \cup ToSet(Capitals)
CharOf(n) == CASE n \in 97 .. 122 -> Alphabet[n - 96]
               [] n \in 65 .. 90 -> Capitals[n - 64]
               [] n = 10 -> "\n"
               [] OTHER -> "#" \o ToString(n)

AtText(t, i) == IF i \in DOMAIN t THEN t[i] ELSE ""
FirstOf(t, i, Test(_)) == Min({k \in i .. Len(t) : Test(k)} \cup {Len(t) + 1})
RunEnd(t, i, set) == FirstOf(t, i, LAMBDA k : t[k] \notin set)

---------------------------------------------------------------------------
(* The state of sgsT_Gen.  Positions are those of the next character.      *)
Start == [at |-> 1, line |-> 1, tokens |-> <<>>, ok |-> TRUE, stop |-> FALSE]
To(s, at) == [s EXCEPT !.at = at]
Flagged(s) == [s EXCEPT !.ok = FALSE]
Emit(s, type, val, at) ==
    [s EXCEPT !.tokens = Append(@, [type |-> type, val |-> val, line |-> s.line]), !.at = at]

(* Mutant of DetectLine: \r\n is two lines.                                *)
DetectLineTwice(t, i) == t[i] \in {"\r", "\n"}

(* A line starts at \r, and at \n unless it follows \r.                    *)
DetectLine(t, i) == t[i] = "\r" \/ (t[i] = "\n" /\ AtText(t, i - 1) # "\r")
LinesIn(t, i, j) == Cardinality({k \in i .. j : DetectLine(t, k)})
Skip(s, t, at) == [s EXCEPT !.line = @ + LinesIn(t, s.at, at - 1), !.at = at]

(* skipcomment; a comment without an end is reported, and no error.  The   *)
(* text /*/ is a whole comment.                                            *)
LineComment(s, t) ==
    LET k == FirstOf(t, s.at + 2, LAMBDA j : t[j] \in {"\n", "\r"})
        crlf == AtText(t, k) = "\r" /\ AtText(t, k + 1) = "\n"
    IN  [s EXCEPT !.line = @ + 1, !.at = IF crlf THEN k + 2 ELSE k + 1]
BlockComment(s, t) ==
    LET k == FirstOf(t, s.at + 2, LAMBDA j : t[j] = "/" /\ t[j - 1] = "*") IN Skip(s, t, Min({k, Len(t)}) + 1)
SkipComment(s, t) == IF t[s.at + 1] = "/" THEN LineComment(s, t) ELSE BlockComment(s, t)

KeywordNames == {"var", "global", "thread", "subthread", "sync", "race", "null", "true", "false", "if", "else",
    "do", "while", "for", "foreach", "break", "continue", "function", "use", "return", "this", "new", "defer",
    "decltree"}
IdentChar == Letter \cup Digit \cup {"_"} \cup (IF DollarSign THEN {"$"} ELSE {})
Concat(chars) == FoldLeft(LAMBDA s, c : s \o c, "", chars)

(* readident: what is too long is cut off.                                 *)
ReadIdent(s, t) ==
    LET k == RunEnd(t, s.at, IdentChar)
        name == Concat(SubSeq(t, s.at, IF k - s.at > IdentLimit THEN s.at + IdentLimit - 1 ELSE k - 1))
        token == Emit(s, IF name \in KeywordNames THEN "keyword" ELSE "ident", name, k)
    IN  IF k - s.at > IdentLimit THEN Flagged(token) ELSE token

---------------------------------------------------------------------------
(* sgs_util_strtonum.  Integers wrap around.                               *)
Number(type, val, at) == [type |-> type, val |-> val, at |-> at]
NoNumber == Number("none", 0, 0)
Value(chars, base) == FoldLeft(LAMBDA n, c : base * n + DigitValue(c), 0, chars)
Wrapped(n) == LET m == n % 2^WordSize IN IF m < 2^(WordSize - 1) THEN m ELSE m - 2^WordSize

Radix(t, i, base) ==
    LET k == RunEnd(t, i, DigitsOf(base)) IN Number("int", Wrapped(Value(SubSeq(t, i, k - 1), base)), k)

(* An exponent has a sign; without one the letter e is read all the same.  *)
Exponent(t, i) ==
    LET k == RunEnd(t, i + 1, Digit)
        n == Value(SubSeq(t, i + 1, k - 1), 10)
    IN  IF AtText(t, i) \in {"+", "-"} THEN [val |-> IF t[i] = "-" THEN 0 - n ELSE n, at |-> k]
        ELSE [val |-> 0, at |-> i]
RealNumber(t, i, point, sign) ==
    LET end == IF t[point] = "." THEN RunEnd(t, point + 1, Digit) ELSE point
        fraction == SubSeq(t, point + 1, end - 1)
        m == sign * Value(SubSeq(t, i, point - 1) \o fraction, 10)
        e == IF AtText(t, end) \in {"e", "E"} THEN Exponent(t, end + 1) ELSE [val |-> 0, at |-> end]
    IN  Number("real", <<m, e.val - Len(fraction)>>, e.at)

Decimal(t, i) ==
    LET from == IF t[i] \in {"+", "-"} THEN i + 1 ELSE i
        sign == IF t[i] = "-" THEN -1 ELSE 1
        k == RunEnd(t, from, Digit)
    IN  IF k = from THEN NoNumber
        ELSE IF AtText(t, k) \in {".", "e", "E"} THEN RealNumber(t, from, k, sign)
        ELSE Number("int", Wrapped(sign * Value(SubSeq(t, from, k - 1), 10)), k)

StrToNum(t, i) ==
    LET prefix == IF Len(t) - i >= 2 /\ t[i] = "0" THEN t[i + 1] ELSE ""
    IN  CASE prefix = "x" -> Radix(t, i + 2, 16)
          [] prefix = "o" -> Radix(t, i + 2, 8)
          [] prefix = "b" -> Radix(t, i + 2, 2)
          [] OTHER -> Decimal(t, i)

(* The suffixes f and . make a real, p makes a pointer of an integer.      *)
ReadNumber(s, t) ==
    LET n == StrToNum(t, s.at)
        suffix == AtText(t, n.at)
    IN  CASE suffix \in {"f", "."} ->
                Emit(s, "real", IF n.type = "int" THEN <<n.val, 0>> ELSE n.val, n.at + 1)
          [] suffix = "p" /\ n.type = "int" -> Emit(s, "ptr", n.val, n.at + 1)
          [] OTHER -> Emit(s, n.type, n.val, n.at)

---------------------------------------------------------------------------
(* string_inplace_fix.  A code above 255 takes two characters.             *)
ControlOf == ("a" :> 7) @@ ("b" :> 8) @@ ("f" :> 12) @@ ("n" :> 10) @@ ("r" :> 13) @@ ("t" :> 9) @@ ("v" :> 11)
(* Mutant of OctalEnd: a code has any number of digits.                     *)
OctalEndOpen(t, i) == RunEnd(t, i, DigitsOf(8))

OctalEnd(t, i) == Min({RunEnd(t, i, DigitsOf(8)), i + 3})
OctalChars(n) == (IF n > 255 THEN <<CharOf(n \div 16)>> ELSE <<>>) \o <<CharOf(n % 256)>>

Escape(t, i) ==
    LET c == t[i]
        hex == c = "x" /\ {AtText(t, i + 1), AtText(t, i + 2)} \subseteq DigitsOf(16)
    IN  CASE c \in DigitsOf(8) ->
                [chars |-> OctalChars(Value(SubSeq(t, i, OctalEnd(t, i) - 1), 8)), at |-> OctalEnd(t, i)]
          [] c \in DOMAIN ControlOf -> [chars |-> <<CharOf(ControlOf[c])>>, at |-> i + 1]
          [] hex -> [chars |-> <<CharOf(Value(SubSeq(t, i + 1, i + 2), 16))>>, at |-> i + 3]
          [] OTHER -> [chars |-> <<c>>, at |-> i + 1]

RECURSIVE InplaceFix(_, _)
InplaceFix(t, i) ==
    IF i > Len(t) THEN <<>>
    ELSE LET e == IF t[i] = "\\" THEN Escape(t, i + 1) ELSE [chars |-> <<t[i]>>, at |-> i + 1]
         IN  e.chars \o InplaceFix(t, e.at)

(* The quote that ends a string, behind an even number of backslashes.     *)
Backslashes(t, k) == (k - 1) - Max({j \in 0 .. k - 1 : AtText(t, j) # "\\"})
StringEnd(t, i) == FirstOf(t, i + 1, LAMBDA k : t[k] = t[i] /\ Backslashes(t, k) % 2 = 0)

(* Between three quotes nothing is escaped.                                *)
RawStart(t, i) == AtText(t, i + 1) = t[i] /\ AtText(t, i + 2) = t[i]
RawEnd(t, i) == FirstOf(t, i + 5, LAMBDA k : {t[k], t[k - 1], t[k - 2]} = {t[i]})

EmitString(s, t, chars, at) == LET e == Emit(s, "string", chars, at) IN [e EXCEPT !.line = Skip(s, t, at).line]
ReadString(s, t) ==
    LET raw == RawStart(t, s.at)
        k == IF raw THEN RawEnd(t, s.at) ELSE StringEnd(t, s.at)
    IN  IF k > Len(t) THEN Flagged([s EXCEPT !.stop = TRUE])
        ELSE IF raw THEN EmitString(s, t, SubSeq(t, s.at + 3, k - 3), k + 1)
        ELSE EmitString(s, t, InplaceFix(SubSeq(t, s.at + 1, k - 1), 1), k + 1)

---------------------------------------------------------------------------
(* op_oneof takes the first of these that the characters start with.       *)
Operators == <<"<=>", "===", "!==", "==", "!=", "<=", ">=", "+=", "-=", "*=", "/=", "%=", "&=", "|=", "^=",
    "<<=", ">>=", "$=", "..=", "<<", ">>", "&&=", "||=", "??=", "&&", "||", "??", "..", "<", ">", "=",
    "++", "--", "+", "-", "*", "/", "%", "&", "|", "^", ".", "$", "!", "~", "@", "?">>
OpName(op) == CASE op = "..=" -> "$=" [] op = ".." -> "$" [] OTHER -> op
OpOneOf(chars) == Operators[SelectInSeq(Operators, LAMBDA op : IsPrefix(Chars(op), chars))]

(* readop: after an error the character behind the operator is lost.       *)
ReadOp(s, t) ==
    LET k == RunEnd(t, s.at, OpChar)
        op == OpOneOf(SubSeq(t, s.at, k - 1))
    IN  IF k - s.at > 3 THEN Flagged(To(s, k + 1)) ELSE Emit(s, "op", OpName(op), s.at + Len(op))

(* One turn of sgsT_Gen's loop.                                            *)
ReadToken(s, t) ==
    LET c == t[s.at]
    IN  CASE c \in Blank -> Skip(s, t, s.at + 1)
          [] c = "/" /\ AtText(t, s.at + 1) \in {"/", "*"} -> SkipComment(s, t)
          [] c \in Symbol -> Emit(s, "symbol", c, s.at + 1)
          [] c \in Letter \cup {"_"} \/ (c = "$" /\ DollarSign) -> ReadIdent(s, t)
          [] c \in Digit -> ReadNumber(s, t)
          [] c \in Quote -> ReadString(s, t)
          [] c \in OpChar /\ (c = "$" => ~DollarSign)
                /\ ~(c = "/" /\ AtText(t, s.at + 1) \in {"/", "*"}) -> ReadOp(s, t)
          [] OTHER -> Flagged(To(s, s.at + 1))

RECURSIVE GenFrom(_, _)
GenFrom(s, t) == IF s.stop \/ s.at > Len(t) THEN s ELSE GenFrom(ReadToken(s, t), t)
Gen(t) == GenFrom(Start, t)
---------------------------------------------------------------------------
(* tp_token: the text of a token.  The engine does not call it.  It knows  *)
(* no ??=, ?? and @, and writes strings without quotes.                    *)
RECURSIVE Numeral(_, _)
Numeral(n, base) == (IF n < base THEN <<>> ELSE Numeral(n \div base, base)) \o <<HexDigits[(n % base) + 1]>>
SignedNumeral(n) == IF n < 0 THEN <<"-">> \o Numeral(0 - n, 10) ELSE Numeral(n, 10)
RealText(m, e) ==
    IF e >= 0 THEN SignedNumeral(m * 10^e)
    ELSE LET d == SignedNumeral(m) IN SubSeq(d, 1, Len(d) + e) \o <<".">> \o SubSeq(d, Len(d) + e + 1, Len(d))
TokenText(token) ==
    CASE token.type = "int" -> SignedNumeral(token.val)
      [] token.type = "ptr" -> Numeral(token.val, 16) \o <<"p">>
      [] token.type = "real" -> RealText(token.val[1], token.val[2])
      [] token.type = "string" ->
            FlattenSeq([k \in DOMAIN token.val |-> IF token.val[k] = "\n" THEN Chars("\\x0A") ELSE <<token.val[k]>>])
      [] token.type = "op" /\ token.val \in {"??=", "??", "@"} -> Chars("<error>")
      [] OTHER -> Chars(token.val)

(* tp_kerning: where a blank comes between tokens, close together or wide. *)
Category(token) == CASE token.type \in {"ident", "keyword"} -> "I"
                     [] token.type = "symbol" -> "P"
                     [] token.type = "op" -> "O"
                     [] OTHER -> "C"
Close == ({"I", "C"} \X {"I", "C"}) \cup {<<"O", "O">>}
Wide == Close \cup ({"O"} \X {"I", "C", "P"}) \cup ({"I", "C", "P"} \X {"O"})
Kerning(a, b, xs) == IF <<Category(a), Category(b)>> \in (IF xs THEN Wide ELSE Close) THEN <<" ">> ELSE <<>>

TokenString(tokens, xs) ==
    FlattenSeq([k \in DOMAIN tokens |-> TokenText(tokens[k]) \o
        (IF k = Len(tokens) THEN <<>> ELSE Kerning(tokens[k], tokens[k + 1], xs))])
=============================================================================

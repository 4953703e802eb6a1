------------------------------- MODULE MCRegex -------------------------------
(* Regex with every sequence of up to four tokens as a pattern, and longer *)
(* ones in which groups, alternatives, repeats and references meet.         *)
EXTENDS Regex

Tokens == {"a", "b", "(", ")", "|", "*", "+", "?"}
Long == {
    <<"a", "*", "a">>, <<"a", "*", "?", "b">>, <<"a", "+", "?", "a">>, <<"a", "?", "?", "b">>,
    <<"a", "{2}", "b">>, <<"a", "{1,2}", "a", "b">>, <<"a", "{1,2}", "?", "b">>, <<".", "*", "?", "b", "$">>,
    <<"^", "a", "|", "b", "$">>, <<"^", ".", "b">>, <<"a", "b", "*", "a">>, <<"b", "$", "a">>,
    <<"(", "a", "|", "b", ")", "b">>, <<"(", "a", "b", "|", "a", ")", "b">>,
    <<"(", "a", "|", "a", "b", ")", "a">>, <<"a", "|", "b", "|", "a", "b", "*">>,
    <<"(", "a", ")", "*", "b">>, <<"(", "a", "b", ")", "+", "a">>, <<"(", "a", ")", "{2}", "a">>,
    <<"(", "a", ")", "+", "?", "b">>, <<"(", "a", ")", "\\1">>, <<"(", ".", ")", "\\1", "a">>, <<"[a]", "(", "[^a]", ")">>, <<"(", "a", ")", "|", "b">>, <<"[^a]", "*", "[a]">>,
    <<"(", "a", "*", ")", "b", "\\1">>, <<"(", "a", "*", ")", "(", "b", ")">>,
    <<"(", "(", "a", ")", "b", ")", "*", "a">>, <<"(", "a", "|", "(", "b", ")", ")", "a">>,
    <<"(", "a", ")", "?", "(", "b", ")", "?", "a">>, <<"(", ".", ".", ")", "*", "?", "a", "$">>,
    <<"(", "a", ")", "(", "b", ")", "(", "a", ")">>, <<"a", "|", "(", "b">>,
    <<"(", "a", "|", "b", ")", "{2}">>, <<"(", "|", "a", ")">>, <<"(", "a", "|", ")">>}
MCPatterns == UNION {[1 .. n -> Tokens] : n \in 0 .. 4} \cup Long
MCReplacement == <<"b", "\\1", "\\0">>
MCTexts == UNION {[1 .. n -> Letters] : n \in 0 .. 3}
==============================================================================

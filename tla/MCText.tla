------------------------------- MODULE MCText -------------------------------
(* The text a client sends, from the keys of the line editor to the pieces   *)
(* a line is cut into.                                                       *)
(*                                                                           *)
(* The parser: every line of up to five bytes (seven, where it takes so many *)
(* to close a parenthesis around a wide character) over alphabets chosen so  *)
(* that the quoting, substitution, operator, redirection and here-document   *)
(* rules meet, and every expression of up to MaxExpr tokens on               *)
(* 3-bit integers.  The editor: every sequence of up to MaxKeys keys on a    *)
(* line of three bytes with two history entries, and names that share half a *)
(* character.  The two keep no common state: a behaviour works on one.       *)
EXTENDS Parser, LineEditor, TLC

VARIABLE part

MCWide == {"$", "(", ")", Wide}

MCAlphabets ==
    [a \in {{"x", "$", "(", ")", SQ, BS}, {"x", Sp, SQ, DQ, BS, Var}, {"x", Sp, ";", "&", "|", DQ},
            {"#", Sp, BS, "|", Tick, SQ}, {"2", Sp, ">", "&", "x", SQ},
            {"x", "<", "-", Sp, BS, ">"}} |-> 5]
    @@ (MCWide :> 7) @@ ({Wide, ";", "|", ">", "<", BS, Sp} :> 4)

WideOnly == MCWide :> 7

MCValues == {<<>>, <<"x", Sp, "x">>, <<DQ>>, <<SQ, Sp>>, <<BS>>, <<"$", "#">>}

MCExpressions ==
    {{"1", "(", ")", "-", "+"}, {"1", "3", "v", "-", "/"}, {"3", "z", "v", "%", "*"},
     {"1", "<=", "==", "!=", "+"}, {"1", "3", "<", ">", ">="}}

MCLiteral == [n \in {"1", "3", "v", "z"} |->
                  CASE n = "1" -> 1 [] n = "3" -> 3 [] n = "v" -> -4 [] n = "z" -> 0]

MCPrograms == {<<"L", "K">>, <<"L", "J">>, <<"a", "b">>, <<"a", "b", "c">>}

Leaf(name) == [name |-> name, dir |-> FALSE]
MCListing == (<<>> :> {[name |-> <<"a">>, dir |-> TRUE], Leaf(<<".", "b">>)})
             @@ (<<"a", "/">> :> {Leaf(<<"L", "K">>), Leaf(<<"L", "J">>)})
             @@ (<<"/">> :> {Leaf(<<"b">>)})
OneFile == <<>> :> {Leaf(<<"a">>)}

TextVars == <<text, alphabet, ed, part>>
TextInit ==
    /\ EditorInit /\ part \in {"lines", "keys"}
    /\ ParserInit
    /\ part = "keys" => alphabet = CHOOSE x \in Expressions : TRUE
TextNext ==
    \/ part = "lines" /\ Type /\ UNCHANGED <<ed, part>>
    \/ part = "keys" /\ EditorNext /\ UNCHANGED <<text, alphabet, part>>
TextSpec == TextInit /\ [][TextNext]_TextVars
=============================================================================

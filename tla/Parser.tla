------------------------------- MODULE Parser -------------------------------
(***************************************************************************)
(* The pure text layer of the shell: the splitters of shell/parser.rs, the *)
(* expansion of shell/mod.rs between them and the tokenizer, and the       *)
(* integer arithmetic of shell/arith.rs.                                   *)
(*                                                                         *)
(* A line is a sequence of bytes, one value per class the code tells apart: *)
(* `x` is any ordinary character, `1` and `2` the digits that name a       *)
(* descriptor, Var a whole `$NAME`, and Wide a character of two bytes      *)
(* (Lead, Cont): indices into a line are byte indices, and a slice of it   *)
(* must begin and end between characters, or it panics.  Where the code    *)
(* goes by characters (tokenize, unquote, expand_with) the second byte is  *)
(* one more ordinary value.  The splitters share one scan (quotes,         *)
(* backslash, substitutions stepped over); `Bare` is the set of positions  *)
(* at which that scan looks for an operator, and each splitter is stated   *)
(* over it.  `text` grows by one character or one token at a time, so the  *)
(* invariants are checked on every short line and every short expression.  *)
(***************************************************************************)
EXTENDS Integers, Sequences, SequencesExt, FiniteSets, FiniteSetsExt

CONSTANTS
    Alphabets,      \* the sets of characters a line is made of, each with a bound:
                    \* the longest such line, in bytes
    Values,         \* the values a variable or a substitution may have
    Expressions,    \* sets of tokens; an expression is made of one of them
    Literal,        \* its numbers and names, and their values
    MaxExpr,        \* bound: the longest expression, in tokens
    Width,          \* bits of an integer (64 in the code)
    MaxDepth        \* MAX_DEPTH: open parentheses of an expression

ASSUME ParserAssumption ==
    /\ Alphabets \in [DOMAIN Alphabets -> Nat] /\ {MaxExpr, MaxDepth} \subseteq Nat
    /\ Width \in Nat \ {0}

VARIABLES
    text,           \* what has been typed: bytes of a line, or tokens
    alphabet        \* what it is made of

SQ == "'"
DQ == "\""
BS == "\\"
Sp == " "
Tick == "backtick"
Var == "$NAME"
Wide == "wide"
Lead == "lead byte"
Cont == "continuation byte"

Utf8(c) == IF c = Wide THEN <<Lead, Cont>> ELSE <<c>>

None == [none |-> TRUE]

(* The quote state after character c, and the three states. *)
Plain == "plain"
Quote(q, c) ==
    CASE c = SQ /\ q = "single" -> Plain
      [] c = SQ /\ q = Plain    -> "single"
      [] c = DQ /\ q = "double" -> Plain
      [] c = DQ /\ q = Plain    -> "double"
      [] OTHER                  -> q

-----------------------------------------------------------------------------
(* substitution_at: the closing backtick, or the parenthesis that balances   *)
(* the one after the `$`, from position j on; 0 when there is none.          *)
RECURSIVE BacktickEnd(_, _), ParenEnd(_, _, _, _)

BacktickEnd(s, j) ==
    IF j > Len(s) THEN 0
    ELSE IF s[j] = BS THEN BacktickEnd(s, j + 2)
    ELSE IF s[j] = Tick THEN j ELSE BacktickEnd(s, j + 1)

ParenEnd(s, j, depth, q) ==
    IF j > Len(s) THEN 0
    ELSE IF s[j] = BS /\ q # "single" THEN ParenEnd(s, j + 2, depth, q)
    ELSE IF q # Plain \/ Quote(q, s[j]) # q THEN ParenEnd(s, j + 1, depth, Quote(q, s[j]))
    ELSE IF s[j] = ")" /\ depth = 1 THEN j
    ELSE ParenEnd(s, j + 1,
             CASE s[j] = "(" -> depth + 1 [] s[j] = ")" -> depth - 1 [] OTHER -> depth, q)

(* `end` is just past the closing delimiter, from..to-1 the body. *)
Region(end, from, to, arithmetic) ==
    [end |-> end, from |-> from, to |-> to, arithmetic |-> arithmetic]

SubstitutionAt(s, i) ==
    LET tick == BacktickEnd(s, i + 1)
        arithmetic == i + 2 <= Len(s) /\ s[i + 2] = "("
        close == ParenEnd(s, i + 1, 0, Plain)
    IN  IF i > Len(s) THEN None
        ELSE IF s[i] = Tick /\ tick # 0 THEN Region(tick + 1, i + 1, tick, FALSE)
        ELSE IF s[i] = "$" /\ i < Len(s) /\ s[i + 1] = "(" /\ close # 0
        THEN IF arithmetic THEN Region(close + 1, i + 3, close - 1, TRUE)
                           ELSE Region(close + 1, i + 2, close, FALSE)
        ELSE None

(* The scan the splitters share: the positions outside quotes, escapes and   *)
(* substitutions, the quote characters themselves left out.                  *)
RECURSIVE BareFrom(_, _, _), BareAt(_, _, _, _)

BareAt(s, i, q, region) ==
    IF region # None THEN BareFrom(s, region.end, q)
    ELSE IF s[i] = BS /\ q # "single" THEN BareFrom(s, i + 2, q)
    ELSE (IF q = Plain /\ Quote(q, s[i]) = q THEN {i} ELSE {})
             \cup BareFrom(s, i + 1, Quote(q, s[i]))

BareFrom(s, i, q) ==
    IF i > Len(s) THEN {}
    ELSE BareAt(s, i, q, IF q = "single" THEN None ELSE SubstitutionAt(s, i))

Bare(s) == BareFrom(s, 1, Plain)

(* The first position of S from i on, or one past the end of the line. *)
NextIn(s, S, i) == Min({j \in S : j >= i} \cup {Max({Len(s) + 1, i})})

BareOf(s, C) == {i \in Bare(s) : s[i] \in C}

(* word_end: up to unquoted white space or another redirection. *)
WordEnd(s, i) == NextIn(s, BareOf(s, {Sp, ">", "<"}), i)

(* The first position from i on that holds no white space. *)
SkipSpace(s, i) == NextIn(s, {j \in 1..Len(s) : s[j] # Sp}, i)

(* strip_comment: a bare `#` that begins a word ends the line. *)
CommentAt(s) ==
    {i \in BareOf(s, {"#"}) :
        i = 1 \/ (i - 1 \in BareOf(s, {Sp, ";", "&", "|"}))}
StripComment(s) == SubSeq(s, 1, NextIn(s, CommentAt(s), 1) - 1)

(* unquote and split_heredoc: the delimiter, whether the body expands, and   *)
(* the command that remains.                                                 *)
RECURSIVE Unquote(_, _)
Unquote(w, q) ==
    IF w = <<>> THEN <<>>
    ELSE IF w[1] = BS /\ q # "single"
    THEN (IF Len(w) > 1 THEN <<w[2]>> ELSE <<>>) \o Unquote(SubSeq(w, 3, Len(w)), q)
    ELSE (IF Quote(q, w[1]) = q THEN <<w[1]>> ELSE <<>>) \o Unquote(Tail(w), Quote(q, w[1]))

RECURSIVE HeredocFrom(_, _)
HeredocFrom(s, from) ==
    LET at    == NextIn(s, {i \in BareOf(s, {"<"}) : i < Len(s) /\ s[i + 1] = "<"}, from)
        strip == at + 2 <= Len(s) /\ s[at + 2] = "-"
        word  == SkipSpace(s, IF strip THEN at + 3 ELSE at + 2)
        end   == WordEnd(s, word)
        raw   == SubSeq(s, word, end - 1)
    IN  IF at > Len(s) THEN None
        ELSE IF at + 2 <= Len(s) /\ s[at + 2] = "<" THEN HeredocFrom(s, at + 3)
        ELSE IF end = word THEN None
        ELSE [delimiter  |-> Unquote(raw, Plain),
              strip_tabs |-> strip,
              expand     |-> ~(raw[1] \in {SQ, DQ} \/ Contains(raw, BS)),
              command    |-> SubSeq(s, 1, at - 1) \o SubSeq(s, end, Len(s)),
              removed    |-> <<at, end>>]
SplitHeredoc(s) == HeredocFrom(s, 1)

(* split_segments: each piece with the operator that gates it. *)
Operator(s, i) ==
    LET twice == i < Len(s) /\ s[i + 1] = s[i]
    IN  CASE s[i] = ";"           -> [width |-> 1, next |-> "Always"]
          [] s[i] = "&" /\ twice  -> [width |-> 2, next |-> "AndIf"]
          [] s[i] = "|" /\ twice  -> [width |-> 2, next |-> "OrIf"]
          [] OTHER                -> [width |-> 0, next |-> "Always"]

RECURSIVE SegmentsFrom(_, _, _, _)
SegmentsFrom(s, start, from, run_if) ==
    LET at == NextIn(s, {i \in Bare(s) : Operator(s, i).width > 0}, from)
        op == Operator(s, at)
        piece == [run_if |-> run_if, from |-> start, to |-> at]
    IN  IF at > Len(s) THEN <<piece>>
        ELSE <<piece>> \o SegmentsFrom(s, at + op.width, at + op.width, op.next)
SplitSegments(s) == SegmentsFrom(s, 1, 1, "Always")

(* split_pipeline: the stages between bare pipes, as bounds from..to-1. *)
SplitPipeline(s) ==
    LET pipes == SetToSortSeq(BareOf(s, {"|"}), <)
        edges == <<0>> \o pipes \o <<Len(s) + 1>>
    IN  [k \in 1..(Len(edges) - 1) |-> [from |-> edges[k] + 1, to |-> edges[k + 1]]]

(* split_redirects: the redirections of one stage, left to right, and the    *)
(* command text without them.  `word` is the start of the current word.      *)
WordStart(s, end, i) ==
    Max({end} \cup {j + 1 : j \in {k \in BareOf(s, {Sp}) : end <= k /\ k < i}})

(* The word a `>` at i ends may name its descriptor: a bare 1, 2 or &. *)
Prefix(s, word, i) == IF word..(i - 1) \subseteq Bare(s) THEN SubSeq(s, word, i - 1) ELSE <<>>

(* The operator at i after that prefix, which begins at `word`: what         *)
(* follows is a descriptor (`>&1`) or the word that names the file.          *)
RedirectOf(s, i, word, prefix) ==
    LET append == i < Len(s) /\ s[i + 1] = ">"
        j      == IF append THEN i + 2 ELSE i + 1
        dup    == ~append /\ j <= Len(s) /\ s[j] = "&"
        digits == NextIn(s, {k \in 1..Len(s) : s[k] \notin {"1", "2"}}, j + 1)
        from   == SkipSpace(s, j)
    IN  [stream |-> CASE prefix = <<"2">> -> "Stderr" [] prefix = <<"&">> -> "Both"
                      [] OTHER -> "Stdout",
         start  |-> IF prefix \in {<<"1">>, <<"2">>, <<"&">>} THEN word ELSE i,
         dup    |-> dup,
         append |-> append,
         from   |-> IF dup THEN j + 1 ELSE from,
         end    |-> IF dup THEN digits ELSE WordEnd(s, from)]

RedirectFrom(s, i, word) == RedirectOf(s, i, word, Prefix(s, word, i))

RedirectAt(s, end, i) == RedirectFrom(s, i, WordStart(s, end, i))

Refused(s, r) ==
    IF r.dup THEN SubSeq(s, r.from, r.end - 1) \notin {<<"1">>, <<"2">>} ELSE r.end = r.from

(* From `end` on, the next bare `>` being at `at`: a refused one is the last. *)
RECURSIVE RedirectsFrom(_, _, _), RedirectsPast(_, _)
RedirectsPast(s, r) ==
    <<r>> \o IF Refused(s, r) THEN <<>>
             ELSE RedirectsFrom(s, r.end, NextIn(s, BareOf(s, {">"}), r.end))

RedirectsFrom(s, end, at) ==
    IF at > Len(s) THEN <<>> ELSE RedirectsPast(s, RedirectAt(s, end, at))

SplitOff(s, found) ==
    LET edges == <<1>> \o [k \in DOMAIN found |-> found[k].end]
        stops == [k \in DOMAIN found |-> found[k].start] \o <<Len(s) + 1>>
    IN  IF \E k \in DOMAIN found : Refused(s, found[k]) THEN None
        ELSE [redirects |-> found,
              command   |-> FlattenSeq([k \in DOMAIN edges |->
                                           SubSeq(s, edges[k], stops[k] - 1)])]

SplitRedirects(s) == SplitOff(s, RedirectsFrom(s, 1, NextIn(s, BareOf(s, {">"}), 1)))

-----------------------------------------------------------------------------
(* tokenize: words, quotes removed.  `has` is a word begun, possibly empty.  *)
Escapable == {"$", Var, Tick, DQ, BS}

RECURSIVE TokenizeFrom(_, _, _, _, _)
TokenizeFrom(s, i, q, cur, has) ==
    IF i > Len(s) THEN IF has THEN <<cur>> ELSE <<>>
    ELSE IF Quote(q, s[i]) # q THEN TokenizeFrom(s, i + 1, Quote(q, s[i]), cur, TRUE)
    ELSE IF s[i] = BS /\ q # "single"
    THEN IF i = Len(s) THEN TokenizeFrom(s, i + 1, q, cur, has)
         ELSE IF q = Plain \/ s[i + 1] \in Escapable
         THEN TokenizeFrom(s, i + 2, q, Append(cur, s[i + 1]), TRUE)
         ELSE TokenizeFrom(s, i + 1, q, Append(cur, BS), TRUE)
    ELSE IF s[i] = Sp /\ q = Plain
    THEN (IF has THEN <<cur>> ELSE <<>>) \o TokenizeFrom(s, i + 1, q, <<>>, FALSE)
    ELSE TokenizeFrom(s, i + 1, q, Append(cur, s[i]), TRUE)
Tokenize(s) == TokenizeFrom(s, 1, Plain, <<>>, FALSE)

(* push_value: what the tokenizer would take for syntax is escaped. *)
PushValue_KeepsQuotes(v, in_double) ==
    FlattenSeq([k \in DOMAIN v |-> IF v[k] = BS THEN <<BS, v[k]>> ELSE <<v[k]>>])

PushValue(v, in_double) ==
    FlattenSeq([k \in DOMAIN v |->
        IF v[k] \in {BS, DQ} \/ (v[k] = SQ /\ ~in_double) THEN <<BS, v[k]>> ELSE <<v[k]>>])

(* expand_with: `v` stands for the value of every variable and every         *)
(* substitution of the line.                                                 *)
RECURSIVE ExpandFrom(_, _, _, _)
ExpandFrom(s, i, q, v) ==
    IF i > Len(s) THEN <<>>
    ELSE IF q # "single" /\ SubstitutionAt(s, i) # None
    THEN PushValue(v, q = "double") \o ExpandFrom(s, SubstitutionAt(s, i).end, q, v)
    ELSE IF s[i] = BS /\ q # "single"
    THEN SubSeq(s, i, i + (IF i < Len(s) THEN 1 ELSE 0)) \o ExpandFrom(s, i + 2, q, v)
    ELSE IF s[i] = Var /\ q # "single"
    THEN PushValue(v, q = "double") \o ExpandFrom(s, i + 1, q, v)
    ELSE <<s[i]>> \o ExpandFrom(s, i + 1, Quote(q, s[i]), v)
Expand(s, v) == ExpandFrom(s, 1, Plain, v)

-----------------------------------------------------------------------------
(* arith.rs over tokens.  A parse gives the value and the position of the    *)
(* next token, or None.                                                      *)
Wrap(n) == ((n + 2^(Width - 1)) % 2^Width) - 2^(Width - 1)
MinInt  == -(2^(Width - 1))
Abs(n)  == IF n < 0 THEN -n ELSE n
Quotient(a, b) == IF (a < 0) = (b < 0) THEN Abs(a) \div Abs(b) ELSE -(Abs(a) \div Abs(b))
Truth(b) == IF b THEN 1 ELSE 0

(* The operators of a level, comparison lowest, and what they compute: the   *)
(* empty set is an error (checked_div, checked_rem).                         *)
Ops == <<{"==", "!=", "<=", ">=", "<", ">"}, {"+", "-"}, {"*", "/", "%"}>>

Apply(op, a, b) ==
    CASE op = "+" -> {Wrap(a + b)} [] op = "-" -> {Wrap(a - b)} [] op = "*" -> {Wrap(a * b)}
      [] op \in {"/", "%"} ->
            IF b = 0 \/ (a = MinInt /\ b = -1) THEN {}
            ELSE {IF op = "/" THEN Quotient(a, b) ELSE a - b * Quotient(a, b)}
      [] op = "==" -> {Truth(a = b)}  [] op = "!=" -> {Truth(a # b)}
      [] op = "<=" -> {Truth(a <= b)} [] op = ">=" -> {Truth(a >= b)}
      [] op = "<"  -> {Truth(a < b)}  [] op = ">"  -> {Truth(a > b)}

Next1(t, pos) == IF pos <= Len(t) THEN t[pos] ELSE "end"
Parsed(value, pos) == [value |-> value, pos |-> pos]

RECURSIVE Level(_, _, _, _), Chain(_, _, _, _), Unary(_, _, _), Primary(_, _, _)

(* comparison, additive, multiplicative: operands of the next level joined,  *)
(* left to right, by the operators of this one.                              *)
Level(n, t, pos, depth) ==
    IF n > Len(Ops) THEN Unary(t, pos, depth)
    ELSE Chain(n, t, Level(n + 1, t, pos, depth), depth)

Chain_RightAssoc(n, t, left, depth) ==
    IF left = None THEN None
    ELSE IF Next1(t, left.pos) \notin Ops[n] THEN left
    ELSE LET right == Chain(n, t, Level(n + 1, t, left.pos + 1, depth), depth)
             value == IF right = None THEN {}
                      ELSE Apply(t[left.pos], left.value, right.value)
         IN  IF value = {} THEN None ELSE Parsed(CHOOSE v \in value : TRUE, right.pos)

Chain(n, t, left, depth) ==
    IF left = None THEN None
    ELSE IF Next1(t, left.pos) \notin Ops[n] THEN left
    ELSE LET right == Level(n + 1, t, left.pos + 1, depth)
             value == IF right = None THEN {}
                      ELSE Apply(t[left.pos], left.value, right.value)
         IN  IF value = {} THEN None
             ELSE Chain(n, t, Parsed(CHOOSE v \in value : TRUE, right.pos), depth)

Unary(t, pos, depth) ==
    LET operand == Unary(t, pos + 1, depth)
    IN  CASE Next1(t, pos) = "-" -> IF operand = None THEN None
                                    ELSE Parsed(Wrap(-operand.value), operand.pos)
          [] Next1(t, pos) = "+" -> operand
          [] OTHER               -> Primary(t, pos, depth)

Primary(t, pos, depth) ==
    IF Next1(t, pos) = "("
    THEN LET inner == IF depth >= MaxDepth THEN None ELSE Level(1, t, pos + 1, depth + 1)
         IN  IF inner = None \/ (inner # None /\ Next1(t, inner.pos) # ")") THEN None
             ELSE Parsed(inner.value, inner.pos + 1)
    ELSE IF Next1(t, pos) \in DOMAIN Literal
    THEN Parsed(Literal[Next1(t, pos)], pos + 1)
    ELSE None

(* eval: trailing tokens are an error; `arithmetic` makes an error zero. *)
Eval(t) ==
    LET r == Level(1, t, 1, 0) IN IF r = None \/ (r # None /\ r.pos <= Len(t)) THEN None ELSE r
Arithmetic(t) == IF Eval(t) = None THEN 0 ELSE Eval(t).value

-----------------------------------------------------------------------------
IsExpr == alphabet \in Expressions

ParserInit == text = <<>> /\ alphabet \in DOMAIN Alphabets \cup Expressions

Type ==
    /\ \E c \in alphabet : text' = text \o Utf8(c)
    /\ Len(text') <= IF IsExpr THEN MaxExpr ELSE Alphabets[alphabet]
    /\ UNCHANGED alphabet

ParserSpec == ParserInit /\ [][Type]_<<text, alphabet>>

-----------------------------------------------------------------------------
(* The reference for expansion and tokenizing together, in one pass: what    *)
(* each position of the line contributes to the words.  A break separates    *)
(* words, a mark makes a word exist even if it stays empty.                  *)
Break  == <<"break">>
Mark   == <<"mark">>
One(c) == <<"char", c>>

RECURSIVE Lex(_, _, _, _)
Lex(s, i, q, v) ==
    LET spliced == [k \in DOMAIN v |-> IF v[k] = Sp /\ q = Plain THEN Break ELSE One(v[k])]
        region  == SubstitutionAt(s, i)
    IN  CASE i > Len(s) -> <<>>
          [] i <= Len(s) /\ q # "single" /\ region # None
                -> spliced \o Lex(s, region.end, q, v)
          [] i <= Len(s) /\ q # "single" /\ s[i] = Var -> spliced \o Lex(s, i + 1, q, v)
          [] i <= Len(s) /\ q # "single" /\ s[i] = BS
                -> IF i = Len(s) THEN <<>>
                   ELSE IF q = Plain \/ s[i + 1] \in Escapable
                   THEN <<One(s[i + 1])>> \o Lex(s, i + 2, q, v)
                   ELSE <<One(BS), One(s[i + 1])>> \o Lex(s, i + 2, q, v)
          [] i <= Len(s) /\ Quote(q, s[i]) # q -> <<Mark>> \o Lex(s, i + 1, Quote(q, s[i]), v)
          [] i <= Len(s) /\ q = Plain /\ s[i] = Sp -> <<Break>> \o Lex(s, i + 1, q, v)
          [] OTHER -> <<One(s[i])>> \o Lex(s, i + 1, q, v)

Words(s, v) ==
    LET items == Lex(s, 1, Plain, v)
        edges == <<0>> \o SetToSortSeq({k \in DOMAIN items : items[k] = Break}, <)
                       \o <<Len(items) + 1>>
        group(k) == SubSeq(items, edges[k] + 1, edges[k + 1] - 1)
        word(k)  == LET chars == SelectSeq(group(k), LAMBDA it : it # Mark)
                    IN  [n \in DOMAIN chars |-> chars[n][2]]
        filled   == SelectSeq([k \in 1..(Len(edges) - 1) |-> k], LAMBDA k : group(k) # <<>>)
    IN  [n \in DOMAIN filled |-> word(filled[n])]

(* "What a variable holds is data, not shell source": whatever the value of  *)
(* a variable or of a substitution, wherever it stands in a line, escaping   *)
(* it and tokenizing the result splices it in character by character; only   *)
(* the white space of an unquoted value has an effect.                       *)
DataStaysData ==
    ~IsExpr => \A v \in Values : Tokenize(Expand(text, v)) = Words(text, v)

(* The pieces a line is cut into are scanned again from a clean quote state  *)
(* (segment, stage, word): each must see quotes, escapes and substitutions   *)
(* exactly where the scan of the whole line saw them, or an operator that    *)
(* was data to one splitter would be syntax to the next.                     *)
SameScan(s, from, to) ==
    {i + from - 1 : i \in Bare(SubSeq(s, from, to - 1))} = {i \in Bare(s) : from <= i /\ i < to}

CutCleanly(s, from, to, rest) ==
    Bare(rest) = {IF i < from THEN i ELSE i - (to - from) : i \in Bare(s) \ (from..(to - 1))}

SplitsAreStable ==
    ~IsExpr =>
        LET line == StripComment(text)
            doc  == SplitHeredoc(line)
        IN  /\ SameScan(text, 1, Len(line) + 1)
            /\ \A k \in DOMAIN SplitSegments(line) :
                  LET piece == SplitSegments(line)[k]
                      seg   == SubSeq(line, piece.from, piece.to - 1)
                  IN  /\ SameScan(line, piece.from, piece.to)
                      /\ \A n \in DOMAIN SplitPipeline(seg) :
                            LET stage == SplitPipeline(seg)[n]
                            IN  SameScan(seg, stage.from, stage.to)
            /\ doc # None => CutCleanly(line, doc.removed[1], doc.removed[2], doc.command)

(* Every character of a stage is either command text or part of exactly one  *)
(* redirection, in order, and a redirection begins where its word begins     *)
(* only when that word is a bare descriptor: no argument is swallowed.       *)
ArgumentsSurvive ==
    LET Survive(split, marks) ==
            LET found == split.redirects
                gone  == UNION {found[k].start..(found[k].end - 1) : k \in DOMAIN found}
                kept  == SelectSeq([i \in DOMAIN text |-> i], LAMBDA i : i \notin gone)
            IN  /\ split.command = [k \in DOMAIN kept |-> text[kept[k]]]
                /\ \A k \in DOMAIN found :
                      /\ k > 1 => found[k - 1].end <= found[k].start
                      /\ SubSeq(text, found[k].start, NextIn(text, marks, found[k].start) - 1)
                             \in {<<>>, <<"1">>, <<"2">>, <<"&">>}
                /\ marks \subseteq gone
    IN  ~IsExpr => \A split \in {SplitRedirects(text)} :
                       split # None => Survive(split, BareOf(text, {">"}))

(* A recognised substitution has a body inside its delimiters (a start past  *)
(* its end would make the slice of the body panic).                          *)
BodiesAreInside ==
    ~IsExpr => \A i \in DOMAIN text :
        LET r == SubstitutionAt(text, i)
        IN  r # None => i < r.from /\ r.from <= r.to /\ r.to < r.end /\ r.end <= Len(text) + 1

(* The index falls between two characters, as `&line[..]` requires. *)
CharBoundary(s, i) == i > Len(s) \/ s[i] # Cont

(* Every index the line is sliced at falls between characters: the bounds of *)
(* segments, stages, redirections and here-documents, and those of the body  *)
(* of a substitution, provided that a `$((` is closed by two parentheses.    *)
(* `$((1)x)` is taken for arithmetic as well, and the body is cut one byte   *)
(* before its end: see BodiesAreWhole.                                       *)
SlicesAreWhole(s, except) ==
    LET doc   == SplitHeredoc(s)
        split == SplitRedirects(s)
        regions == {SubstitutionAt(s, i) : i \in DOMAIN s} \ {None}
        pieces(cut(_)) == UNION {{cut(s)[k].from, cut(s)[k].to} : k \in DOMAIN cut(s)}
        words == IF split = None THEN {}
                 ELSE UNION {{r.start, r.from, r.end} : r \in Range(split.redirects)}
    IN  \A i \in pieces(SplitSegments) \cup pieces(SplitPipeline) \cup words
                 \cup (IF doc = None THEN {} ELSE Range(doc.removed))
                 \cup UNION {{r.from, r.to, r.end} : r \in regions \ except} : CharBoundary(s, i)

SlicesStayWhole ==
    ~IsExpr => SlicesAreWhole(text,
                   {r \in {SubstitutionAt(text, i) : i \in DOMAIN text} :
                        r # None /\ (r # None => r.arithmetic /\ text[r.to] # ")")})

(* What substitution_at promises of every region: "Closing an arithmetic     *)
(* region takes two `)`".  It does not: in `$((1)e)`, with an e of two       *)
(* bytes, the body ends inside the e.                                        *)
BodiesAreWhole == ~IsExpr => SlicesAreWhole(text, {})

(* A line means one thing to every pass over it: each of the splitters, the  *)
(* expansion and the tokenizer scans text the one before it produced, and    *)
(* none takes data for syntax, drops a word or leaves its slice.             *)
LinesKeepTheirMeaning ==
    /\ DataStaysData /\ SplitsAreStable /\ ArgumentsSurvive
    /\ BodiesAreInside /\ SlicesStayWhole

(* The grammar the arithmetic promises, as the set of values of all          *)
(* derivations of a token sequence: left-associative levels over unary signs *)
(* over parentheses, nested at most MAX_DEPTH deep.                          *)
RECURSIVE Derive(_, _, _)
Derive(n, t, depth) ==
    LET len   == Len(t)
        signs == Derive(4, Tail(t), depth)
    IN  IF len = 0 THEN {}
        ELSE IF n <= 3
        THEN Derive(n + 1, t, depth) \cup
             UNION {UNION {Apply(t[k], a, b) : a \in Derive(n, SubSeq(t, 1, k - 1), depth),
                                               b \in Derive(n + 1, SubSeq(t, k + 1, len), depth)}
                    : k \in {k \in 2..(len - 1) : t[k] \in Ops[n]}}
        ELSE (IF t[1] = "-" THEN {Wrap(-a) : a \in signs} ELSE {})
             \cup (IF t[1] = "+" THEN signs ELSE {})
             \cup (IF len = 1 /\ t[1] \in DOMAIN Literal THEN {Literal[t[1]]} ELSE {})
             \cup (IF len > 2 /\ t[1] = "(" /\ t[len] = ")" /\ depth < MaxDepth
                   THEN Derive(1, SubSeq(t, 2, len - 1), depth + 1) ELSE {})

(* Precedence climbing computes what the grammar says, in wrapping integers, *)
(* and an expression without a derivation (malformed, divided by zero, too   *)
(* deep) comes to zero: expansion has no channel to fail on.                 *)
ArithmeticIsGrammar ==
    IsExpr => LET values == Derive(1, text, 0)
              IN  {Arithmetic(text)} = IF values = {} THEN {0} ELSE values
=============================================================================

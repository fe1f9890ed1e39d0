----------------------------- MODULE LineEditor -----------------------------
(***************************************************************************)
(* The readline-like editor of an interactive channel (shell/line.rs), the *)
(* completion it asks for (shell/complete.rs), and the one line of the     *)
(* client's terminal that its reactions draw.                              *)
(*                                                                         *)
(* A byte is a token.  "L" opens a two-byte character and "F" opens        *)
(* U+FFFD, whose three bytes from_utf8_lossy puts in place of an undecoded *)
(* part; "K" and "J" are the bytes that continue a character.  Control     *)
(* keys carry the name of what they do.  The client types whole characters *)
(* and does not break an escape sequence with one.                         *)
(***************************************************************************)
EXTENDS Naturals, Sequences, FiniteSets

CONSTANTS MaxBuffer,     \* max_line, in bytes
          MaxHistory,  \* max_history
          MaxKeys,     \* bound: the keys one client presses
          Typeable,        \* the printable bytes the client uses
          Controls,    \* the control keys the client uses
          Programs,    \* names a command word completes to
          Listing      \* directory part -> its entries [name, dir]

ASSUME LineBounds == MaxBuffer \in Nat /\ MaxHistory \in Nat /\ MaxKeys \in Nat

VARIABLE ed

Continuation == {"K", "J"}
IsContinuation(b) == b \in Continuation
Blanks == {"sp"}
Printable == {"a", "b", "c", "sp", ".", "/", "L", "K", "J", "[", ";", "~",
              "1", "3", "4", "A", "B", "C", "D", "H", "E"}
Replacement == <<"F", "K", "J">>

Take(s, n) == SubSeq(s, 1, n)
Drop(s, n) == SubSeq(s, n + 1, Len(s))
Least(a, b) == IF a < b THEN a ELSE b
Greatest(S) == CHOOSE n \in S : \A k \in S : k <= n
Smallest(S) == CHOOSE n \in S : \A k \in S : n <= k
StartsWith(s, p) == Len(p) <= Len(s) /\ Take(s, Len(p)) = p

(* The first n bytes of s end on a character boundary.                     *)
Boundary(s, n) == n = Len(s) \/ n = 0 \/ ~IsContinuation(s[n + 1])

Trim(s) ==
    LET ink == {i \in 1..Len(s) : s[i] \notin Blanks}
    IN IF ink = {} THEN <<>> ELSE SubSeq(s, Smallest(ink), Greatest(ink))

Includes(hay, needle) ==
    \E i \in 0..Len(hay) : StartsWith(Drop(hay, i), needle)

(* How many bytes at i form a whole character; 0 when they do not.         *)
CharAt(s, i) ==
    LET follows(n) == i + n <= Len(s) /\ \A k \in 1..n : IsContinuation(s[i + k])
    IN CASE s[i] = "L" -> IF follows(1) THEN 2 ELSE 0
         [] s[i] = "F" -> IF follows(2) THEN 3 ELSE 0
         [] IsContinuation(s[i]) -> 0
         [] OTHER -> 1

(* String::from_utf8_lossy: each part that decodes to nothing becomes one  *)
(* U+FFFD, of three bytes.                                                 *)
Lossy(s) ==
    LET from[i \in 1..Len(s) + 1] ==
            IF i > Len(s) THEN <<>>
            ELSE LET n == CharAt(s, i)
                     cut == IF s[i] = "F" /\ i < Len(s) /\ IsContinuation(s[i + 1])
                            THEN 2 ELSE 1
                 IN IF n = 0 THEN Replacement \o from[i + cut]
                    ELSE SubSeq(s, i, i + n - 1) \o from[i + n]
    IN from[1]

(* Every part of s decodes. *)
Whole(s) == Lossy(s) = s

(* The names of programs and files are strings of the same bytes.          *)
Bytes == Printable \cup {"F"}

ASSUME NamesAssumption ==
    /\ \A n \in Programs : n \in Seq(Bytes) /\ Whole(n)
    /\ \A d \in DOMAIN Listing : \A x \in Listing[d] : x.name \in Seq(Bytes) /\ Whole(x.name)

-----------------------------------------------------------------------------
(* What the client's terminal shows on the edited line, and where its      *)
(* cursor stands.  A column is a byte that starts a character.             *)
Columns(s) == Cardinality({i \in 1..Len(s) : ~IsContinuation(s[i])})

Shows(line, col) == [mode |-> "line", line |-> line, col |-> col]

(* redraw: the whole buffer, then back over what follows the cursor.       *)
Redraw(e) ==
    [e EXCEPT !.scr = Shows(e.buf, Columns(e.buf) - Columns(Drop(e.buf, e.cursor)))]

RenderSearch(e) == [e EXCEPT !.scr.mode = "search"]

(* The fast path of insert: the byte is written where the cursor stands.   *)
AppendByte(e, b) ==
    [e EXCEPT !.scr.line = Append(@, b),
              !.scr.col = IF IsContinuation(b) THEN @ ELSE @ + 1]

-----------------------------------------------------------------------------
(* Editing primitives.                                                     *)
PrevChar(e, i) ==
    Greatest({0} \cup {k \in 1..(i - 1) : ~IsContinuation(e.buf[k + 1])})

NextChar(e, i) ==
    Smallest({Len(e.buf)} \cup {k \in (i + 1)..(Len(e.buf) - 1) : ~IsContinuation(e.buf[k + 1])})

WordStartAt(e) ==
    Greatest({0} \cup {k \in 1..e.cursor : e.buf[k] \in Blanks})

(* drain(from..to), leaving the cursor where the text was.                 *)
Drain(e, from, to) ==
    [e EXCEPT !.buf = Take(e.buf, from) \o Drop(e.buf, to), !.cursor = from]

Insert_AlwaysAppends(e, b) ==
    IF Len(e.buf) >= MaxBuffer THEN [e EXCEPT !.cut = TRUE]
    ELSE AppendByte([e EXCEPT !.buf = Take(e.buf, e.cursor) \o <<b>> \o Drop(e.buf, e.cursor),
                              !.cursor = @ + 1, !.histPos = 0], b)

Insert(e, b) ==
    IF Len(e.buf) >= MaxBuffer THEN [e EXCEPT !.cut = TRUE]
    ELSE LET n == [e EXCEPT !.buf = Take(e.buf, e.cursor) \o <<b>> \o Drop(e.buf, e.cursor),
                            !.cursor = @ + 1, !.histPos = 0]
         IN IF n.cursor = Len(n.buf) THEN AppendByte(n, b) ELSE Redraw(n)

Backspace(e) ==
    IF e.cursor = 0 THEN e ELSE Redraw(Drain(e, PrevChar(e, e.cursor), e.cursor))

DeleteForward(e) ==
    IF e.cursor >= Len(e.buf) THEN e
    ELSE Redraw(Drain(e, e.cursor, NextChar(e, e.cursor)))

MoveHome(e) == Redraw([e EXCEPT !.cursor = 0])

MoveEnd(e) == Redraw([e EXCEPT !.cursor = Len(e.buf)])

MoveLeft(e) ==
    IF e.cursor = 0 THEN e
    ELSE [e EXCEPT !.cursor = PrevChar(e, e.cursor), !.scr.col = @ - 1]

MoveRight(e) ==
    IF e.cursor >= Len(e.buf) THEN e
    ELSE [e EXCEPT !.cursor = NextChar(e, e.cursor), !.scr.col = @ + 1]

KillToStart(e) ==
    IF e.cursor = 0 THEN e
    ELSE Redraw([Drain(e, 0, e.cursor) EXCEPT !.kill = Take(e.buf, e.cursor)])

KillToEnd(e) ==
    IF e.cursor >= Len(e.buf) THEN e
    ELSE Redraw([Drain(e, e.cursor, Len(e.buf)) EXCEPT !.kill = Drop(e.buf, e.cursor)])

KillWord(e) ==
    LET ink == Greatest({0} \cup {k \in 1..e.cursor : e.buf[k] \notin Blanks})
        from == Greatest({0} \cup {k \in 1..ink : e.buf[k] \in Blanks})
    IN IF e.cursor = 0 THEN e
       ELSE Redraw([Drain(e, from, e.cursor) EXCEPT !.kill = SubSeq(e.buf, from + 1, e.cursor)])

Yank(e) ==
    IF e.kill = <<>> \/ Len(e.buf) + Len(e.kill) > MaxBuffer THEN e
    ELSE Redraw([e EXCEPT !.buf = Take(e.buf, e.cursor) \o e.kill \o Drop(e.buf, e.cursor),
                          !.cursor = @ + Len(e.kill), !.histPos = 0])

ClearLine(e) == [e EXCEPT !.buf = <<>>, !.cursor = 0, !.histPos = 0, !.stash = <<>>]

Interrupt(e) == Redraw(ClearLine(e))

(* Ctrl-D on an empty line ends the channel (Reaction::Eof).               *)
CtrlD(e) == IF e.buf = <<>> THEN [e EXCEPT !.open = FALSE] ELSE DeleteForward(e)

-----------------------------------------------------------------------------
(* History.  histPos 0 is None; entries count from 1.                      *)
PushHistory(h, line) ==
    LET t == Trim(line)
        all == Append(h, t)
    IN IF t = <<>> \/ (h # <<>> /\ h[Len(h)] = t) THEN h
       ELSE Drop(all, IF Len(all) > MaxHistory THEN Len(all) - MaxHistory ELSE 0)

(* Enter: the line goes to the shell, and the caller draws the next prompt *)
(* over the empty line.                                                    *)
Submit(e) ==
    LET line == Lossy(e.buf)
    IN Redraw([ClearLine(e) EXCEPT !.history = PushHistory(@, line)])

Recall(e, i) ==
    Redraw([e EXCEPT !.histPos = i, !.buf = e.history[i], !.cursor = Len(e.history[i])])

HistoryPrev(e) ==
    CASE e.history = <<>> \/ e.histPos = 1 -> e
      [] e.history # <<>> /\ e.histPos = 0 -> Recall([e EXCEPT !.stash = e.buf], Len(e.history))
      [] e.histPos > 1 -> Recall(e, e.histPos - 1)

HistoryNext(e) ==
    CASE e.histPos = 0 -> e
      [] e.histPos > 0 /\ e.histPos < Len(e.history) -> Recall(e, e.histPos + 1)
      [] OTHER -> Redraw([e EXCEPT !.histPos = 0, !.buf = e.stash,
                                   !.cursor = Len(e.stash), !.stash = <<>>])

-----------------------------------------------------------------------------
(* Reverse incremental search.  search is <<>> or one [query, matched].    *)
StartSearch(e) == RenderSearch([e EXCEPT !.search = <<[query |-> <<>>, matched |-> 0]>>])

FindMatch(e, before, query) ==
    IF query = <<>> THEN 0
    ELSE Greatest({0} \cup {i \in 1..Least(before - 1, Len(e.history)) : Includes(e.history[i], query)})

(* A changed query is looked up again from the newest entry.               *)
SearchFor(e, query) ==
    RenderSearch([e EXCEPT !.search[1] =
        [query |-> query, matched |-> FindMatch(e, Len(e.history) + 1, query)]])

SearchStep(e) ==
    LET s == e.search[1]
        from == IF s.matched = 0 THEN Len(e.history) + 1 ELSE s.matched
        older == FindMatch(e, from, s.query)
    IN RenderSearch(IF older = 0 THEN e ELSE [e EXCEPT !.search[1].matched = older])

AcceptSearch(e) ==
    LET i == e.search[1].matched
        found == IF i = 0 THEN e.buf ELSE e.history[i]
        kept == IF i = 0 THEN found ELSE Take(found, Least(Len(found), MaxBuffer))
    IN [e EXCEPT !.search = <<>>, !.buf = kept, !.cursor = Len(kept), !.histPos = 0,
                 !.cut = @ \/ kept # found]

-----------------------------------------------------------------------------
(* Completion.  An outcome is None, Single or Listing.                     *)
Nothing == [kind |-> "none"]
Single(text, space) == [kind |-> "single", text |-> text, space |-> space]
Ambiguous == [kind |-> "listing"]

CommonPrefix(names) ==
    LET first == CHOOSE n \in names : TRUE
        shared == {k \in 0..Len(first) : \A n \in names : StartsWith(n, Take(first, k))}
    IN Take(first, Greatest({k \in 0..Greatest(shared) : Boundary(first, k)}))

CompleteCommand(word) ==
    LET names == {n \in Programs : StartsWith(n, word)}
        lcp == CommonPrefix(names)
    IN CASE names = {} -> Nothing
         [] Cardinality(names) = 1 -> Single(CHOOSE n \in names : TRUE, TRUE)
         [] Cardinality(names) > 1 /\ Len(lcp) > Len(word) -> Single(lcp, FALSE)
         [] OTHER -> Ambiguous

(* The directory part is kept as it was typed; hidden names are offered    *)
(* only once the dot is typed.                                             *)
CompletePath(word) ==
    LET slash == Greatest({0} \cup {i \in 1..Len(word) : word[i] = "/"})
        dirPart == Take(word, slash)
        base == Drop(word, slash)
        entries == IF dirPart \in DOMAIN Listing THEN Listing[dirPart] ELSE {}
        cands == {x \in entries : /\ StartsWith(x.name, base)
                                  /\ StartsWith(base, <<".">>) \/ ~StartsWith(x.name, <<".">>)}
        one == CHOOSE x \in cands : TRUE
        lcp == CommonPrefix({x.name : x \in cands})
    IN CASE cands = {} -> Nothing
         [] Cardinality(cands) = 1 ->
                Single(dirPart \o one.name \o (IF one.dir THEN <<"/">> ELSE <<>>), ~one.dir)
         [] Cardinality(cands) > 1 /\ Len(lcp) > Len(base) -> Single(dirPart \o lcp, FALSE)
         [] OTHER -> Ambiguous

Complete(word, isCommand) ==
    IF isCommand /\ \A i \in 1..Len(word) : word[i] # "/"
    THEN CompleteCommand(word) ELSE CompletePath(word)

(* The completed word stays whole; what does not fit of the text after the *)
(* cursor is dropped from a character boundary on.                         *)
ApplyCompletion_CutsAnywhere(e, text, space) ==
    LET head == Take(e.buf, WordStartAt(e)) \o text \o (IF space THEN <<"sp">> ELSE <<>>)
        tail == Drop(e.buf, e.cursor)
        room == IF MaxBuffer > Len(head) THEN MaxBuffer - Len(head) ELSE 0
    IN Redraw([e EXCEPT !.buf = head \o Take(tail, Least(room, Len(tail))), !.cursor = Len(head)])

ApplyCompletion(e, text, space) ==
    LET head == Take(e.buf, WordStartAt(e)) \o text \o (IF space THEN <<"sp">> ELSE <<>>)
        tail == Drop(e.buf, e.cursor)
        room == IF MaxBuffer > Len(head) THEN MaxBuffer - Len(head) ELSE 0
        keep == Greatest({k \in 0..Least(room, Len(tail)) : Boundary(tail, k)})
    IN Redraw([e EXCEPT !.buf = head \o Take(tail, keep), !.cursor = Len(head)])

CompleteCurrentWord(e) ==
    LET start == WordStartAt(e)
        word == Lossy(SubSeq(e.buf, start + 1, e.cursor))
        done == Complete(word, \A i \in 1..start : e.buf[i] \in Blanks)
    IN CASE done.kind = "none" -> e
         [] done.kind = "single" -> ApplyCompletion(e, done.text, done.space)
         [] done.kind = "listing" -> Redraw(e)

-----------------------------------------------------------------------------
(* The keys.                                                               *)
PlainKey(e, key) ==
    CASE key = "Enter" -> Submit(e)
      [] key = "Esc" -> [e EXCEPT !.esc = "got"]
      [] key = "Tab" -> CompleteCurrentWord(e)
      [] key = "Backspace" -> Backspace(e)
      [] key = "Home" -> MoveHome(e)
      [] key = "End" -> MoveEnd(e)
      [] key = "Left" -> MoveLeft(e)
      [] key = "Right" -> MoveRight(e)
      [] key = "Prev" -> HistoryPrev(e)
      [] key = "Next" -> HistoryNext(e)
      [] key = "KillStart" -> KillToStart(e)
      [] key = "KillEnd" -> KillToEnd(e)
      [] key = "KillWord" -> KillWord(e)
      [] key = "Yank" -> Yank(e)
      [] key = "Clear" -> Redraw(e)
      [] key = "Search" -> StartSearch(e)
      [] key = "Interrupt" -> Interrupt(e)
      [] key = "Eof" -> CtrlD(e)
      [] key \in Printable -> Insert(e, key)
      [] OTHER -> e

InputAfterEsc(e, key) ==
    IF key = "[" THEN [e EXCEPT !.esc = "csi", !.params = <<>>]
    ELSE [e EXCEPT !.esc = "none"]

InputCsi(e, key) ==
    LET d == [e EXCEPT !.esc = "none", !.params = <<>>]
    IN CASE key \in {"1", "3", "4", ";"} ->
                IF Len(e.params) < 8 THEN [e EXCEPT !.params = Append(@, key)] ELSE e
         [] key = "A" -> HistoryPrev(d)
         [] key = "B" -> HistoryNext(d)
         [] key = "C" -> MoveRight(d)
         [] key = "D" -> MoveLeft(d)
         [] key = "H" -> MoveHome(d)
         [] key = "E" -> MoveEnd(d)
         [] key = "~" /\ e.params = <<"1">> -> MoveHome(d)
         [] key = "~" /\ e.params = <<"4">> -> MoveEnd(d)
         [] key = "~" /\ e.params = <<"3">> -> DeleteForward(d)
         [] OTHER -> d

(* Enter runs the match; any other editing key takes it into the buffer    *)
(* and then does its own work.  Escape leaves search at once, so the rest  *)
(* of an arrow key is text.                                                *)
InputSearch(e, key) ==
    LET query == e.search[1].query
    IN CASE key = "Enter" -> Submit(AcceptSearch(e))
         [] key = "Search" -> SearchStep(e)
         [] key \in {"Abort", "Interrupt", "Esc"} -> Redraw([e EXCEPT !.search = <<>>])
         [] key = "Backspace" -> SearchFor(e, Take(query, IF query = <<>> THEN 0 ELSE Len(query) - 1))
         [] key \in Printable ->
                SearchFor(e, IF Len(query) < MaxBuffer THEN Append(query, key) ELSE query)
         [] key = "Tab" -> CompleteCurrentWord(AcceptSearch(e))
         [] OTHER -> PlainKey(Redraw(AcceptSearch(e)), key)

Input(e, key) ==
    CASE e.esc = "got" -> InputAfterEsc(e, key)
      [] e.esc = "csi" -> InputCsi(e, key)
      [] e.esc = "none" /\ e.search # <<>> -> InputSearch(e, key)
      [] OTHER -> PlainKey(e, key)

-----------------------------------------------------------------------------
EditorInit ==
    ed = [buf |-> <<>>, cursor |-> 0, kill |-> <<>>, history |-> <<>>, histPos |-> 0,
          stash |-> <<>>, esc |-> "none", params |-> <<>>, search |-> <<>>, open |-> TRUE,
          scr |-> Shows(<<>>, 0), cut |-> FALSE, key |-> "none", keys |-> 0]

(* The client sends a byte.  The second byte of a character follows its    *)
(* first, and no character is started inside an escape sequence.           *)
Press(key) ==
    /\ ed.open /\ ed.keys < MaxKeys
    /\ IsContinuation(key) <=> ed.key = "L"
    /\ key = "L" => ed.esc = "none"
    /\ ed' = [Input(ed, key) EXCEPT !.key = key, !.keys = ed.keys + 1]

EditorNext == \E key \in Typeable \cup Controls : Press(key)
EditorSpec == EditorInit /\ [][EditorNext]_ed

-----------------------------------------------------------------------------
(* The text a client types reaches the buffer, the kill slot, the history  *)
(* and so the log in whole characters, and the cursor never stands inside  *)
(* one, whatever is killed, yanked, recalled, searched or completed;       *)
(* between the two bytes of a character only the second is missing.  Only  *)
(* the cap of the line cuts one.                                           *)
CharactersStayWhole ==
    ~ed.cut =>
        /\ ed.key # "L" => Whole(ed.buf) /\ Boundary(ed.buf, ed.cursor)
        /\ Whole(ed.kill) /\ Whole(ed.stash)
        /\ \A i \in 1..Len(ed.history) : Whole(ed.history[i])

(* Every index the editor keeps points where it may be used: the cursor    *)
(* into the buffer, the browsing place and the search match into a history *)
(* that loses its oldest entries; and the match that Enter would run       *)
(* contains the query the client sees.                                     *)
IndicesValid ==
    /\ ed.cursor \in 0..Len(ed.buf)
    /\ Len(ed.history) <= MaxHistory
    /\ ed.histPos \in 0..Len(ed.history)
    /\ ed.search # <<>> =>
          LET s == ed.search[1]
          IN s.matched # 0 => s.matched <= Len(ed.history) /\ Includes(ed.history[s.matched], s.query)

(* No sequence of keys leaves the editor with half a character or with an  *)
(* index that its next key would use out of range.                         *)
EditorConsistent == CharactersStayWhole /\ IndicesValid

(* What the client's terminal shows is the line the editor holds.          *)
InStep(e) ==
    IF e.search # <<>> THEN e.scr.mode = "search"
    ELSE /\ e.scr.mode = "line" /\ e.scr.line = e.buf
         /\ e.scr.col = Columns(Take(e.buf, e.cursor))

(* Every key leaves the terminal showing the edited line with its cursor   *)
(* on the right column, if it did so before.  The one exception is a Tab   *)
(* that leaves a search with nothing to complete: the redraw is lost.      *)
ScreenFollows ==
    [][InStep(ed) /\ ~(ed.search # <<>> /\ ed'.key = "Tab") => InStep(ed')]_ed

(* A Tab only adds: what decodes before the cursor still stands there, and *)
(* what followed it is cut only by the cap, by no more than it must: a     *)
(* character has at most three bytes, so two may stay unused.              *)
CompletionExtends ==
    [][(ed'.key = "Tab" /\ ed.search = <<>> /\ ed.esc = "none") =>
          /\ Whole(Take(ed.buf, ed.cursor)) =>
                StartsWith(Take(ed'.buf, ed'.cursor), Take(ed.buf, ed.cursor))
          /\ StartsWith(Drop(ed.buf, ed.cursor), Drop(ed'.buf, ed'.cursor))
          /\ Drop(ed'.buf, ed'.cursor) # Drop(ed.buf, ed.cursor) => Len(ed'.buf) + 2 >= MaxBuffer]_ed

(* The client sees the line it is editing, also across a completion, which *)
(* takes nothing away from it.                                             *)
EditsAreSeen == ScreenFollows /\ CompletionExtends

(* The line never outgrows max_line: "the buffer and history are bounded". *)
BufferBounded == Len(ed.buf) <= MaxBuffer
=============================================================================

------------------------------- MODULE Shell --------------------------------
(***************************************************************************)
(* Running a command line: shell/mod.rs from `execute` down to `dispatch`  *)
(* of commands/mod.rs and back, with the commands that run other commands  *)
(* (sh, sudo, nohup, xargs), command substitution, redirections,           *)
(* here-documents and prompts, and the network layer's drain of captures.  *)
(*                                                                         *)
(* What the parser makes of a line is `Parse` (see Parser for how): its    *)
(* segments, their stages, and each stage's words and redirections.  A     *)
(* word is a literal, a "$(...)" or a "$X".  Every operator takes the      *)
(* shell and gives the shell it leaves, in the order of the code.          *)
(***************************************************************************)
EXTENDS Commands

CONSTANTS
    Parse,          \* of every line that is run: its parts
    Typed,          \* the lines the client submits
    Answers,        \* what it types at a prompt or as a here-document body
    EndOfBody,      \* the delimiter of every here-document
    BodySub,        \* body lines that are a substitution, and what it runs
    MaxLines        \* bound: how many lines it submits

VARIABLES
    sh,             \* the Shell
    reply,          \* the Output of the last line, and what was logged of it
    count           \* how many lines were submitted

shellVars == <<sh, reply, count>>

Lit(w) == [kind |-> "lit", of |-> w]

(* A line nobody wrote a meaning for is one word, and no command. *)
LineOf(t) ==
    IF t \in DOMAIN Parse THEN Parse[t]
    ELSE [doc |-> None,
          segments |-> <<[run_if |-> "Always",
                          stages |-> <<[words |-> <<Lit(t)>>, redirs |-> <<>>, bad |-> FALSE]>>]>>]

(* sh -c: the line is only split into words, so its operators and            *)
(* redirections are words like any other.                                    *)
StageWords(stage) ==
    stage.words \o FlattenSeq([k \in DOMAIN stage.redirs |-> <<Lit(">"), Lit("target")>>])
WordsOf(line) ==
    FlattenSeq([k \in DOMAIN line.segments |->
        LET stages == line.segments[k].stages
        IN  (IF k > 1 THEN <<Lit(line.segments[k].run_if)>> ELSE <<>>)
            \o FlattenSeq([j \in DOMAIN stages |->
                  (IF j > 1 THEN <<Lit("|")>> ELSE <<>>) \o StageWords(stages[j])])])

-----------------------------------------------------------------------------
(* Redirections. *)

NoSinks == [stdout |-> None, stderr |-> None, out_merged |-> FALSE, err_merged |-> FALSE]

(* One redirection against the sinks so far: the sink it denotes, and        *)
(* whether it is a dup of a stream that still reaches the client.            *)
Point(sinks, r, sink, merged) ==
    LET toOut == r.stream \in {"Stdout", "Both"}
        toErr == r.stream \in {"Stderr", "Both"}
    IN  [stdout     |-> IF toOut THEN sink ELSE sinks.stdout,
         stderr     |-> IF toErr THEN sink ELSE sinks.stderr,
         out_merged |-> IF toOut THEN merged ELSE sinks.out_merged,
         err_merged |-> IF toErr THEN merged ELSE sinks.err_merged]

Dup_ForgetsTheClient(sinks, r) ==
    IF r.dup = r.stream THEN sinks
    ELSE Point(sinks, r, IF r.dup = "Stdout" THEN sinks.stdout ELSE sinks.stderr, FALSE)

Dup(sinks, r) ==
    LET onto == IF r.dup = "Stdout" THEN sinks.stdout ELSE sinks.stderr
    IN  IF r.dup = r.stream THEN sinks ELSE Point(sinks, r, onto, onto = None)

(* open_redirect: the error, or the sink and the shell with the target       *)
(* created or truncated.                                                     *)
OpenRedirect(s, path, append) ==
    LET node  == ResolveParent(s, path)
        sink  == [node |-> node, append |-> append]
        fresh == AddFile(s, node, <<>>)
    IN  IF node = NoNode THEN [failed |-> TRUE, sh |-> s]
        ELSE IF node = DevNull THEN [failed |-> FALSE, sh |-> s, sink |-> sink]
        ELSE IF Exists(s, node)
        THEN [failed |-> ~FileWritable(s, node) \/ (~append /\ ~Written(s, node, <<>>, FALSE)),
              sh     |-> IF append \/ ~FileWritable(s, node) THEN s
                         ELSE WriteFile(s, node, <<>>, FALSE),
              sink   |-> sink]
        ELSE [failed |-> ~DirWritable(s, node[1]) \/ ~Exists(fresh, node),
              sh     |-> IF DirWritable(s, node[1]) THEN fresh ELSE s,
              sink   |-> sink]

RECURSIVE OpenRedirects(_, _, _), ExpandWords(_, _), Substitute(_, _), Execute(_, _),
          RunSegments(_, _, _), RunStages(_, _, _), Dispatch(_, _), RunLines(_, _, _, _),
          RunGroups(_, _, _, _, _)

(* open_redirects, one after the other: the operand is expanded, then opened. *)
Opened(one, redirs, sinks) ==
    IF one.failed THEN [failed |-> TRUE, sh |-> one.sh]
    ELSE OpenRedirects(one.sh, Tail(redirs), Point(sinks, redirs[1], one.sink, FALSE))

OpenTarget(words, redirs, sinks) ==
    IF Len(words.argv) # 1 THEN [failed |-> TRUE, sh |-> words.sh]
    ELSE Opened(OpenRedirect(words.sh, Tok(words.argv[1]), redirs[1].append), redirs, sinks)

OpenRedirects(s, redirs, sinks) ==
    IF redirs = <<>> THEN [failed |-> FALSE, sh |-> s, sinks |-> sinks]
    ELSE IF redirs[1].dup # "none" THEN OpenRedirects(s, Tail(redirs), Dup(sinks, redirs[1]))
    ELSE OpenTarget(ExpandWords(s, <<redirs[1].path>>), redirs, sinks)

(* divert and write_redirect: nothing written leaves the sink alone; a       *)
(* second stream onto the same node follows the first.                       *)
Diverted(s, sink, text, written) ==
    LET append == sink.append \/ sink.node = written
    IN  IF text = <<>> \/ sink.node = DevNull THEN [sh |-> s, failed |-> FALSE]
        ELSE [sh |-> WriteFile(s, sink.node, text, append),
              failed |-> ~Written(s, sink.node, text, append)]

(* route_output: stderr first, then stdout; a refused write is an error of   *)
(* the command; then the dups of a stream that still reaches the client.     *)
RouteOutput(r, sinks) ==
    LET first   == IF sinks.stderr = None THEN [sh |-> r.sh, failed |-> FALSE]
                   ELSE Diverted(r.sh, sinks.stderr, r.err, NoNode)
        written == IF sinks.stderr # None /\ r.err # <<>> THEN sinks.stderr.node ELSE NoNode
        second  == IF sinks.stdout = None THEN [sh |-> first.sh, failed |-> FALSE]
                   ELSE Diverted(first.sh, sinks.stdout, r.out, written)
        failed  == first.failed \/ second.failed
        err1    == (IF sinks.stderr = None THEN r.err ELSE <<>>)
                       \o (IF failed THEN <<"No space left on device">> ELSE <<>>)
        out1    == IF sinks.stdout = None THEN r.out ELSE <<>>
        out2    == IF sinks.err_merged THEN err1 \o out1 ELSE out1
        err2    == IF sinks.err_merged THEN <<>> ELSE err1
    IN  [r EXCEPT !.sh = second.sh,
                  !.status = IF failed THEN 1 ELSE @,
                  !.out = IF sinks.out_merged THEN <<>> ELSE out2,
                  !.err = IF sinks.out_merged THEN err2 \o out2 ELSE err2]

-----------------------------------------------------------------------------
(* Expansion. *)

(* parse_line: the argument words, left to right. *)
Joined(words, s, more) == [sh |-> s, argv |-> words.argv \o more]

ExpandWord(words, w) ==
    CASE w.kind = "lit" -> Joined(words, words.sh, <<<<w.of>>>>)
      [] w.kind = "var" -> LET value == words.sh.id.env[w.of]
                           IN  Joined(words, words.sh, IF value = <<>> THEN <<>> ELSE <<value>>)
      [] w.kind = "sub" -> LET With(inner) == Joined(words, inner.sh, <<inner.value>>)
                           IN  With(Substitute(words.sh, w.of))

ExpandWords(s, words) == FoldLeft(ExpandWord, [sh |-> s, argv |-> <<>>], words)

(* The trailing newlines of a value go. *)
RECURSIVE StripBlank(_)
StripBlank(text) ==
    IF text # <<>> /\ text[Len(text)] = "" THEN StripBlank(SubSeq(text, 1, Len(text) - 1))
    ELSE text

(* substitute: the body runs on a copy of the session (Subshell), what it    *)
(* captured is added to the line's, its stderr is held for the line, and its *)
(* value is cut to what is left of the budget.                               *)
Deeper(s) == [s EXCEPT !.nesting = @ + 1, !.peak = IF @ > s.nesting THEN @ ELSE s.nesting + 1]

Value(r) ==
    LET bare == IF r.exit /\ r.out # <<>> /\ r.out[Len(r.out)] = LOGOUT
                THEN SubSeq(r.out, 1, Len(r.out) - 1) ELSE r.out
    IN  StripBlank(bare)

(* The room a value has: what is left when the body, and the substitutions   *)
(* in it, have run.                                                          *)
Room(s, run) == run.sh.budget

Rejoin(s, run, value) ==
    [run.sh EXCEPT !.id = s.id, !.pending = s.pending, !.screen = s.screen,
                   !.captures = s.captures \o @,
                   !.nesting = s.nesting, !.depth = s.depth,
                   !.substErr = TruncateStream(@ \o run.err, MaxOutput),
                   !.budget = @ - Len(value)]

AtCap_Late(s) == s.nesting > MaxNested

AtCap(s) == s.nesting >= MaxNested

Substituted(s, run) ==
    LET value == Take(Value(run), Room(s, run))
    IN  [sh |-> Rejoin(s, run, value), value |-> value]

Substitute(s, body) ==
    IF AtCap(s) THEN [sh |-> s, value |-> <<>>]
    ELSE Substituted(s, Execute([Deeper(s) EXCEPT !.depth = @ + 1], body))

-----------------------------------------------------------------------------
(* Pipelines and lines. *)

(* run_pipeline: `p` is what the loop carries.  An early error ends the      *)
(* pipeline and takes the stderr collected so far with it.                   *)
Piping(piped) == [piped |-> piped, ran |-> FALSE, out |-> <<>>, err |-> <<>>,
                  status |-> 0, exit |-> FALSE]

Refused(why, status) == [Piping(<<>>) EXCEPT !.ran = TRUE, !.err = <<why>>, !.status = status]

(* A stage: its words are expanded, its targets opened, its command run with *)
(* the stage before on stdin, and its output routed.                         *)
StageDone(routed, errs, rest) ==
    RunStages(routed.sh, rest,
        [piped |-> <<routed.out>>, ran |-> TRUE, out |-> routed.out,
         err |-> TruncateStream(errs \o routed.err, MaxOutput),
         status |-> routed.status, exit |-> routed.exit])

StageOpened(opened, argv, stages, p) ==
    LET errs  == TruncateStream(p.err \o opened.sh.substErr, MaxOutput)
        ready == [opened.sh EXCEPT !.substErr = <<>>]
        tty   == Len(stages) = 1 /\ opened.sinks.stdout = None /\ ready.depth = 0
        After(done) == [done EXCEPT !.sh = [@ EXCEPT !.stdin = <<>>, !.tty = TRUE]]
    IN  IF opened.failed THEN [p |-> Refused("redirect refused", 1), sh |-> opened.sh]
        ELSE IF argv = <<>> THEN RunStages(ready, Tail(stages), [p EXCEPT !.err = errs])
        ELSE StageDone(RouteOutput(
                           After(Dispatch([ready EXCEPT !.stdin = p.piped, !.tty = tty], argv)),
                           opened.sinks), errs, Tail(stages))

StageExpanded(words, stages, p) ==
    StageOpened(OpenRedirects(words.sh, stages[1].redirs, NoSinks), words.argv, stages, p)

RunStages(s, stages, p) ==
    IF stages = <<>> THEN [p |-> p, sh |-> s]
    ELSE IF stages[1].bad THEN [p |-> Refused("syntax error", 2), sh |-> s]
    ELSE StageExpanded(ExpandWords(s, stages[1].words), stages, p)

RunPipeline(s, stages) ==
    RunStages([s EXCEPT !.docIn = <<>>], stages, Piping(s.docIn))

(* execute: captures start over, and at the top so do the budget and the     *)
(* held stderr; a here-document parks the line.                              *)
NoOutput == [text |-> <<>>, out |-> <<>>, err |-> <<>>, status |-> 0, exit |-> FALSE]

ShouldRun(run_if, status) ==
    CASE run_if = "Always" -> TRUE [] run_if = "AndIf" -> status = 0
      [] run_if = "OrIf" -> status # 0

LineSoFar(here, rest, all) ==
    LET Cut(text) == TruncateStream(text, MaxOutput)
    IN  IF all.exit THEN all @@ [sh |-> here]
        ELSE IF Len(all.text) >= MaxOutput
        THEN [all EXCEPT !.text = Cut(@), !.out = Cut(@), !.err = Cut(@)] @@ [sh |-> here]
        ELSE RunSegments(here, rest, all)

SegmentRan(ran, rest, o) ==
    LET p == ran.p
    IN  IF ~p.ran /\ p.err = <<>> THEN RunSegments(ran.sh, rest, o)
        ELSE LineSoFar([ran.sh EXCEPT !.last = p.status], rest,
                 [text |-> o.text \o p.err \o p.out, out |-> o.out \o p.out,
                  err |-> o.err \o p.err, status |-> p.status, exit |-> p.exit])

RunSegments(s, segments, o) ==
    LET seg == segments[1]
    IN  IF segments = <<>> THEN o @@ [sh |-> s]
        ELSE IF seg.stages = <<>> /\ seg.run_if # "Always"
        THEN [NoOutput EXCEPT !.text = <<"syntax error">>, !.err = <<"syntax error">>,
                              !.status = 2] @@ [sh |-> s]
        ELSE IF seg.stages = <<>> \/ ~ShouldRun(seg.run_if, o.status)
        THEN RunSegments(s, Tail(segments), o)
        ELSE SegmentRan(RunPipeline(s, seg.stages), Tail(segments), o)

Execute(s, line) ==
    LET top   == s.nesting = 0
        clear == [s EXCEPT !.captures = <<>>,
                           !.budget = IF top THEN MaxOutput ELSE @,
                           !.substErr = IF top THEN <<>> ELSE @]
    IN  IF top /\ LineOf(line).doc # None
        THEN NoOutput @@ [sh |-> [clear EXCEPT !.pending =
                                    [kind |-> "doc", line |-> line, body |-> <<>>]]]
        ELSE RunSegments(clear, LineOf(line).segments, NoOutput)

-----------------------------------------------------------------------------
(* Commands that run commands. *)

(* run_script: every line through `execute`; the captures of all of them     *)
(* are kept, next to one for each line.                                      *)
Collected_LastOnly(kept, line, ran) == <<<<"script", line>>>> \o ran.sh.captures

Collected(kept, line, ran) == kept \o <<<<"script", line>>>> \o ran.sh.captures

LineRan(ran, text, acc, kept) ==
    LET out == [acc EXCEPT !.out = @ \o ran.out, !.err = @ \o ran.err, !.status = ran.status]
        now == Collected(kept, text[1], ran)
    IN  IF ran.exit \/ Len(out.out) + Len(out.err) > MaxOutput
        THEN [out EXCEPT !.sh = [ran.sh EXCEPT !.captures = now, !.made = @ + 1]]
        ELSE RunLines([ran.sh EXCEPT !.made = @ + 1], Tail(text), out, now)

RunLines(s, text, acc, kept) ==
    IF text = <<>> THEN [acc EXCEPT !.sh = [s EXCEPT !.captures = kept]]
    ELSE IF text[1] \in {"", "#"} THEN RunLines(s, Tail(text), acc, kept)
    ELSE LineRan(Execute(s, text[1]), text, acc, kept)

RunScript(s, text) ==
    RunLines(s, Take(text, MaxScriptLines), Ok(s, <<>>), s.captures)

(* shell_cmd: -c, a script operand, or stdin. *)
RunWords(words) ==
    IF words.argv = <<>> THEN Ok(words.sh, <<>>) ELSE Dispatch(words.sh, words.argv)

ShellCmd(s, args) ==
    LET node == Resolve(s, Tok(args[1]))
    IN  IF args = <<>> THEN IF StripBlank(Stdin(s)) = <<>> THEN Ok(s, <<>>)
                            ELSE RunScript(s, Stdin(s))
        ELSE IF Tok(args[1]) = "-c"
        THEN IF Len(args) = 1 THEN Err(s, "bash: -c: option requires an argument", 2)
             ELSE RunWords(ExpandWords(s, WordsOf(LineOf(Tok(args[2])))))
        ELSE IF ~Exists(s, node) THEN Err(s, "bash: no such file", 127)
        ELSE RunScript(s, s.files[node].text)

(* sudo: uid 0 for the wrapped command, the caller's uid after it. *)
Sudo(s, args) ==
    LET flag == args # <<>> /\ Tok(args[1]) \in {"-i", "-s"}
        rest == IF flag THEN Tail(args) ELSE args
        ran  == Dispatch([s EXCEPT !.id.root = TRUE], rest)
    IN  IF flag /\ rest = <<>> THEN Ok(SudoShell(s, Tok(args[1]) = "-s"), <<>>)
        ELSE IF rest = <<>> THEN Err(s, "usage: sudo", 1)
        ELSE [ran EXCEPT !.sh.id.root = s.id.root]

Nohup(s, args) ==
    IF args = <<>> THEN Err(s, "nohup: missing operand", 125)
    ELSE LET ran == Dispatch(s, args) IN [ran EXCEPT !.err = <<"nohup: ignoring input">> \o @]

(* xargs -n 1 COMMAND: once for every word of stdin. *)
GroupRan(ran, command, words, out, status) ==
    LET all == [out EXCEPT !.sh = ran.sh, !.out = @ \o ran.out, !.err = @ \o ran.err,
                           !.status = IF ran.status # 0 THEN ran.status ELSE status]
    IN  IF Len(all.out) > MaxOutput THEN all
        ELSE RunGroups(ran.sh, command, Tail(words), all, all.status)

RunGroups(s, command, words, out, status) ==
    IF words = <<>> THEN out
    ELSE GroupRan(Dispatch(s, Append(command, <<words[1]>>)), command, words, out, status)

Xargs(s, args) ==
    RunGroups(s, IF args = <<>> THEN <<<<"echo">>>> ELSE args,
              SelectSeq(Stdin(s), LAMBDA w : w # ""), Ok(s, <<>>), 0)

(* dispatch_inner: the registry. *)
Handle(s, name, args) ==
    CASE name = "echo"     -> Echo(s, args)
      [] name = "cat"      -> Cat(s, args)
      [] name = "cd"       -> Cd(s, args)
      [] name = "export"   -> Export(s, args)
      [] name = "unset"    -> Unset(s, args)
      [] name = "tee"      -> Tee(s, args)
      [] name = "wget"     -> Wget(s, args)
      [] name \in {"nc", "python3"} -> Connect(s, args)
      [] name \in {"top", "vi", "listen"} -> OpenScreen(s, name)
      [] name = "history"  -> HistoryCmd(s, args)
      [] name = "su"       -> Su(s, args)
      [] name = "sudo"     -> Sudo(s, args)
      [] name = "sh"       -> ShellCmd(s, args)
      [] name = "nohup"    -> Nohup(s, args)
      [] name = "xargs"    -> Xargs(s, args)
      [] name = "passwd"   -> Passwd(s, args)
      [] name = "chpasswd" -> Chpasswd(s)
      [] name = "useradd"  -> Useradd(s, args)
      [] name = "userdel"  -> Userdel(s, args)
      [] name = "groupadd" -> Groupadd(s, args)
      [] name = "ls"       -> Err(s, "ls: no such file", 2)

Handled == {"echo", "cat", "cd", "export", "unset", "tee", "wget", "nc", "python3", "top", "vi",
            "listen", "history", "su", "sudo", "sh", "nohup", "xargs", "passwd", "chpasswd",
            "useradd", "userdel", "groupadd", "ls"}

DispatchInner(s, name, args) ==
    IF name \in Handled THEN Truncate(Handle(s, name, args))
    ELSE CASE name = "true"  -> Ok(s, <<>>)
           [] name = "false" -> Result(s, <<>>, <<>>, 1)
           [] name = "exit"  -> Exit(s, args)
           [] OTHER          -> Err(s, "command not found", 127)

(* dispatch: one level deeper, or refused at the cap. *)
Shallower_UnlessExit(ran) == IF ran.exit THEN ran ELSE [ran EXCEPT !.sh.nesting = @ - 1]

Shallower(ran) == [ran EXCEPT !.sh.nesting = @ - 1]

Dispatch(s, argv) ==
    IF AtCap(s) THEN Err(s, "fork: retry", 1)
    ELSE Shallower(DispatchInner(Deeper(s), Tok(argv[1]), Tail(argv)))

-----------------------------------------------------------------------------
(* Here-documents and prompts. *)

(* run_heredoc: the document is logged whole, its body expanded and fed     *)
(* as stdin to the line it was opened on.   *)
ExpandBody(s, body) ==
    LET Lines(value) == IF value = <<>> THEN <<"">> ELSE value
        With(text, inner) == [sh |-> inner.sh, text |-> text.text \o Lines(inner.value)]
        One(text, line) ==
            IF line \in DOMAIN BodySub THEN With(text, Substitute(text.sh, BodySub[line]))
            ELSE With(text, [sh |-> text.sh, value |-> <<line>>])
    IN  FoldLeft(One, [sh |-> s, text |-> <<>>], body)

RunHeredoc(s, doc) ==
    LET parts == LineOf(doc.line).doc
        open  == [s EXCEPT !.pending = NoPending]
        log(captured) == [line |-> doc.line, body |-> doc.body, captured |-> captured]
        Fed(text) == [text.sh EXCEPT !.docIn = <<text.text>>, !.docLog = log(text.sh.made)]
        Left(ran) == [ran EXCEPT !.sh.docIn = <<>>]
    IN  Left(Execute(Fed(IF parts.expand THEN ExpandBody(open, doc.body)
                         ELSE [sh |-> open, text |-> doc.body]), parts.command))

(* resume, by the prompt that is outstanding. *)
Resume(s, input) ==
    LET p     == s.pending
        taken == [s EXCEPT !.pending = NoPending]
        said  == [NoOutput EXCEPT !.text = <<"said">>, !.out = <<"said">>]
    IN  CASE p.kind = "su" ->
                NoOutput @@ [sh |-> SwitchUser(Capture(taken, <<"su", p.target>>), p.target)]
          [] p.kind = "new" /\ p.first = <<>> ->
                said @@ [sh |-> [s EXCEPT !.pending.first = <<input>>]]
          [] p.kind = "new" /\ p.first # <<>> ->
                IF p.first # <<input>>
                THEN [NoOutput EXCEPT !.text = <<"mismatch">>, !.err = <<"mismatch">>,
                                      !.status = 1] @@ [sh |-> taken]
                ELSE said @@ [sh |-> SetShadowEntry(Capture(taken, <<"password", p.target>>),
                                                    p.target)]
          [] p.kind = "doc" ->
                IF input = EndOfBody THEN RunHeredoc(s, p)
                ELSE NoOutput @@ [sh |-> [s EXCEPT !.pending.body =
                                            TruncateStream(Append(@, input), MaxOutput)]]

(* finish_heredoc_at_eof: what has come runs, with a warning in front. *)
FinishAtEof(s) ==
    LET Warned(ran) == [ran EXCEPT !.text = <<"warning">> \o @, !.err = <<"warning">> \o @]
    IN  Warned(RunHeredoc(s, s.pending))

-----------------------------------------------------------------------------
(* The network layer's side of a line. *)

(* submit_line, deliver, drain_captures: the line is remembered and run,     *)
(* the captures are taken and logged, and the display, if any, is taken.     *)
Remember(s) == [s EXCEPT !.history = IF @ < MaxHistory THEN @ + 1 ELSE @]

Deliver(line, r) ==
    /\ sh' = [r.sh EXCEPT !.captures = <<>>, !.screen = "none", !.docLog = None]
    /\ reply' = [line |-> line, text |-> r.text, out |-> r.out, err |-> r.err,
                 exit |-> r.exit, logged |-> r.sh.captures, made |-> r.sh.made,
                 peak |-> r.sh.peak, screen |-> r.sh.screen, doc |-> r.sh.docLog]

Fresh(s) == [s EXCEPT !.made = 0, !.peak = 0]

ShellInit ==
    /\ \E interactive \in BOOLEAN :
          sh = [NewShell(interactive) EXCEPT !.id.env.SSH = <<"client">>]
    /\ reply = [line |-> "", text |-> <<>>, out |-> <<>>, err |-> <<>>, exit |-> FALSE,
                logged |-> <<>>, made |-> 0, peak |-> 0, screen |-> "none", doc |-> None]
    /\ count = 0

Submit(line) ==
    /\ count < MaxLines /\ ~reply.exit /\ sh.pending = NoPending
    /\ Deliver(line, Execute(Remember(Fresh(sh)), line))
    /\ count' = count + 1

Answer(input) ==
    /\ count < MaxLines /\ ~reply.exit /\ sh.pending # NoPending
    /\ Deliver(reply.line, Resume(Fresh(sh), input))
    /\ count' = count + 1

(* channel_eof of a channel without a terminal, in the middle of a body. *)
Eof ==
    /\ ~reply.exit /\ sh.pending.kind = "doc"
    /\ Deliver(reply.line, Exiting(FinishAtEof(Fresh(sh))))
    /\ UNCHANGED count

ShellNext == (\E line \in Typed : Submit(line)) \/ (\E a \in Answers : Answer(a)) \/ Eof

ShellSpec == ShellInit /\ [][ShellNext]_shellVars

-----------------------------------------------------------------------------
(* Between lines nothing of the running of a line is left: the nesting, the  *)
(* depth of substitutions, the standard input, the terminal flag and a       *)
(* here-document body are restored on every path out of a command, or the    *)
(* next line would start refused, piped or fed (dispatch, run_pipeline,      *)
(* substitute, run_heredoc).                                                 *)
ShellIsReset ==
    sh.nesting = 0 /\ sh.depth = 0 /\ sh.stdin = <<>> /\ sh.tty /\ sh.docIn = <<>>

(* Every capture a line makes is logged when the line is delivered, however  *)
(* deep in scripts and substitutions it was made: `execute` clears the       *)
(* captures, so each of its callers has to keep what was there.  One does    *)
(* not: what the substitutions in a here-document body captured is cleared   *)
(* when the document's own line runs (run_heredoc).                          *)
CapturesKept ==
    Len(reply.logged) = reply.made - (IF reply.doc = None THEN 0 ELSE reply.doc.captured)

(* Commands and substitutions together never nest deeper than the cap: every *)
(* level is a stack frame, and an overflow ends the process.                 *)
NestingBounded == reply.peak <= MaxNested

(* What one line sends is bounded, in each stream, by one budget and its     *)
(* notice, whatever the line chains, pipes, runs or expands; a line that     *)
(* ends the session skips the cut and may send three.                        *)
OutputBounded ==
    LET limit == IF reply.exit THEN 3 * MaxOutput + 3 ELSE MaxOutput + 1
    IN  Len(reply.text) <= limit /\ Len(reply.out) <= limit /\ Len(reply.err) <= limit

(* The budget for substituted text is charged after a body has run, and the  *)
(* body's own substitutions charge it too: it must not go below zero.        *)
BudgetHolds == sh.budget \in 0..MaxOutput

(* What a client can make one line cost is bounded: in stack, in output and  *)
(* in substituted text, whatever runs what inside it.                        *)
CostBounded == NestingBounded /\ OutputBounded /\ BudgetHolds

(* A substitution is a subshell: whatever the client could type, run inside  *)
(* `$(...)` it changes neither the identity, the directories and the         *)
(* environment of the session nor its prompt and its display.                *)
SubshellIsolated ==
    count < MaxLines => \A line \in Typed :
        LET after == Substitute(sh, line).sh
        IN  after.id = sh.id /\ after.pending = sh.pending /\ after.screen = sh.screen

(* The environment tells the session's own story: USER, HOME and PWD are the *)
(* user, the home and the directory the shell is in, and the connection's    *)
(* variables survive every change of identity, except where the client has   *)
(* itself exported or unset the name since.  That lasts until the session    *)
(* sets the name again: `cd` and `sudo -s` (unless the environment is full   *)
(* and the name gone), and for all but the connection's variables every      *)
(* change of user.  (A home that could not be made is replaced by `/`        *)
(* without a word in the environment.)                                       *)
EnvironmentMatches ==
    LET id == sh.id
        Says(name, value) == name \in id.touched \/ id.env[name] = <<value>>
    IN  /\ Says("SSH", "client")
        /\ Says("USER", id.user)
        /\ id.home # "/" => Says("HOME", id.home)
        /\ id.cwd # "/" => Says("PWD", id.cwd)

(* No account is listed twice in /etc/passwd, however useradd, userdel,      *)
(* scripts and refused writes follow each other.                             *)
AccountsUnique ==
    LET passwd == ReadText(sh, PASSWD)
    IN  \A j, k \in DOMAIN passwd : passwd[j] = passwd[k] /\ passwd[j] # "" => j = k

(* Between two lines the shell is one consistent session: nothing of the     *)
(* last line's nesting is left, its substitutions left no trace, and the     *)
(* environment and the account files agree with who the user is.             *)
SessionConsistent == ShellIsReset /\ SubshellIsolated /\ EnvironmentMatches /\ AccountsUnique

(* Where a command's two streams end up, by the descriptor table of a shell  *)
(* that applies redirections from left to right.                             *)
RECURSIVE Descriptors(_, _)
Descriptors(redirs, fd) ==
    IF redirs = <<>> THEN fd
    ELSE LET r      == redirs[1]
             target == IF r.dup = "none" THEN r.path.of ELSE fd[r.dup]
         IN  Descriptors(Tail(redirs),
                 [d \in DOMAIN fd |-> IF r.stream \in {d, "Both"} THEN target ELSE fd[d]])

Terminals == [Stdout |-> "terminal out", Stderr |-> "terminal err"]

(* ... and by the sinks and flags of this one. *)
EndsAt(r, files, mark) ==
    (IF Contains(r.out, mark) THEN {"terminal out"} ELSE {})
        \cup (IF Contains(r.err, mark) THEN {"terminal err"} ELSE {})
        \cup {f \in DOMAIN files : Contains(ReadText(r.sh, files[f]), mark)}

(* A dup of a stream that is itself a dup: `2>&1` and then `1>&2`. *)
DupOfDup(redirs) ==
    \E j, k \in DOMAIN redirs :
        j < k /\ redirs[j].dup # "none" /\ redirs[k].dup = redirs[j].stream

(* Redirections send each stream where the descriptor table says, for every  *)
(* sequence of them without a dup of a dup (the flags cannot say where that  *)
(* one goes).                                                                *)
RedirectsFollowDescriptors(Redirections, length, files) ==
    \A redirs \in UNION {[1..k -> Redirections] : k \in 1..length} :
        LET opened == OpenRedirects(sh, redirs, NoSinks)
            routed == RouteOutput(Result(opened.sh, <<"o">>, <<"e">>, 0), opened.sinks)
            fd     == Descriptors(redirs, Terminals)
        IN  ~opened.failed /\ ~DupOfDup(redirs) =>
                /\ EndsAt(routed, files, "o") = {fd.Stdout}
                /\ EndsAt(routed, files, "e") = {fd.Stderr}

-----------------------------------------------------------------------------
(* "`-c LINE`, the classic `sh -c "cd /tmp; wget ...; ./x"`" runs: every     *)
(* URL that LINE fetches is captured.                                        *)
Fetches(line) ==
    LET commands == {g.stages[1].words : g \in Range(line.segments)}
    IN  {<<"download", words[2].of>> : words \in {w \in commands : w[1].of = "wget"}}

PayloadsRun ==
    LET words == WordsOf(LineOf(reply.line))
    IN  Len(words) = 3 /\ words[1].of = "sh" /\ words[2].of = "-c" =>
            Fetches(LineOf(words[3].of)) \subseteq Range(reply.logged)

(* "Run the line a here-document was opened on, with the collected body as   *)
(* its stdin": a quoted document opened on `cat > f` ends up in f.           *)
BodyReachesItsCommand ==
    reply.doc # None =>
        LET doc == LineOf(reply.doc.line).doc
        IN  doc.expand \/ ReadText(sh, doc.into) = reply.doc.body

(* "whatever it captured is added to the outer line's captures rather than   *)
(* replacing them", said of substitutions: also of one in a document's body. *)
BodyCapturesKept == Len(reply.logged) = reply.made

(* su "switches the session's effective identity, as a fresh login shell":   *)
(* a session whose user is root has uid 0.                                   *)
RootIsRoot == sh.id.user = "root" => sh.id.root
=============================================================================

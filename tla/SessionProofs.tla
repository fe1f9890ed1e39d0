--------------------------- MODULE SessionProofs ---------------------------
(***************************************************************************)
(* Proofs about Session, for any number of channels, command lines and     *)
(* uploads.  SessionInv is inductive: the properties of the handler's      *)
(* fields, and the route of the frame in progress, which says what the     *)
(* fields were when the frame began and that only its end can change them. *)
(***************************************************************************)
EXTENDS Session, TLAPS

(* What the handler's own fields say of each other between any two steps:    *)
(* the channels are isolated, hidden input answers a password prompt on a    *)
(* terminal, there is no prompt without a shell, no display off a terminal.  *)
GoodHandler(s) ==
    /\ s \in Handlers
    /\ s.active_channel = NoChannel => s = Fresh(s.pty_term)
    /\ s.shell.by \in {NoChannel, s.active_channel}
    /\ s.pty \/ s.shell.ssh_tty => s.pty_term = s.active_channel
    /\ s.password_buf => s.pty /\ s.shell.pending = "password"
    /\ s.shell.by = NoChannel => s.shell.pending = "none"
    /\ s.screen # "none" => s.pty /\ s.active_channel # NoChannel

Parked(s, n) == s.shell.pending = "heredoc" => s.shell.opener \in 1 .. n

(* The types of what is around the handler. *)
AroundTypeOK ==
    /\ awaiting \subseteq Channels /\ opened \in 0 .. MaxChannels
    /\ route \in {"idle", "sftp", "scp", "pipe", "screen", "keys", "eof"}
    /\ redraws \subseteq Channels
    /\ lines \in 0 .. MaxLines /\ logged \subseteq 1 .. lines
    /\ upload \in [Uploads -> {"unused", "in_handle", "stored"}]
    /\ subsystems \in 0 .. MaxSubsystems /\ live \in BOOLEAN

(* The frame in progress is of the active channel and was routed by fields   *)
(* that only its end can change; a channel we closed is not the active one.  *)
RouteInv ==
    /\ route # "idle" => live /\ h.active_channel # NoChannel
    /\ route \in {"pipe", "eof"} => ~h.pty
    /\ route \in {"keys", "screen"} => h.pty
    /\ awaiting \subseteq 1 .. opened /\ h.active_channel <= opened
    /\ h.active_channel \notin awaiting

SessionInv ==
    GoodHandler(h) /\ Parked(h, lines) /\ AroundTypeOK /\ RedrawFollowsScreen /\ RouteInv

USE SessionAssumption

-----------------------------------------------------------------------------
(* The helpers of the handler. *)

(* The shell is built for the active channel and disturbs no other field. *)
LEMMA WithShellKeeps ==
    ASSUME NEW s, GoodHandler(s), s.active_channel # NoChannel
    PROVE  LET t == WithShell(s) IN
           /\ GoodHandler(t) /\ t.shell.by = s.active_channel
           /\ t.active_channel = s.active_channel /\ t.pty = s.pty /\ t.pty_term = s.pty_term
           /\ t.shell_started = s.shell_started /\ t.scp = s.scp /\ t.sftp = s.sftp
           /\ t.handles = s.handles /\ t.password_buf = s.password_buf
           /\ t.line_buf = s.line_buf /\ t.screen = s.screen
           /\ t.shell.pending = s.shell.pending
           /\ s.shell.pending = "heredoc" => t.shell.opener = s.shell.opener
<1> USE DEF GoodHandler, Handlers, Shells, NoChannel, Channels
<1>1. CASE s.shell.by # NoChannel
    BY <1>1 DEF WithShell
<1>2. CASE s.shell.by = NoChannel
  <2> DEFINE n == NewShell(s.active_channel, s.pty, s.pty_term)
             t == [s EXCEPT !.shell = n]
  <2>1. WithShell(s) = t
      BY <1>2 DEF WithShell
  <2>2. /\ n \in Shells /\ n.by = s.active_channel /\ n.ssh_tty = s.pty
        /\ n.pending = "none" /\ n.opener = 0
      BY DEF NewShell
  <2> HIDE DEF n
  <2>3. /\ t \in Handlers /\ t.shell = n
        /\ t.active_channel = s.active_channel /\ t.pty = s.pty /\ t.pty_term = s.pty_term
        /\ t.shell_started = s.shell_started /\ t.scp = s.scp /\ t.sftp = s.sftp
        /\ t.handles = s.handles /\ t.password_buf = s.password_buf
        /\ t.line_buf = s.line_buf /\ t.screen = s.screen
      BY <2>2
  <2> QED
      BY <1>2, <2>1, <2>2, <2>3
<1> QED
    BY <1>1, <1>2

(* A closed handler is a fresh one but for the terminal it remembers. *)
LEMMA ClosedIsFresh ==
    ASSUME NEW s, GoodHandler(s)
    PROVE  LET t == Closed(s) IN
           /\ GoodHandler(t) /\ t = Fresh(s.pty_term)
           /\ t.active_channel = NoChannel /\ t.screen = "none" /\ ~t.pty
           /\ ~t.sftp /\ t.handles = {}
           /\ t.shell.by = NoChannel /\ t.shell.pending = "none" /\ ~t.password_buf
BY DEF Closed, Fresh, NoShell, GoodHandler, Handlers, Shells, NoChannel, Channels

(* What the lines of a client do to the shell keeps the handler good. *)
LEMMA ExecutedKeeps ==
    ASSUME NEW s, GoodHandler(s), s.active_channel # NoChannel, s.shell.by # NoChannel,
           ~s.password_buf, NEW o \in Outcomes, NEW l \in 0 .. MaxLines
    PROVE  LET t == Executed(s, o, l) IN
           /\ GoodHandler(t)
           /\ t.active_channel = s.active_channel /\ t.pty = s.pty /\ t.screen = s.screen
           /\ t.sftp = s.sftp /\ t.handles = s.handles /\ t.shell.by = s.shell.by
           /\ ~t.password_buf
           /\ t.shell.pending = IF o.parks THEN "heredoc"
                                ELSE IF o.asks THEN "password" ELSE s.shell.pending
           /\ t.shell.opener = IF o.parks THEN l ELSE s.shell.opener
BY DEF Executed, Outcomes, GoodHandler, Handlers, Shells, NoChannel, Channels

(* A new handler satisfies it. *)
LEMMA InitInv == SessionInit => SessionInv
BY DEF SessionInit, SessionInv, GoodHandler, Parked, AroundTypeOK, RedrawFollowsScreen,
       RouteInv, Handlers, Shells, NewHandler, Fresh, NoShell, NoChannel, Channels

-----------------------------------------------------------------------------
(* The two shapes of a step: the channel ends, or the handler changes and    *)
(* stays on its channel.                                                     *)

(* From handler s on, the uploads stay where they are, or the drain stores   *)
(* them.                                                                     *)
KeepsUploads(s) ==
    \/ /\ UNCHANGED upload
       /\ h'.sftp = s.sftp /\ h'.handles = s.handles /\ h'.shell.by = s.shell.by
    \/ upload' = Stored(Drained(s)) /\ ~h'.sftp

(* end_channel leaves a fresh handler, whatever it was called on. *)
LEMMA EndKeeps ==
    ASSUME SessionInv, NEW s, GoodHandler(s),
           s.active_channel = h.active_channel, h.active_channel # NoChannel, EndChannel(s),
           opened' = opened, route' = "idle", UNCHANGED <<subsystems, live>>,
           lines' \in 0 .. MaxLines, logged' \subseteq 1 .. lines'
    PROVE  /\ SessionInv' /\ h'.active_channel = NoChannel /\ h'.shell.pending = "none"
           /\ KeepsUploads(s)
<1> USE DEF SessionInv
<1>1. /\ h' = Closed(s) /\ upload' = Stored(Drained(s)) /\ redraws' = {}
      /\ awaiting' = awaiting \cup {h.active_channel}
    BY DEF EndChannel, CloseChannel
<1>2. /\ GoodHandler(h') /\ h'.active_channel = NoChannel /\ h'.screen = "none"
      /\ ~h'.pty /\ h'.shell.pending = "none" /\ ~h'.sftp
    BY <1>1, ClosedIsFresh
<1>3. Parked(h', lines')
    BY <1>2 DEF Parked
<1>4. AroundTypeOK'
    BY <1>1 DEF AroundTypeOK, Stored, Drained, GoodHandler, Handlers, Channels, NoChannel
<1>5. RedrawFollowsScreen'
    BY <1>1, <1>2 DEF RedrawFollowsScreen
<1>6. RouteInv'
  <2>1. h.active_channel \in 1 .. opened /\ opened \in Nat
      BY DEF RouteInv, AroundTypeOK, GoodHandler, Handlers, Channels, NoChannel
  <2>2. awaiting' \subseteq 1 .. opened
      BY <1>1, <2>1 DEF RouteInv
  <2> QED
      BY <1>2, <2>1, <2>2 DEF RouteInv, NoChannel
<1> QED
    BY <1>1, <1>2, <1>3, <1>4, <1>5, <1>6 DEF KeepsUploads

(* A step that stays on its channel, its terminal and its display. *)
LEMMA StayKeeps ==
    ASSUME SessionInv, GoodHandler(h'), Parked(h', lines'),
           h'.active_channel = h.active_channel, h'.pty = h.pty, h'.screen = h.screen,
           UNCHANGED <<awaiting, opened, redraws, live>>,
           route' \in {route, "idle"},
           lines' \in 0 .. MaxLines, logged' \subseteq 1 .. lines',
           upload' \in [Uploads -> {"unused", "in_handle", "stored"}],
           subsystems' \in 0 .. MaxSubsystems
    PROVE  SessionInv'
<1>1. AroundTypeOK'
    BY DEF SessionInv, AroundTypeOK
<1>2. RedrawFollowsScreen'
    BY DEF SessionInv, RedrawFollowsScreen
<1>3. RouteInv'
    BY DEF SessionInv, RouteInv
<1> QED
    BY <1>1, <1>2, <1>3 DEF SessionInv

(* The same shell with the same prompt and the same parked line. *)
SamePrompt(s, t) ==
    /\ t.shell.by = s.shell.by /\ t.shell.pending = s.shell.pending
    /\ t.shell.opener = s.shell.opener

(* The end of a Submit on a terminal: a display, a prompt, or nothing. *)
LEMMA AfterSubmitKeeps ==
    ASSUME SessionInv, route = "keys", NEW s, GoodHandler(s), Parked(s, lines'),
           s.active_channel = h.active_channel, s.pty = h.pty, s.screen = h.screen,
           ~s.password_buf, AfterSubmit(s),
           UNCHANGED <<awaiting, opened, route, upload, subsystems, live>>,
           lines' \in 0 .. MaxLines, logged' \subseteq 1 .. lines'
    PROVE  SessionInv' /\ SamePrompt(s, h') /\ h'.sftp = s.sftp /\ h'.handles = s.handles
<1>0. h.pty /\ live /\ h.active_channel # NoChannel
    BY DEF SessionInv, RouteInv
<1>1. CASE s.shell.screen = "none" /\ s.shell.pending # "password"
  <2>1. h' = s /\ redraws' = redraws
      BY <1>1 DEF AfterSubmit
  <2> QED
      BY <2>1, StayKeeps DEF SessionInv, AroundTypeOK, SamePrompt
<1>2. CASE s.shell.screen = "none" /\ s.shell.pending = "password"
  <2>1. h' = [s EXCEPT !.password_buf = TRUE] /\ redraws' = redraws
      BY <1>2 DEF AfterSubmit
  <2>2. /\ GoodHandler(h') /\ h'.shell = s.shell /\ h'.active_channel = h.active_channel
        /\ h'.sftp = s.sftp /\ h'.handles = s.handles
        /\ h'.pty = h.pty /\ h'.screen = h.screen
      BY <1>0, <1>2, <2>1 DEF GoodHandler, Handlers, Shells
  <2>3. Parked(h', lines')
      BY <2>2 DEF Parked
  <2> QED
      BY <2>1, <2>2, <2>3, StayKeeps DEF SessionInv, AroundTypeOK, SamePrompt
<1>3. CASE s.shell.screen # "none"
  <2> DEFINE kind == s.shell.screen
             t == [s EXCEPT !.shell.screen = "none"]
  <2>0. kind \in {"none", "top", "hold"}
      BY DEF GoodHandler, Handlers, Shells
  <2>1. /\ GoodHandler(t) /\ SamePrompt(s, t) /\ t.active_channel = h.active_channel
        /\ t.sftp = s.sftp /\ t.handles = s.handles /\ t.pty = h.pty /\ ~t.password_buf
      BY <1>0 DEF GoodHandler, Handlers, Shells, SamePrompt
  <2>2. /\ h' = [t EXCEPT !.screen = kind]
        /\ redraws' = IF kind = "top" THEN {t.active_channel} ELSE {}
      BY <1>3 DEF AfterSubmit, HoldScreen
  <2> HIDE DEF kind, t
  <2>3. /\ GoodHandler(h') /\ h'.shell = t.shell /\ h'.active_channel = h.active_channel
        /\ h'.sftp = s.sftp /\ h'.handles = s.handles
        /\ h'.pty = h.pty /\ h'.screen = kind
      BY <1>0, <2>0, <2>1, <2>2 DEF GoodHandler, Handlers
  <2>4. Parked(h', lines') /\ SamePrompt(s, h')
      BY <2>1, <2>3 DEF Parked, SamePrompt
  <2>5. RedrawFollowsScreen'
      BY <2>1, <2>2, <2>3 DEF RedrawFollowsScreen
  <2>6. AroundTypeOK' /\ RouteInv'
      BY <1>0, <2>1, <2>2, <2>3 DEF SessionInv, AroundTypeOK, RouteInv, GoodHandler, Handlers,
                              Channels, NoChannel
  <2> QED
      BY <2>3, <2>4, <2>5, <2>6 DEF SessionInv
<1> QED
    BY <1>1, <1>2, <1>3

(* A line of the client, from a pipe or from the editor: it is logged, or    *)
(* parked with its here-document.                                            *)
LEMMA SubmitKeeps ==
    ASSUME SessionInv, NEW s, GoodHandler(s), live, route # "idle",
           s.active_channel = h.active_channel, s.pty = h.pty, s.screen = h.screen,
           s.shell.by # NoChannel, ~s.password_buf, s.shell.pending # "heredoc",
           NEW onPty \in BOOLEAN, onPty => route = "keys", Submit(s, onPty)
    PROVE  /\ SessionInv' /\ KeepsUploads(s) /\ lines' = lines + 1
           /\ \/ logged' = logged \cup {lines + 1} /\ h'.shell.pending # "heredoc"
              \/ /\ logged' = logged
                 /\ h'.shell.pending = "heredoc" /\ h'.shell.opener = lines + 1
<1>0. /\ h.active_channel # NoChannel /\ lines \in 0 .. MaxLines /\ logged \subseteq 1 .. lines
    BY DEF SessionInv, RouteInv, AroundTypeOK
<1>1. /\ lines < MaxLines /\ lines' = lines + 1
      /\ UNCHANGED <<opened, subsystems, live>>
    BY DEF Submit
<1>2. PICK o \in Outcomes :
        /\ Possible(s, o) /\ Recorded(o, lines + 1)
        /\ IF o.exits THEN EndChannel(Executed(s, o, lines + 1)) /\ route' = "idle"
           ELSE /\ IF onPty THEN AfterSubmit(Executed(s, o, lines + 1))
                   ELSE h' = Executed(s, o, lines + 1) /\ UNCHANGED redraws
                /\ UNCHANGED <<awaiting, upload, route>>
    BY DEF Submit
<1> DEFINE ran == Executed(s, o, lines + 1)
<1>3. /\ GoodHandler(ran) /\ ran.active_channel = h.active_channel /\ ran.pty = h.pty
      /\ ran.screen = h.screen /\ ran.sftp = s.sftp /\ ran.handles = s.handles
      /\ ran.shell.by = s.shell.by /\ ~ran.password_buf
      /\ ran.shell.pending = (IF o.parks THEN "heredoc"
                              ELSE IF o.asks THEN "password" ELSE s.shell.pending)
      /\ ran.shell.opener = IF o.parks THEN lines + 1 ELSE s.shell.opener
    BY <1>0, <1>1, ExecutedKeeps
<1>4. Parked(ran, lines') /\ lines' \in 0 .. MaxLines
    BY <1>0, <1>1, <1>3 DEF Parked
<1>5. o.parks \in BOOLEAN /\ (o.parks => ~o.exits)
    BY DEF Outcomes
<1>6. logged' \subseteq 1 .. lines' /\ logged' = IF o.parks THEN logged ELSE logged \cup {lines + 1}
    BY <1>0, <1>1, <1>2 DEF Recorded
<1> HIDE DEF ran
<1>7. CASE o.exits
  <2>1. EndChannel(ran) /\ route' = "idle"
      BY <1>2, <1>7 DEF ran
  <2>2. SessionInv' /\ h'.shell.pending = "none" /\ KeepsUploads(ran)
      BY <1>0, <1>1, <1>3, <1>4, <1>6, <2>1, EndKeeps
  <2> QED
      BY <1>1, <1>3, <1>5, <1>6, <1>7, <2>2 DEF KeepsUploads, Drained, Stored
<1>8. CASE ~o.exits /\ onPty
  <2>1. AfterSubmit(ran) /\ UNCHANGED <<awaiting, upload, route>> /\ route = "keys"
      BY <1>2, <1>8 DEF ran
  <2>2. SessionInv' /\ SamePrompt(ran, h') /\ h'.sftp = ran.sftp /\ h'.handles = ran.handles
      BY <1>1, <1>3, <1>4, <1>6, <2>1, AfterSubmitKeeps
  <2> QED
      BY <1>1, <1>3, <1>6, <2>1, <2>2 DEF KeepsUploads, SamePrompt
<1>9. CASE ~o.exits /\ ~onPty
  <2>1. h' = ran /\ UNCHANGED <<awaiting, upload, route, redraws>>
      BY <1>2, <1>9 DEF ran
  <2>2. SessionInv'
      BY <1>1, <1>3, <1>4, <1>6, <2>1, StayKeeps DEF SessionInv, AroundTypeOK
  <2> QED
      BY <1>1, <1>3, <1>6, <2>1, <2>2 DEF KeepsUploads
<1> QED
    BY <1>7, <1>8, <1>9

(* A line of a here-document: more of its body, or the delimiter, which logs *)
(* the parked line and runs it; it may park again.                           *)
LEMMA HeredocKeeps ==
    ASSUME SessionInv, NEW s, GoodHandler(s), live, route # "idle",
           s.active_channel = h.active_channel, s.pty = h.pty, s.screen = h.screen,
           s.shell = h.shell, ~s.password_buf,
           NEW onPty \in BOOLEAN, onPty => route = "keys", ResumeHeredoc(s, onPty)
    PROVE  /\ SessionInv' /\ KeepsUploads(s) /\ lines' = lines /\ h.shell.pending = "heredoc"
           /\ \/ logged' = logged /\ SamePrompt(h, h')
              \/ /\ logged' = logged \cup {h.shell.opener}
                 /\ h'.shell.pending = "heredoc" => h'.shell.opener = h.shell.opener
<1>0. /\ h.active_channel # NoChannel /\ lines \in 0 .. MaxLines /\ logged \subseteq 1 .. lines
      /\ s.shell.pending = "heredoc" /\ Parked(s, lines) /\ s.shell.opener \in 1 .. lines
      /\ s.shell.by # NoChannel
      /\ UNCHANGED <<opened, lines, subsystems, live>>
    BY DEF SessionInv, RouteInv, AroundTypeOK, Parked, ResumeHeredoc, GoodHandler
<1>1. CASE /\ IF onPty THEN AfterSubmit(s) ELSE h' = s /\ UNCHANGED redraws
           /\ UNCHANGED <<awaiting, upload, route, logged>>
  <2>1. CASE onPty
      BY <1>0, <1>1, <2>1, AfterSubmitKeeps DEF KeepsUploads, SamePrompt
  <2>2. CASE ~onPty
    <3>1. h' = s /\ UNCHANGED redraws
        BY <1>1, <2>2
    <3>2. SessionInv'
        BY <1>0, <1>1, <3>1, StayKeeps DEF SessionInv, AroundTypeOK
    <3> QED
        BY <1>0, <1>1, <3>1, <3>2 DEF KeepsUploads, SamePrompt
  <2> QED
      BY <2>1, <2>2
<1>2. ASSUME logged' = logged \cup {s.shell.opener}, NEW o \in Outcomes,
             LET ran == Executed([s EXCEPT !.shell.pending = "none"], o, s.shell.opener)
             IN  IF o.exits THEN EndChannel(ran) /\ route' = "idle"
                 ELSE /\ IF onPty THEN AfterSubmit(ran) ELSE h' = ran /\ UNCHANGED redraws
                      /\ UNCHANGED <<awaiting, upload, route>>
      PROVE  /\ SessionInv' /\ KeepsUploads(s)
             /\ logged' = logged \cup {h.shell.opener}
             /\ h'.shell.pending = "heredoc" => h'.shell.opener = h.shell.opener
  <2> DEFINE t == [s EXCEPT !.shell.pending = "none"]
             ran == Executed(t, o, s.shell.opener)
  <2>1. /\ GoodHandler(t) /\ t.active_channel = h.active_channel /\ t.pty = h.pty
        /\ t.screen = h.screen /\ t.sftp = s.sftp /\ t.handles = s.handles
        /\ t.shell.by = s.shell.by /\ ~t.password_buf /\ t.shell.pending = "none"
        /\ t.shell.opener = s.shell.opener /\ s.shell.opener \in 0 .. MaxLines
      BY <1>0 DEF GoodHandler, Handlers, Shells, NoChannel, Channels
  <2> HIDE DEF t
  <2>2. /\ GoodHandler(ran) /\ ran.active_channel = h.active_channel /\ ran.pty = h.pty
        /\ ran.screen = h.screen /\ ran.sftp = s.sftp /\ ran.handles = s.handles
        /\ ran.shell.by = s.shell.by /\ ~ran.password_buf
        /\ ran.shell.opener = h.shell.opener
      BY <1>0, <1>2, <2>1, ExecutedKeeps
  <2>3. Parked(ran, lines') /\ logged' \subseteq 1 .. lines'
      BY <1>0, <1>2, <2>2 DEF Parked
  <2>5. IF o.exits THEN EndChannel(ran) /\ route' = "idle"
        ELSE /\ IF onPty THEN AfterSubmit(ran) ELSE h' = ran /\ UNCHANGED redraws
             /\ UNCHANGED <<awaiting, upload, route>>
      BY <1>2 DEF t
  <2> HIDE DEF ran
  <2>6. CASE o.exits
    <3>1. SessionInv' /\ h'.shell.pending = "none" /\ KeepsUploads(ran)
        BY <1>0, <2>2, <2>3, <2>5, <2>6, EndKeeps
    <3> QED
        BY <1>2, <2>2, <3>1 DEF KeepsUploads, Drained, Stored
  <2>7. CASE ~o.exits /\ onPty
    <3>1. SessionInv' /\ SamePrompt(ran, h') /\ h'.sftp = ran.sftp /\ h'.handles = ran.handles
        BY <1>0, <2>2, <2>3, <2>5, <2>7, AfterSubmitKeeps
    <3> QED
        BY <1>2, <2>2, <2>5, <2>7, <3>1 DEF KeepsUploads, SamePrompt
  <2>8. CASE ~o.exits /\ ~onPty
    <3>1. SessionInv'
        BY <1>0, <2>2, <2>3, <2>5, <2>8, StayKeeps DEF SessionInv, AroundTypeOK
    <3> QED
        BY <1>2, <2>2, <2>5, <2>8, <3>1 DEF KeepsUploads
  <2> QED
      BY <2>6, <2>7, <2>8
<1> QED
    BY <1>0, <1>1, <1>2 DEF ResumeHeredoc

-----------------------------------------------------------------------------
(* What a step that neither runs a line nor ends a channel leaves as it is.  *)
Quiet ==
    /\ UNCHANGED <<upload, lines, logged, subsystems>> /\ h'.sftp = h.sftp /\ h'.handles = h.handles
    /\ h.shell.by # NoChannel => h'.shell.by # NoChannel
    /\ h.shell.pending = "heredoc" <=> h'.shell.pending = "heredoc"
    /\ h.shell.pending = "heredoc" => h'.shell.opener = h.shell.opener

(* The uploads in the handles stay there with their shell, or are stored. *)
UploadsFollow ==
    \/ /\ UNCHANGED upload /\ h'.sftp = h.sftp /\ h'.handles = h.handles
       /\ h.shell.by # NoChannel => h'.shell.by # NoChannel
    \/ \E S \in SUBSET Uploads :
          /\ upload' = Stored(S) /\ ~h'.sftp
          /\ h.sftp /\ h.shell.by # NoChannel => h.handles \subseteq S

(* A step on a handler s that has the uploads of h, and its shell. *)
LEMMA KeptUploadsFollow ==
    ASSUME NEW s, GoodHandler(s), s.sftp = h.sftp, s.handles = h.handles,
           h.shell.by # NoChannel => s.shell.by # NoChannel, KeepsUploads(s)
    PROVE  UploadsFollow
<1>1. CASE upload' = Stored(Drained(s)) /\ ~h'.sftp
  <2>1. /\ Drained(s) \in SUBSET Uploads
        /\ h.sftp /\ h.shell.by # NoChannel => h.handles \subseteq Drained(s)
      BY DEF Drained, GoodHandler, Handlers
  <2> QED
      BY <1>1, <2>1 DEF UploadsFollow
<1> QED
    BY <1>1 DEF KeepsUploads, UploadsFollow

(* Requests on the channel, the frames of `data` and what is typed at a      *)
(* prompt or a display.                                                      *)
LEMMA QuietStep ==
    ASSUME SessionInv,
           \/ PtyRequest \/ WindowChange \/ ShellRequest \/ FrameBegins \/ FrameEnds
           \/ PipeBytes \/ PipePassword \/ ScreenQuits \/ PasswordEnter \/ PasswordCtrlC
           \/ ScpBytes \/ EofPipeBegins
    PROVE  SessionInv' /\ Quiet
<1> USE DEF SessionInv
<1>0. /\ GoodHandler(h) /\ Parked(h, lines) /\ AroundTypeOK
      /\ lines \in 0 .. MaxLines /\ logged \subseteq 1 .. lines /\ opened \in 0 .. MaxChannels
      /\ upload \in [Uploads -> {"unused", "in_handle", "stored"}]
      /\ subsystems \in 0 .. MaxSubsystems
    BY DEF AroundTypeOK
<1> DEFINE Same == /\ UNCHANGED <<awaiting, opened, redraws, live>>
                   /\ h'.active_channel = h.active_channel /\ h'.pty = h.pty
                   /\ h'.screen = h.screen
<1>1. CASE PtyRequest
  <2>1. /\ GoodHandler(h') /\ h'.shell = h.shell /\ h'.active_channel = h.active_channel
        /\ h'.pty /\ h'.screen = h.screen /\ route = "idle" /\ Quiet
      BY <1>0, <1>1 DEF PtyRequest, OnChannel, Quiet, GoodHandler, Handlers, Shells
  <2> QED
      BY <1>0, <1>1, <2>1 DEF PtyRequest, Parked, AroundTypeOK, RouteInv, RedrawFollowsScreen
<1>2. CASE WindowChange
  <2>1. /\ GoodHandler(h') /\ h'.shell.pending = h.shell.pending
        /\ h'.shell.opener = h.shell.opener /\ Same /\ Quiet
      BY <1>0, <1>2 DEF WindowChange, OnChannel, Quiet, GoodHandler, Handlers, Shells, NoChannel
  <2> QED
      BY <1>0, <1>2, <2>1, StayKeeps DEF WindowChange, Parked
<1>3. CASE ShellRequest
  <2> DEFINE w == WithShell(h)
  <2>1. h.active_channel # NoChannel
      BY <1>3 DEF ShellRequest, OnChannel
  <2>2. /\ GoodHandler(w) /\ w.active_channel = h.active_channel /\ w.pty = h.pty
        /\ w.screen = h.screen /\ Parked(w, lines)
        /\ w.sftp = h.sftp /\ w.handles = h.handles /\ w.shell.by = h.active_channel
        /\ w.shell.pending = h.shell.pending
        /\ h.shell.pending = "heredoc" => w.shell.opener = h.shell.opener
      BY <1>0, <2>1, WithShellKeeps DEF Parked
  <2>3. /\ h' = [w EXCEPT !.shell_started = TRUE, !.shell.interactive = h.pty]
        /\ UNCHANGED <<awaiting, opened, route, redraws, lines, logged, upload, subsystems, live>>
      BY <1>3 DEF ShellRequest
  <2> HIDE DEF w
  <2>4. /\ h' \in Handlers /\ h'.active_channel = w.active_channel /\ h'.pty = w.pty
        /\ h'.pty_term = w.pty_term /\ h'.screen = w.screen
        /\ h'.password_buf = w.password_buf /\ h'.sftp = w.sftp /\ h'.handles = w.handles
        /\ h'.shell.by = w.shell.by /\ h'.shell.ssh_tty = w.shell.ssh_tty
        /\ h'.shell.pending = w.shell.pending /\ h'.shell.opener = w.shell.opener
      BY <1>0, <2>2, <2>3 DEF GoodHandler, Handlers, Shells
  <2>5. GoodHandler(h') /\ Parked(h', lines')
      BY <2>1, <2>2, <2>3, <2>4 DEF GoodHandler, Parked
  <2>6. Quiet
      BY <2>1, <2>2, <2>3, <2>4 DEF Quiet
  <2> QED
      BY <1>0, <2>2, <2>3, <2>4, <2>5, <2>6, StayKeeps
<1>4. CASE FrameBegins
  <2> DEFINE s == IF h.sftp THEN WithShell(h) ELSE h
  <2>1. /\ h' = s /\ h.active_channel # NoChannel /\ live
        /\ route' = IF s.sftp THEN "sftp" ELSE IF s.scp # "none" THEN "scp"
                    ELSE IF ~s.pty THEN "pipe"
                    ELSE IF s.screen # "none" THEN "screen" ELSE "keys"
        /\ UNCHANGED <<awaiting, opened, redraws, lines, logged, upload, subsystems, live>>
      BY <1>4 DEF FrameBegins, OnChannel
  <2>2. /\ GoodHandler(s) /\ s.active_channel = h.active_channel /\ s.pty = h.pty
        /\ s.screen = h.screen /\ Parked(s, lines)
        /\ s.sftp = h.sftp /\ s.handles = h.handles
        /\ h.shell.by # NoChannel => s.shell.by # NoChannel
        /\ s.shell.pending = h.shell.pending
        /\ h.shell.pending = "heredoc" => s.shell.opener = h.shell.opener
      BY <1>0, <2>1, WithShellKeeps DEF Parked
  <2> HIDE DEF s
  <2>3. AroundTypeOK' /\ RouteInv' /\ RedrawFollowsScreen'
      BY <1>0, <2>1, <2>2 DEF AroundTypeOK, RouteInv, RedrawFollowsScreen
  <2>4. Quiet
      BY <2>1, <2>2 DEF Quiet
  <2> QED
      BY <2>1, <2>2, <2>3, <2>4
<1>5. CASE FrameEnds
    BY <1>0, <1>5, StayKeeps DEF FrameEnds, Parked, Quiet
<1>6. CASE PipeBytes
  <2>1. /\ GoodHandler(h') /\ h'.shell = h.shell /\ Same /\ Quiet
      BY <1>0, <1>6 DEF PipeBytes, Quiet, RouteInv, GoodHandler, Handlers
  <2> QED
      BY <1>0, <1>6, <2>1, StayKeeps DEF PipeBytes, Parked
<1>7. CASE PipePassword
  <2>1. PICK again \in {"none", "password"} :
             h' = [h EXCEPT !.line_buf = FALSE, !.shell.pending = again]
      BY <1>7 DEF PipePassword
  <2>2. /\ ~h.pty /\ h.active_channel # NoChannel /\ h.shell.pending = "password"
      BY <1>7 DEF PipePassword, AtPipeLine, RouteInv
  <2>3. /\ GoodHandler(h') /\ h'.shell.pending = again /\ Same /\ Quiet
      BY <1>0, <1>7, <2>1, <2>2 DEF PipePassword, Quiet, GoodHandler, Handlers, Shells
  <2> QED
      BY <1>0, <1>7, <2>3, StayKeeps DEF PipePassword, Parked
<1>8. CASE ScreenQuits
  <2> DEFINE w == WithShell(h)
  <2>0. h.active_channel # NoChannel
      BY <1>8 DEF ScreenQuits, RouteInv
  <2>1. /\ live /\ route = "screen" /\ h.active_channel # NoChannel /\ h.pty
        /\ redraws' = {} /\ route' = "keys"
        /\ UNCHANGED <<awaiting, opened, lines, logged, upload, subsystems, live>>
      BY <1>8 DEF ScreenQuits, RouteInv
  <2>2. /\ GoodHandler(w) /\ w.active_channel = h.active_channel /\ w.pty = h.pty
        /\ Parked(w, lines)
        /\ w.sftp = h.sftp /\ w.handles = h.handles /\ w.shell.by = h.active_channel
        /\ w.shell.pending = h.shell.pending
        /\ h.shell.pending = "heredoc" => w.shell.opener = h.shell.opener
      BY <1>0, <2>0, WithShellKeeps DEF Parked
  <2>3. h' = [w EXCEPT !.screen = "none"]
      BY <1>8 DEF ScreenQuits
  <2> HIDE DEF w
  <2>4. /\ GoodHandler(h') /\ h'.shell = w.shell /\ h'.active_channel = h.active_channel
        /\ h'.pty = h.pty /\ h'.screen = "none" /\ h'.sftp = w.sftp /\ h'.handles = w.handles
      BY <2>1, <2>2, <2>3 DEF GoodHandler, Handlers
  <2>5. Parked(h', lines') /\ RedrawFollowsScreen'
      BY <2>1, <2>2, <2>4 DEF Parked, RedrawFollowsScreen
  <2>6. AroundTypeOK' /\ RouteInv'
      BY <1>0, <2>1, <2>4 DEF AroundTypeOK, RouteInv
  <2>7. Quiet
      BY <2>0, <2>1, <2>2, <2>4 DEF Quiet
  <2> QED
      BY <2>4, <2>5, <2>6, <2>7
<1>9. CASE PasswordEnter
  <2>1. PICK again \in {"none", "password"} :
             h' = [h EXCEPT !.shell.pending = again, !.password_buf = (again = "password")]
      BY <1>9 DEF PasswordEnter
  <2>2. h.pty /\ h.password_buf /\ h.active_channel # NoChannel
      BY <1>9 DEF PasswordEnter, RouteInv
  <2>3. /\ GoodHandler(h') /\ h'.shell.pending = again /\ Same /\ Quiet
      BY <1>0, <1>9, <2>1, <2>2 DEF PasswordEnter, Quiet, GoodHandler, Handlers, Shells
  <2> QED
      BY <1>0, <1>9, <2>3, StayKeeps DEF PasswordEnter, Parked
<1>10. CASE PasswordCtrlC
  <2>1. h.pty /\ h.active_channel # NoChannel
      BY <1>10 DEF PasswordCtrlC, RouteInv
  <2>2. /\ GoodHandler(h') /\ h'.shell.pending = "none" /\ Same /\ Quiet
      BY <1>0, <1>10, <2>1 DEF PasswordCtrlC, Quiet, GoodHandler, Handlers, Shells
  <2> QED
      BY <1>0, <1>10, <2>2, StayKeeps DEF PasswordCtrlC, Parked
<1>11. CASE ScpBytes
  <2>1. /\ live /\ route = "scp" /\ h.active_channel # NoChannel
        /\ UNCHANGED <<awaiting, opened, route, redraws, lines, logged, upload, subsystems, live>>
      BY <1>11 DEF ScpBytes, RouteInv
  <2>2. CASE h' = [h EXCEPT !.scp = "file"]
    <3>1. GoodHandler(h') /\ h'.shell = h.shell /\ Same /\ Quiet
        BY <1>0, <2>1, <2>2 DEF Quiet, GoodHandler, Handlers
    <3> QED
        BY <1>0, <2>1, <3>1, StayKeeps DEF Parked
  <2>3. CASE h' = [WithShell(h) EXCEPT !.scp = "idle"]
    <3> DEFINE w == WithShell(h)
    <3>1. /\ GoodHandler(w) /\ w.active_channel = h.active_channel /\ w.pty = h.pty
          /\ w.screen = h.screen /\ Parked(w, lines)
          /\ w.sftp = h.sftp /\ w.handles = h.handles /\ w.shell.by = h.active_channel
          /\ w.shell.pending = h.shell.pending
          /\ h.shell.pending = "heredoc" => w.shell.opener = h.shell.opener
        BY <1>0, <2>1, WithShellKeeps DEF Parked
    <3>2. h' = [w EXCEPT !.scp = "idle"]
        BY <2>3
    <3> HIDE DEF w
    <3>3. GoodHandler(h') /\ h'.shell = w.shell /\ Same /\ Quiet
        BY <2>1, <3>1, <3>2 DEF Quiet, GoodHandler, Handlers
    <3> QED
        BY <1>0, <2>1, <3>1, <3>3, StayKeeps DEF Parked
  <2> QED
      BY <1>11, <2>2, <2>3 DEF ScpBytes
<1>12. CASE EofPipeBegins
    BY <1>0, <1>12 DEF Quiet, EofPipeBegins, EofShell, OnChannel, Parked, AroundTypeOK, RouteInv,
                       RedrawFollowsScreen
<1> QED
    BY <1>1, <1>2, <1>3, <1>4, <1>5, <1>6, <1>7, <1>8, <1>9, <1>10, <1>11, <1>12

(* The steps that end the channel themselves. *)
LEMMA EndStep ==
    ASSUME SessionInv,
           ExecCommand \/ EditorCtrlD \/ EofTransfer \/ EofPipeEnds \/ EofTerminal
    PROVE  /\ SessionInv' /\ h'.active_channel = NoChannel /\ h'.shell.pending = "none"
           /\ UploadsFollow /\ UNCHANGED subsystems
<1> USE DEF SessionInv
<1>0. /\ GoodHandler(h) /\ Parked(h, lines) /\ AroundTypeOK
      /\ lines \in 0 .. MaxLines /\ logged \subseteq 1 .. lines /\ opened \in 0 .. MaxChannels
      /\ upload \in [Uploads -> {"unused", "in_handle", "stored"}]
      /\ subsystems \in 0 .. MaxSubsystems
    BY DEF AroundTypeOK
<1>1. CASE ExecCommand
  <2> DEFINE w == WithShell(h)
             s == [w EXCEPT !.shell.interactive = FALSE, !.shell.pending = "none"]
  <2>1. /\ EndChannel(s) /\ h.active_channel # NoChannel /\ route = "idle"
        /\ lines < MaxLines /\ lines' = lines + 1
        /\ UNCHANGED <<opened, route, subsystems, live>>
      BY <1>1 DEF ExecCommand, OnChannel
  <2>2. /\ GoodHandler(w) /\ w.active_channel = h.active_channel
        /\ w.password_buf = h.password_buf /\ w.shell.by = h.active_channel
        /\ w.sftp = h.sftp /\ w.handles = h.handles
      BY <1>0, <2>1, WithShellKeeps
  <2> HIDE DEF w
  <2>3. Closed(s) = Closed(w) /\ s.active_channel = w.active_channel
        /\ Drained(s) = Drained(w)
      BY <2>2 DEF Closed, Drained, GoodHandler, Handlers, Shells
  <2>4. EndChannel(w)
      BY <2>1, <2>3 DEF EndChannel, CloseChannel
  <2>5. logged' \subseteq 1 .. lines' /\ lines' \in 0 .. MaxLines
      BY <1>0, <1>1, <2>1 DEF ExecCommand, Parked
  <2> QED
      BY <2>1, <2>2, <2>4, <2>5, EndKeeps, KeptUploadsFollow
<1>2. CASE EditorCtrlD
  <2>1. /\ EndChannel(WithShell(h)) /\ h.active_channel # NoChannel
        /\ UNCHANGED <<opened, lines, logged, subsystems, live>> /\ route' = "idle"
      BY <1>2 DEF EditorCtrlD, RouteInv
  <2> QED
      BY <1>0, <2>1, WithShellKeeps, EndKeeps, KeptUploadsFollow
<1>3. CASE EofTransfer
  <2>1. /\ h.active_channel # NoChannel /\ route = "idle"
        /\ EndChannel(IF h.scp # "none" THEN [h EXCEPT !.scp = "none"] ELSE WithShell(h))
        /\ UNCHANGED <<opened, route, lines, logged, subsystems, live>>
      BY <1>3 DEF EofTransfer, OnChannel
  <2>2. CASE h.scp # "none"
    <3>1. LET s == [h EXCEPT !.scp = "none"]
          IN  /\ GoodHandler(s) /\ s.active_channel = h.active_channel /\ s.sftp = h.sftp
              /\ s.handles = h.handles /\ s.shell = h.shell
        BY <1>0, <2>1 DEF GoodHandler, Handlers
    <3> QED
        BY <1>0, <2>1, <2>2, <3>1, EndKeeps, KeptUploadsFollow
  <2>3. CASE h.scp = "none"
      BY <1>0, <2>1, <2>3, WithShellKeeps, EndKeeps, KeptUploadsFollow
  <2> QED
      BY <2>2, <2>3
<1>4. CASE EofPipeEnds
  <2>1. /\ EndChannel(h) /\ h.active_channel # NoChannel /\ logged' \subseteq 1 .. lines'
        /\ UNCHANGED <<opened, lines, subsystems, live>> /\ route' = "idle"
      BY <1>0, <1>4 DEF EofPipeEnds, RouteInv, Parked
  <2> QED
      BY <1>0, <2>1, EndKeeps, KeptUploadsFollow
<1>5. CASE EofTerminal
  <2>1. /\ EndChannel(h) /\ h.active_channel # NoChannel
        /\ UNCHANGED <<opened, lines, logged, subsystems, live>> /\ route' = "idle"
      BY <1>5 DEF EofTerminal, EofShell, OnChannel
  <2> QED
      BY <1>0, <2>1, EndKeeps, KeptUploadsFollow
<1> QED
    BY <1>1, <1>2, <1>3, <1>4, <1>5

(* A command line, from a pipe or from the editor. *)
LEMMA LineStep ==
    ASSUME SessionInv, PipeLine \/ EditorLine
    PROVE  /\ SessionInv' /\ UploadsFollow /\ UNCHANGED subsystems
           /\ lines' = lines + 1 /\ h.shell.pending # "heredoc"
           /\ \/ logged' = logged \cup {lines + 1} /\ h'.shell.pending # "heredoc"
              \/ /\ logged' = logged
                 /\ h'.shell.pending = "heredoc" /\ h'.shell.opener = lines + 1
<1> USE DEF SessionInv
<1>0. /\ GoodHandler(h) /\ Parked(h, lines) /\ AroundTypeOK
      /\ lines \in 0 .. MaxLines /\ logged \subseteq 1 .. lines /\ opened \in 0 .. MaxChannels
      /\ upload \in [Uploads -> {"unused", "in_handle", "stored"}]
      /\ subsystems \in 0 .. MaxSubsystems
    BY DEF AroundTypeOK
<1>1. CASE PipeLine
  <2> DEFINE w == WithShell(h)
             s == [w EXCEPT !.line_buf = FALSE]
  <2>1. /\ live /\ route \in {"pipe", "eof"} /\ h.shell.pending = "none" /\ Submit(s, FALSE)
        /\ h.active_channel # NoChannel /\ ~h.pty /\ ~h.password_buf
      BY <1>0, <1>1 DEF PipeLine, AtPipeLine, RouteInv, GoodHandler
  <2>2. /\ GoodHandler(w) /\ w.active_channel = h.active_channel /\ w.pty = h.pty
        /\ w.screen = h.screen /\ w.password_buf = h.password_buf
        /\ w.shell.by = h.active_channel /\ w.shell.pending = "none"
        /\ w.sftp = h.sftp /\ w.handles = h.handles
      BY <1>0, <2>1, WithShellKeeps
  <2> HIDE DEF w
  <2>3. /\ GoodHandler(s) /\ s.active_channel = h.active_channel /\ s.pty = h.pty
        /\ s.screen = h.screen /\ s.shell = w.shell /\ ~s.password_buf
        /\ s.sftp = h.sftp /\ s.handles = h.handles
      BY <2>1, <2>2 DEF GoodHandler, Handlers
  <2>4. UNCHANGED subsystems
      BY <2>1 DEF Submit
  <2> QED
      BY <2>1, <2>2, <2>3, <2>4, SubmitKeeps, KeptUploadsFollow
<1>2. CASE EditorLine
  <2>1. /\ live /\ route = "keys" /\ ~h.password_buf /\ h.shell.pending # "heredoc"
        /\ h.active_channel # NoChannel /\ Submit(WithShell(h), TRUE)
      BY <1>2 DEF EditorLine, RouteInv
  <2>2. UNCHANGED subsystems
      BY <2>1 DEF Submit
  <2> QED
      BY <1>0, <2>1, <2>2, WithShellKeeps, SubmitKeeps, KeptUploadsFollow
<1> QED
    BY <1>1, <1>2

(* A line of a here-document. *)
LEMMA HeredocStep ==
    ASSUME SessionInv, PipeHeredocLine \/ EditorHeredocLine
    PROVE  /\ SessionInv' /\ UploadsFollow /\ UNCHANGED subsystems
           /\ lines' = lines /\ h.shell.pending = "heredoc"
           /\ \/ logged' = logged /\ SamePrompt(h, h')
              \/ /\ logged' = logged \cup {h.shell.opener}
                 /\ h'.shell.pending = "heredoc" => h'.shell.opener = h.shell.opener
<1> USE DEF SessionInv
<1>0. /\ GoodHandler(h) /\ Parked(h, lines) /\ AroundTypeOK
      /\ lines \in 0 .. MaxLines /\ logged \subseteq 1 .. lines /\ opened \in 0 .. MaxChannels
      /\ upload \in [Uploads -> {"unused", "in_handle", "stored"}]
      /\ subsystems \in 0 .. MaxSubsystems
    BY DEF AroundTypeOK
<1>1. CASE PipeHeredocLine
  <2> DEFINE s == [h EXCEPT !.line_buf = FALSE]
  <2>1. /\ live /\ route \in {"pipe", "eof"} /\ ResumeHeredoc(s, FALSE)
        /\ h.active_channel # NoChannel /\ ~h.pty /\ ~h.password_buf
      BY <1>0, <1>1 DEF PipeHeredocLine, AtPipeLine, RouteInv, GoodHandler
  <2>2. /\ GoodHandler(s) /\ s.active_channel = h.active_channel /\ s.pty = h.pty
        /\ s.screen = h.screen /\ s.shell = h.shell /\ ~s.password_buf
        /\ s.sftp = h.sftp /\ s.handles = h.handles
      BY <1>0, <2>1 DEF GoodHandler, Handlers
  <2> QED
      BY <2>1, <2>2, HeredocKeeps, KeptUploadsFollow DEF ResumeHeredoc
<1>2. CASE EditorHeredocLine
  <2>1. live /\ route = "keys" /\ ~h.password_buf /\ ResumeHeredoc(h, TRUE)
      BY <1>2 DEF EditorHeredocLine
  <2> QED
      BY <1>0, <2>1, HeredocKeeps, KeptUploadsFollow DEF ResumeHeredoc
<1> QED
    BY <1>1, <1>2

(* Every step keeps the invariant. *)
LEMMA SessionInvStep ==
    ASSUME SessionInv, [SessionNext]_vars
    PROVE  SessionInv'
<1> USE DEF SessionInv
<1>0. /\ GoodHandler(h) /\ Parked(h, lines) /\ AroundTypeOK
      /\ lines \in 0 .. MaxLines /\ logged \subseteq 1 .. lines /\ opened \in 0 .. MaxChannels
      /\ upload \in [Uploads -> {"unused", "in_handle", "stored"}]
      /\ subsystems \in 0 .. MaxSubsystems
    BY DEF AroundTypeOK
<1> DEFINE Same == /\ UNCHANGED <<awaiting, opened, redraws, live>>
                   /\ h'.active_channel = h.active_channel /\ h'.pty = h.pty
                   /\ h'.screen = h.screen
<1>1. CASE ChannelOpen
  <2>1. CASE h.active_channel # NoChannel
    <3>1. h' = h /\ opened' = opened + 1 /\ opened < MaxChannels
          /\ UNCHANGED <<awaiting, route, redraws, lines, logged, upload, subsystems, live>>
        BY <1>1, <2>1 DEF ChannelOpen
    <3>2. AroundTypeOK' /\ RouteInv'
        BY <1>0, <3>1 DEF AroundTypeOK, RouteInv, GoodHandler, Handlers, Channels, NoChannel
    <3> QED
        BY <1>0, <3>1, <3>2 DEF RedrawFollowsScreen
  <2>2. CASE h.active_channel = NoChannel
    <3>1. h' = [h EXCEPT !.active_channel = opened + 1] /\ opened' = opened + 1
          /\ opened < MaxChannels /\ route = "idle"
          /\ UNCHANGED <<awaiting, route, redraws, lines, logged, upload, subsystems, live>>
        BY <1>1, <2>2 DEF ChannelOpen
    <3>2. /\ ~h.pty /\ h.shell.by = NoChannel /\ ~h.shell.ssh_tty /\ ~h.password_buf
          /\ h.screen = "none" /\ h.shell.pending = "none"
        BY <1>0, <2>2 DEF GoodHandler, Fresh, NoShell, NoChannel
    <3>3. /\ h' \in Handlers /\ h'.active_channel = opened + 1 /\ h'.shell = h.shell
          /\ h'.pty = h.pty /\ h'.password_buf = h.password_buf /\ h'.screen = h.screen
        BY <1>0, <3>1 DEF GoodHandler, Handlers, Channels
    <3>4. GoodHandler(h') /\ Parked(h', lines')
        BY <1>0, <3>2, <3>3 DEF GoodHandler, Parked, NoChannel
    <3>5. AroundTypeOK' /\ RouteInv' /\ RedrawFollowsScreen'
        BY <1>0, <3>1, <3>2, <3>3 DEF AroundTypeOK, RouteInv, RedrawFollowsScreen
    <3> QED
        BY <3>4, <3>5
  <2> QED
      BY <2>1, <2>2
<1>2. CASE SubsystemRequest
  <2>1. /\ GoodHandler(h') /\ h'.shell = h.shell /\ Same
      BY <1>0, <1>2 DEF SubsystemRequest, OnChannel, GoodHandler, Handlers
  <2> QED
      BY <1>0, <1>2, <2>1, StayKeeps DEF SubsystemRequest, Parked
<1>3. CASE ExecScpSink
  <2>1. /\ GoodHandler(h') /\ h'.shell = h.shell /\ Same
      BY <1>0, <1>3 DEF ExecScpSink, OnChannel, GoodHandler, Handlers
  <2>2. Parked(h', lines') /\ lines' \in 0 .. MaxLines /\ logged' \subseteq 1 .. lines'
      BY <1>0, <1>3, <2>1 DEF ExecScpSink, Parked
  <2> QED
      BY <1>0, <1>3, <2>1, <2>2, StayKeeps DEF ExecScpSink
<1>4. ASSUME NEW u \in Uploads, SftpWrite(u) \/ SftpClose(u) PROVE SessionInv'
  <2>1. /\ GoodHandler(h') /\ h'.shell = h.shell /\ Same
        /\ upload' \in [Uploads -> {"unused", "in_handle", "stored"}]
        /\ UNCHANGED <<route, lines, logged, subsystems>>
      BY <1>0, <1>4 DEF SftpWrite, SftpClose, RouteInv, GoodHandler, Handlers
  <2> QED
      BY <1>0, <2>1, StayKeeps DEF Parked
<1>5. ASSUME NEW c \in Channels, ChannelClose(c) PROVE SessionInv'
  <2>1. CASE h.active_channel = c
    <3>1. /\ h' = Closed(h) /\ upload' = Stored(Drained(h)) /\ redraws' = {}
          /\ awaiting' \subseteq awaiting /\ route = "idle"
          /\ UNCHANGED <<opened, route, lines, logged, subsystems, live>>
        BY <1>5, <2>1 DEF ChannelClose, CloseChannel
    <3>2. /\ GoodHandler(h') /\ h'.active_channel = NoChannel /\ h'.screen = "none"
          /\ h'.shell.pending = "none"
        BY <1>0, <3>1, ClosedIsFresh
    <3>3. AroundTypeOK'
        BY <1>0, <3>1 DEF AroundTypeOK, Stored, Drained, GoodHandler, Handlers
    <3>4. RouteInv' /\ RedrawFollowsScreen' /\ Parked(h', lines')
        BY <1>0, <3>1, <3>2 DEF RouteInv, RedrawFollowsScreen, Parked, AroundTypeOK, NoChannel,
                                Channels
    <3> QED
        BY <3>2, <3>3, <3>4
  <2>2. CASE h.active_channel # c
    <3>1. /\ h' = h /\ UNCHANGED <<upload, redraws, opened, route, lines, logged, subsystems, live>>
          /\ awaiting' \subseteq awaiting
        BY <1>5, <2>2 DEF ChannelClose, CloseChannel
    <3> QED
        BY <1>0, <3>1 DEF AroundTypeOK, RouteInv, RedrawFollowsScreen
  <2> QED
      BY <2>1, <2>2
<1>6. CASE HandlerDrop
  <2>1. /\ h' = Fresh(NoChannel) /\ upload' = Stored(Drained(h)) /\ redraws' = {}
        /\ awaiting' = {} /\ live' = FALSE /\ route' = "idle"
        /\ UNCHANGED <<opened, lines, logged, subsystems>>
      BY <1>6 DEF HandlerDrop, NewHandler
  <2>2. /\ GoodHandler(h') /\ h'.active_channel = NoChannel /\ h'.screen = "none"
        /\ h'.shell.pending = "none"
      BY <2>1 DEF GoodHandler, Handlers, Shells, Fresh, NoShell, NoChannel, Channels
  <2>3. AroundTypeOK'
      BY <1>0, <2>1 DEF AroundTypeOK, Stored, Drained, GoodHandler, Handlers
  <2>4. RouteInv' /\ RedrawFollowsScreen' /\ Parked(h', lines')
      BY <1>0, <2>1, <2>2 DEF RouteInv, RedrawFollowsScreen, Parked, NoChannel
  <2> QED
      BY <2>2, <2>3, <2>4
<1>7. CASE Dropped \/ UNCHANGED vars
    BY <1>7 DEF Dropped, vars, AroundTypeOK, RouteInv, RedrawFollowsScreen
<1> QED
    BY QuietStep, EndStep, LineStep, HeredocStep, <1>1, <1>2, <1>3, <1>4, <1>5, <1>6, <1>7
    DEF SessionNext

-----------------------------------------------------------------------------
(* Whatever ends a channel, the next one starts from nothing; the shell in   *)
(* use was built for the active channel.                                     *)
THEOREM ChannelsStayIsolated == SessionSpec => []ChannelsAreIsolated
<1>1. SessionInit => SessionInv
    BY InitInv
<1>2. SessionInv /\ [SessionNext]_vars => SessionInv'
    BY SessionInvStep
<1>3. SessionInv => ChannelsAreIsolated
    BY DEF SessionInv, GoodHandler, ChannelsAreIsolated
<1> QED
    BY <1>1, <1>2, <1>3, PTL DEF SessionSpec

(* The redraw task belongs to the display, the display to a terminal and the *)
(* hidden input to the prompt, for any number of channels and lines and      *)
(* whether or not a shell was requested; the fields keep their type.         *)
THEOREM TerminalAlwaysFollowsState == SessionSpec => []TerminalFollowsState
<1>1. SessionInit => SessionInv
    BY InitInv
<1>2. SessionInv /\ [SessionNext]_vars => SessionInv'
    BY SessionInvStep
<1>3. SessionInv => TerminalFollowsState
  <2> SUFFICES ASSUME SessionInv PROVE TerminalFollowsState
      OBVIOUS
  <2>1. SessionTypeOK
      BY DEF SessionInv, GoodHandler, AroundTypeOK, SessionTypeOK
  <2>2. RedrawFollowsScreen /\ OnlyTerminalsAreHeld /\ HiddenInputIsAnAnswer
      BY DEF SessionInv, GoodHandler, OnlyTerminalsAreHeld, HiddenInputIsAnAnswer
  <2> QED
      BY <2>1, <2>2 DEF TerminalFollowsState
<1> QED
    BY <1>1, <1>2, <1>3, PTL DEF SessionSpec

-----------------------------------------------------------------------------
(* The late answers to our closes. *)

(* end_channel only adds to the closes that await an answer. *)
LEMMA EndAwaits ==
    ASSUME NEW s, EndChannel(s) PROVE awaiting \subseteq awaiting'
BY DEF EndChannel

(* So does a line, which ends the channel or leaves the closes alone. *)
LEMMA LinesAwait ==
    ASSUME NEW s, NEW onPty, Submit(s, onPty) \/ ResumeHeredoc(s, onPty)
    PROVE  awaiting \subseteq awaiting'
BY EndAwaits, Zenon DEF Submit, ResumeHeredoc

(* A close is struck from the list only by the answer to it, which finds     *)
(* another channel active, or none: nothing else changes.                    *)
LEMMA LateCloseStep ==
    ASSUME SessionInv, [SessionNext]_vars, live', ~(awaiting \subseteq awaiting')
    PROVE  UNCHANGED <<h, upload, redraws>>
<1>1. ASSUME NEW c \in Channels, ChannelClose(c) PROVE UNCHANGED <<h, upload, redraws>>
  <2>1. c \in awaiting
      BY <1>1 DEF ChannelClose
  <2>2. h.active_channel # c
      BY <2>1 DEF SessionInv, RouteInv
  <2> QED
      BY <1>1, <2>2 DEF ChannelClose, CloseChannel
<1>2. CASE \/ ChannelOpen \/ PtyRequest \/ WindowChange \/ ShellRequest \/ SubsystemRequest
           \/ ExecScpSink \/ FrameBegins \/ FrameEnds \/ PipeBytes \/ PipePassword
           \/ ScreenQuits \/ PasswordEnter \/ PasswordCtrlC \/ ScpBytes \/ EofPipeBegins
           \/ UNCHANGED vars \/ Dropped
  <2>1. awaiting' = awaiting
      BY <1>2, Zenon
         DEF ChannelOpen, PtyRequest, WindowChange, ShellRequest, SubsystemRequest, ExecScpSink,
             FrameBegins, FrameEnds, PipeBytes, PipePassword, ScreenQuits, PasswordEnter,
             PasswordCtrlC, ScpBytes, EofPipeBegins, Dropped, vars
  <2> QED
      BY <2>1
<1>3. CASE ExecCommand \/ EditorCtrlD \/ EofTransfer \/ EofPipeEnds \/ EofTerminal
    BY <1>3, EndAwaits, Zenon DEF ExecCommand, EditorCtrlD, EofTransfer, EofPipeEnds, EofTerminal
<1>4. CASE PipeLine \/ PipeHeredocLine \/ EditorLine \/ EditorHeredocLine
    BY <1>4, LinesAwait, Zenon DEF PipeLine, PipeHeredocLine, EditorLine, EditorHeredocLine
<1>5. ASSUME NEW u \in Uploads, SftpWrite(u) \/ SftpClose(u) PROVE FALSE
    BY <1>5, Zenon DEF SftpWrite, SftpClose
<1>6. CASE HandlerDrop
    BY <1>6 DEF HandlerDrop
<1> QED
    BY <1>1, <1>2, <1>3, <1>4, <1>5, <1>6 DEF SessionNext

(* The client's late answer to a close of ours never disturbs the channel    *)
(* that is active by then.                                                   *)
THEOREM LateClosesAreHarmless == SessionSpec => LateCloseIsHarmless
<1>1. SessionInit => SessionInv
    BY InitInv
<1>2. SessionInv /\ [SessionNext]_vars => SessionInv'
    BY SessionInvStep
<1>3. SessionInv /\ [SessionNext]_vars =>
        [live' /\ ~(awaiting \subseteq awaiting') => UNCHANGED <<h, upload, redraws>>]_vars
    BY LateCloseStep
<1> QED
    BY <1>1, <1>2, <1>3, PTL DEF SessionSpec, LateCloseIsHarmless

-----------------------------------------------------------------------------
(* What becomes of the command lines. *)

(* A step of OnlyEndsLoseCommands. *)
CommandsKept ==
    Unrecorded' # Unrecorded =>
        /\ h.shell.pending = "heredoc"
        /\ Unrecorded' = Unrecorded \cup {h.shell.opener}
        /\ h'.active_channel = NoChannel

(* The lines that wait, logged or not, are the same. *)
LEMMA SameUnrecorded ==
    ASSUME UNCHANGED <<lines, logged>>,
           h.shell.pending = "heredoc" <=> h'.shell.pending = "heredoc",
           h.shell.pending = "heredoc" => h'.shell.opener = h.shell.opener
    PROVE  Unrecorded' = Unrecorded
BY DEF Unrecorded

(* The end of a channel: what was not logged by then is lost. *)
LEMMA EndLosesTheParked ==
    ASSUME SessionInv, UNCHANGED lines,
           logged' = logged \/ (h.shell.pending = "heredoc" /\ logged' = logged \cup {h.shell.opener}),
           h'.active_channel = NoChannel, h'.shell.pending # "heredoc"
    PROVE  CommandsKept
BY DEF SessionInv, Parked, CommandsKept, Unrecorded

(* No other step forgets a line that was submitted. *)
LEMMA CommandsStep ==
    ASSUME SessionInv, [SessionNext]_vars
    PROVE  CommandsKept
<1>0. lines \in Nat /\ logged \subseteq 1 .. lines /\ Parked(h, lines) /\ GoodHandler(h)
    BY DEF SessionInv, AroundTypeOK
<1>1. ASSUME Quiet PROVE CommandsKept
    BY <1>1, SameUnrecorded DEF Quiet, CommandsKept
<1>2. CASE ChannelOpen \/ SubsystemRequest \/ \E u \in Uploads : SftpWrite(u) \/ SftpClose(u)
  <2>1. h'.shell = h.shell /\ UNCHANGED <<lines, logged>>
      BY <1>0, <1>2 DEF ChannelOpen, SubsystemRequest, SftpWrite, SftpClose, GoodHandler, Handlers
  <2> QED
      BY <2>1, SameUnrecorded DEF CommandsKept
<1>3. CASE ExecScpSink
  <2>1. h'.shell = h.shell /\ lines' = lines + 1 /\ logged' = logged \cup {lines + 1}
      BY <1>0, <1>3 DEF ExecScpSink, GoodHandler, Handlers
  <2> QED
      BY <1>0, <2>1 DEF CommandsKept, Unrecorded
<1>4. CASE ExecCommand
  <2>1. /\ h'.active_channel = NoChannel /\ h'.shell.pending = "none"
      BY <1>4, EndStep
  <2>2. /\ lines' = lines + 1
        /\ \/ logged' = logged \cup {lines + 1}
           \/ h.shell.pending = "heredoc" /\ logged' = logged \cup {lines + 1, h.shell.opener}
      BY <1>4 DEF ExecCommand
  <2> QED
      BY <1>0, <2>1, <2>2 DEF CommandsKept, Unrecorded, Parked
<1>5. CASE EditorCtrlD \/ EofTransfer \/ EofPipeEnds \/ EofTerminal
  <2>1. /\ h'.active_channel = NoChannel /\ h'.shell.pending = "none"
      BY <1>5, EndStep
  <2>2. /\ UNCHANGED lines
        /\ logged' = logged \/ (h.shell.pending = "heredoc" /\ logged' = logged \cup {h.shell.opener})
      BY <1>5, Zenon DEF EditorCtrlD, EofTransfer, EofPipeEnds, EofTerminal
  <2> QED
      BY <2>1, <2>2, EndLosesTheParked
<1>6. CASE PipeLine \/ EditorLine
  <2>1. /\ lines' = lines + 1 /\ h.shell.pending # "heredoc"
        /\ \/ logged' = logged \cup {lines + 1} /\ h'.shell.pending # "heredoc"
           \/ /\ logged' = logged
              /\ h'.shell.pending = "heredoc" /\ h'.shell.opener = lines + 1
      BY <1>6, LineStep
  <2> QED
      BY <1>0, <2>1 DEF CommandsKept, Unrecorded
<1>7. CASE PipeHeredocLine \/ EditorHeredocLine
  <2>1. /\ lines' = lines /\ h.shell.pending = "heredoc"
        /\ \/ logged' = logged /\ SamePrompt(h, h')
           \/ /\ logged' = logged \cup {h.shell.opener}
              /\ h'.shell.pending = "heredoc" => h'.shell.opener = h.shell.opener
      BY <1>7, HeredocStep
  <2> QED
      BY <1>0, <2>1 DEF CommandsKept, Unrecorded, SamePrompt
<1>8. ASSUME NEW c \in Channels, ChannelClose(c) PROVE CommandsKept
  <2>1. CASE h.active_channel = c
    <3>1. h' = Closed(h) /\ UNCHANGED <<lines, logged>>
        BY <1>8, <2>1 DEF ChannelClose, CloseChannel
    <3> QED
        BY <1>0, <3>1, ClosedIsFresh, EndLosesTheParked
  <2>2. CASE h.active_channel # c
    <3>1. h' = h /\ UNCHANGED <<lines, logged>>
        BY <1>8, <2>2 DEF ChannelClose, CloseChannel
    <3> QED
        BY <3>1, SameUnrecorded DEF CommandsKept
  <2> QED
      BY <2>1, <2>2
<1>9. CASE HandlerDrop
  <2>1. /\ UNCHANGED <<lines, logged>>
        /\ h'.active_channel = NoChannel /\ h'.shell.pending = "none"
      BY <1>9 DEF HandlerDrop, NewHandler, Fresh, NoShell
  <2> QED
      BY <2>1, EndLosesTheParked
<1>10. CASE Dropped \/ UNCHANGED vars
    BY <1>10, SameUnrecorded DEF Dropped, vars, CommandsKept
<1> QED
    BY <1>1, QuietStep, <1>2, <1>3, <1>4, <1>5, <1>6, <1>7, <1>8, <1>9, <1>10 DEF SessionNext

(* Every submitted line is logged, or waits in the shell for the rest of its *)
(* here-document; only the end of its channel or connection loses it.        *)
THEOREM CommandsAreLostOnlyAtEnds == SessionSpec => OnlyEndsLoseCommands
<1>1. SessionInit => SessionInv
    BY InitInv
<1>2. SessionInv /\ [SessionNext]_vars => SessionInv'
    BY SessionInvStep
<1>3. SessionInv /\ [SessionNext]_vars =>
        [Unrecorded' # Unrecorded =>
           /\ h.shell.pending = "heredoc"
           /\ Unrecorded' = Unrecorded \cup {h.shell.opener}
           /\ h'.active_channel = NoChannel]_vars
    BY CommandsStep DEF CommandsKept
<1> QED
    BY <1>1, <1>2, <1>3, PTL DEF SessionSpec, OnlyEndsLoseCommands

-----------------------------------------------------------------------------
(* What becomes of the uploads. *)

(* A frame goes to SFTP only while there is a session, with a shell under    *)
(* it; a session was asked for.                                              *)
SftpInv ==
    /\ route = "sftp" => h.sftp /\ h.shell.by # NoChannel
    /\ h.sftp => subsystems > 0

(* Uploads that follow the handler are kept. *)
LEMMA FollowedUploadsAreKept ==
    ASSUME SessionInv, UploadsAreKept, UploadsFollow, live' = live
    PROVE  UploadsAreKept'
<1>1. CASE UNCHANGED upload /\ h'.sftp = h.sftp /\ h'.handles = h.handles
           /\ (h.shell.by # NoChannel => h'.shell.by # NoChannel)
    BY <1>1 DEF UploadsAreKept
<1>2. ASSUME NEW S \in SUBSET Uploads, upload' = Stored(S),
             h.sftp /\ h.shell.by # NoChannel => h.handles \subseteq S
      PROVE  UploadsAreKept'
  <2> SUFFICES ASSUME NEW u \in Uploads, upload'[u] = "in_handle" PROVE FALSE
      BY DEF UploadsAreKept
  <2>1. u \notin S /\ upload[u] = "in_handle"
      BY <1>2 DEF Stored
  <2> QED
      BY <1>2, <2>1 DEF UploadsAreKept
<1> QED
    BY <1>1, <1>2 DEF UploadsFollow

(* The route is decided at the start of a frame, and a frame of SFTP runs no *)
(* line.                                                                     *)
LEMMA SftpInvStep ==
    ASSUME SessionInv, SftpInv, [SessionNext]_vars
    PROVE  SftpInv'
<1>0. GoodHandler(h) /\ subsystems \in Nat
    BY DEF SessionInv, AroundTypeOK
<1>1. CASE \/ PtyRequest \/ WindowChange \/ ShellRequest \/ FrameEnds
           \/ PipeBytes \/ PipePassword \/ ScreenQuits \/ PasswordEnter \/ PasswordCtrlC
           \/ ScpBytes \/ EofPipeBegins
  <2>1. Quiet
      BY <1>1, QuietStep
  <2>2. route' = route \/ route' # "sftp"
      BY <1>1, Zenon
         DEF PtyRequest, WindowChange, ShellRequest, FrameEnds, PipeBytes, PipePassword,
             ScreenQuits, PasswordEnter, PasswordCtrlC, ScpBytes, EofPipeBegins
  <2> QED
      BY <2>1, <2>2 DEF Quiet, SftpInv
<1>2. CASE FrameBegins
  <2>1. Quiet /\ h.active_channel # NoChannel /\ UNCHANGED subsystems
      BY <1>2, QuietStep DEF FrameBegins, OnChannel
  <2>2. CASE h.sftp
    <3>1. h' = WithShell(h)
        BY <1>2, <2>2 DEF FrameBegins
    <3>2. h'.shell.by # NoChannel
        BY <1>0, <2>1, <3>1, WithShellKeeps
    <3> QED
        BY <2>1, <2>2, <3>2 DEF Quiet, SftpInv
  <2>3. CASE ~h.sftp
    <3>1. h' = h /\ route' # "sftp"
        BY <1>2, <2>3 DEF FrameBegins
    <3> QED
        BY <2>1, <3>1 DEF SftpInv
  <2> QED
      BY <2>2, <2>3
<1>3. CASE ExecCommand \/ EditorCtrlD \/ EofTransfer \/ EofPipeEnds \/ EofTerminal
  <2>1. h'.active_channel = NoChannel /\ SessionInv'
      BY <1>3, EndStep
  <2>2. ~h'.sftp /\ route' = "idle"
      BY <2>1 DEF SessionInv, GoodHandler, Fresh, RouteInv
  <2> QED
      BY <2>2 DEF SftpInv
<1>4. CASE PipeLine \/ EditorLine \/ PipeHeredocLine \/ EditorHeredocLine
  <2>1. UploadsFollow /\ UNCHANGED subsystems /\ SessionInv'
      BY <1>4, LineStep, HeredocStep
  <2>2. route' # "sftp"
      BY <1>4, Zenon DEF PipeLine, EditorLine, PipeHeredocLine, EditorHeredocLine, AtPipeLine,
                         Submit, ResumeHeredoc
  <2>3. h'.sftp => h.sftp
      BY <2>1 DEF UploadsFollow
  <2> QED
      BY <2>1, <2>2, <2>3 DEF SftpInv
<1>5. CASE ChannelOpen
  <2>1. h'.sftp = h.sftp /\ h'.shell = h.shell /\ UNCHANGED <<route, subsystems>>
      BY <1>0, <1>5 DEF ChannelOpen, GoodHandler, Handlers
  <2> QED
      BY <2>1 DEF SftpInv
<1>6. CASE SubsystemRequest
  <2>1. h'.sftp /\ h'.shell = h.shell /\ route' # "sftp" /\ subsystems' > 0
      BY <1>0, <1>6 DEF SubsystemRequest, OnChannel, GoodHandler, Handlers
  <2> QED
      BY <2>1 DEF SftpInv
<1>7. CASE ExecScpSink \/ \E u \in Uploads : SftpWrite(u) \/ SftpClose(u)
  <2>1. h'.sftp = h.sftp /\ h'.shell = h.shell /\ UNCHANGED <<route, subsystems>>
      BY <1>0, <1>7 DEF ExecScpSink, SftpWrite, SftpClose, GoodHandler, Handlers
  <2> QED
      BY <2>1 DEF SftpInv
<1>8. ASSUME NEW c \in Channels, ChannelClose(c) PROVE SftpInv'
  <2>1. /\ h' = Closed(h) \/ h' = h
        /\ route' # "sftp" /\ UNCHANGED subsystems
      BY <1>8 DEF ChannelClose, CloseChannel
  <2> QED
      BY <1>0, <2>1, ClosedIsFresh DEF SftpInv
<1>9. CASE HandlerDrop
    BY <1>9 DEF HandlerDrop, NewHandler, Fresh, SftpInv
<1>10. CASE Dropped \/ UNCHANGED vars
    BY <1>10 DEF Dropped, vars, SftpInv
<1> QED
    BY <1>1, <1>2, <1>3, <1>4, <1>5, <1>6, <1>7, <1>8, <1>9, <1>10 DEF SessionNext

(* Only a second `subsystem sftp` request can lose an upload. *)
LEMMA UploadsStep ==
    ASSUME SessionInv, SftpInv, UploadsAreKept, [SessionNext]_vars, ~(SubsystemRequest /\ h.sftp)
    PROVE  UploadsAreKept'
<1>0. GoodHandler(h) /\ upload \in [Uploads -> {"unused", "in_handle", "stored"}]
    BY DEF SessionInv, AroundTypeOK
<1>1. CASE \/ PtyRequest \/ WindowChange \/ ShellRequest \/ FrameBegins \/ FrameEnds
           \/ PipeBytes \/ PipePassword \/ ScreenQuits \/ PasswordEnter \/ PasswordCtrlC
           \/ ScpBytes \/ EofPipeBegins
  <2>1. Quiet
      BY <1>1, QuietStep
  <2>2. live' = live
      BY <1>1, Zenon
         DEF PtyRequest, WindowChange, ShellRequest, FrameBegins, FrameEnds, PipeBytes,
             PipePassword, ScreenQuits, PasswordEnter, PasswordCtrlC, ScpBytes, EofPipeBegins
  <2> QED
      BY <2>1, <2>2 DEF Quiet, UploadsAreKept
<1>2. CASE \/ ExecCommand \/ EditorCtrlD \/ EofTransfer \/ EofPipeEnds \/ EofTerminal
           \/ PipeLine \/ EditorLine \/ PipeHeredocLine \/ EditorHeredocLine
  <2>1. UploadsFollow
      BY <1>2, EndStep, LineStep, HeredocStep
  <2>2. live' = live
      BY <1>2, Zenon
         DEF ExecCommand, EditorCtrlD, EofTransfer, EofPipeEnds, EofTerminal, PipeLine, EditorLine,
             PipeHeredocLine, EditorHeredocLine, Submit, ResumeHeredoc
  <2> QED
      BY <2>1, <2>2, FollowedUploadsAreKept
<1>3. CASE ChannelOpen \/ ExecScpSink
  <2>1. /\ h'.sftp = h.sftp /\ h'.handles = h.handles /\ h'.shell = h.shell
        /\ UNCHANGED <<upload, live>>
      BY <1>0, <1>3 DEF ChannelOpen, ExecScpSink, GoodHandler, Handlers
  <2> QED
      BY <2>1 DEF UploadsAreKept
<1>4. CASE SubsystemRequest
    BY <1>4 DEF SubsystemRequest, UploadsAreKept
<1>5. ASSUME NEW u \in Uploads, SftpWrite(u) PROVE UploadsAreKept'
  <2>1. /\ h'.sftp = h.sftp /\ h'.shell = h.shell /\ h'.handles = h.handles \cup {u}
        /\ upload' = [upload EXCEPT ![u] = "in_handle"] /\ live' /\ live /\ route = "sftp"
      BY <1>0, <1>5 DEF SftpWrite, GoodHandler, Handlers
  <2>2. h.sftp /\ h.shell.by # NoChannel
      BY <2>1 DEF SftpInv
  <2> QED
      BY <1>0, <2>1, <2>2 DEF UploadsAreKept
<1>6. ASSUME NEW u \in Uploads, SftpClose(u) PROVE UploadsAreKept'
  <2>1. /\ h'.sftp = h.sftp /\ h'.shell = h.shell /\ h'.handles = h.handles \ {u}
        /\ upload' = [upload EXCEPT ![u] = "stored"] /\ live' = live
      BY <1>0, <1>6 DEF SftpClose, GoodHandler, Handlers
  <2> QED
      BY <1>0, <2>1 DEF UploadsAreKept
<1>7. ASSUME NEW c \in Channels, ChannelClose(c) PROVE UploadsAreKept'
  <2>1. \/ upload' = Stored(Drained(h)) /\ h' = Closed(h)
        \/ h' = h /\ UNCHANGED upload
      BY <1>7 DEF ChannelClose, CloseChannel
  <2>2. KeepsUploads(h) /\ live' = live
      BY <1>0, <1>7, <2>1, ClosedIsFresh DEF KeepsUploads, ChannelClose
  <2> QED
      BY <1>0, <2>2, KeptUploadsFollow, FollowedUploadsAreKept
<1>8. CASE HandlerDrop
  <2>1. upload' = Stored(Drained(h))
      BY <1>8 DEF HandlerDrop
  <2> QED
      BY <2>1 DEF UploadsAreKept, Stored, Drained
<1>9. CASE Dropped \/ UNCHANGED vars
    BY <1>9 DEF Dropped, vars, UploadsAreKept
<1> QED
    BY <1>1, <1>2, <1>3, <1>4, <1>5, <1>6, <1>7, <1>8, <1>9 DEF SessionNext

(* At the start there is no upload and no session. *)
LEMMA UploadInitInv == SessionInit => SftpInv /\ UploadsAreKept
BY DEF SessionInit, SftpInv, UploadsAreKept, NewHandler, Fresh

(* With one `subsystem sftp` request on a connection, which is what clients  *)
(* make, no accepted upload is ever out of reach of the drain.               *)
THEOREM OneSubsystemKeepsUploads ==
    ASSUME MaxSubsystems <= 1
    PROVE  SessionSpec => []UploadsAreKept
<1> DEFINE Inv == SessionInv /\ SftpInv /\ UploadsAreKept
<1>1. SessionInit => Inv
    BY InitInv, UploadInitInv
<1>2. Inv /\ [SessionNext]_vars => Inv'
  <2> SUFFICES ASSUME Inv, [SessionNext]_vars PROVE Inv'
      OBVIOUS
  <2>1. ~(SubsystemRequest /\ h.sftp)
      BY DEF SubsystemRequest, SftpInv, SessionInv, AroundTypeOK
  <2> QED
      BY <2>1, SessionInvStep, SftpInvStep, UploadsStep
<1>3. Inv => UploadsAreKept
    OBVIOUS
<1> QED
    BY <1>1, <1>2, <1>3, PTL DEF SessionSpec

(* However many requests there are, an upload goes out of reach only when a  *)
(* new one replaces a session: the step of the finding, and no other.        *)
THEOREM OnlyASecondSubsystemLosesUploads ==
    SessionSpec => [][UploadsAreKept /\ ~UploadsAreKept' => SubsystemRequest /\ h.sftp]_vars
<1> DEFINE Inv == SessionInv /\ SftpInv
<1>1. SessionInit => Inv
    BY InitInv, UploadInitInv
<1>2. Inv /\ [SessionNext]_vars => Inv'
    BY SessionInvStep, SftpInvStep
<1>3. Inv /\ [SessionNext]_vars =>
        [UploadsAreKept /\ ~UploadsAreKept' => SubsystemRequest /\ h.sftp]_vars
    BY UploadsStep
<1> QED
    BY <1>1, <1>2, <1>3, PTL DEF SessionSpec
=============================================================================

------------------------------ MODULE Session ------------------------------
(***************************************************************************)
(* MimicHandler of network/ssh.rs after the login: one connection, its     *)
(* channels one after the other, and the state the handler keeps for the   *)
(* active one (the shell and its prompts, the line editor's mode, a full-  *)
(* screen display and its redraw task, the SCP sink, the SFTP session).    *)
(*                                                                         *)
(* russh calls the handler's methods one at a time.  A `data` frame is     *)
(* consumed byte by byte and may hold several lines and keys, so it is     *)
(* several steps between FrameBegins and FrameEnds; `route` is the branch  *)
(* of `data` that consumes it.  Command lines are numbered; what a line    *)
(* does to the session is a choice over what the commands can do to it.    *)
(***************************************************************************)
EXTENDS Naturals, FiniteSets

CONSTANTS
    MaxChannels,        \* bound: channels the client opens, one after the other
    MaxLines,           \* bound: command lines it submits
    Uploads,            \* SFTP uploads it may make
    MaxSubsystems       \* bound: `subsystem sftp` requests

ASSUME SessionAssumption ==
    MaxChannels \in Nat /\ MaxLines \in Nat /\ MaxSubsystems \in Nat

VARIABLES
    h,          \* the fields of MimicHandler
    awaiting,   \* channels we closed whose CHANNEL_CLOSE has not come back
    opened,     \* how many channels were opened
    route,      \* which branch of `data` is consuming a frame
    redraws,    \* live redraw tasks: the channels they paint
    lines,      \* how many command lines were submitted
    logged,     \* the lines with a `command` event
    upload,     \* what became of each SFTP upload
    subsystems, \* how many sftp requests were accepted
    live        \* the handler exists

vars == <<h, awaiting, opened, route, redraws, lines, logged, upload, subsystems, live>>

Channels == 1 .. MaxChannels
NoChannel == 0

(* `by` is the channel that built the shell, NoChannel when there is none;   *)
(* `term` the channel whose pty-req set TERM, COLUMNS and LINES in it;       *)
(* `screen` the display a command asked for and nobody has taken yet.        *)
NoShell == [by |-> NoChannel, ssh_tty |-> FALSE, term |-> NoChannel, interactive |-> FALSE,
            pending |-> "none", opener |-> 0, screen |-> "none"]

(* The fields with no channel active; `pty_term` is what a close leaves. *)
Fresh(pty_term) ==
    [active_channel |-> NoChannel, pty |-> FALSE, pty_term |-> pty_term,
     shell |-> NoShell, shell_started |-> FALSE, scp |-> "none",
     sftp |-> FALSE, handles |-> {},
     password_buf |-> FALSE, line_buf |-> FALSE, screen |-> "none"]

NewHandler == Fresh(NoChannel)

SessionInit ==
    /\ h = NewHandler
    /\ awaiting = {} /\ opened = 0 /\ route = "idle" /\ redraws = {}
    /\ lines = 0 /\ logged = {}
    /\ upload = [u \in Uploads |-> "unused"] /\ subsystems = 0
    /\ live = TRUE

-----------------------------------------------------------------------------
(* The handler's helpers, as functions on its fields.                        *)

(* `shell()`: builds the shell on first use from what is known then.  It is  *)
(* interactive until a shell or an exec request says otherwise.              *)
NewShell(c, pty, term) ==
    [by |-> c, ssh_tty |-> pty, term |-> term, interactive |-> TRUE,
     pending |-> "none", opener |-> 0, screen |-> "none"]

WithShell(s) ==
    IF s.shell.by # NoChannel THEN s
    ELSE [s EXCEPT !.shell = NewShell(s.active_channel, s.pty, s.pty_term)]

(* drain_sftp_uploads: the uploads that are stored when the SFTP session is  *)
(* taken; nothing when there is no shell to finish them in.                  *)

Drained_OnlyOnEof(s) == {}

Drained(s) == IF s.sftp /\ s.shell.by # NoChannel THEN s.handles ELSE {}

Stored(S) == [u \in Uploads |-> IF u \in S THEN "stored" ELSE upload[u]]

(* close_channel: everything but pty_term (and accepted_env) is reset. *)

Closed_KeepsPty(s) == [Fresh(s.pty_term) EXCEPT !.pty = s.pty]

Closed(s) == Fresh(s.pty_term)

(* close_channel(c) together with the drop of the screen hold, which aborts  *)
(* its redraw task, and the drain.  Only the active channel is closed.       *)

CloseChannel_AnyChannel(s, c) ==
    /\ h' = Closed(s)
    /\ upload' = Stored(Drained(s))
    /\ redraws' = {}

CloseChannel(s, c) ==
    IF s.active_channel = c
    THEN /\ h' = Closed(s)
         /\ upload' = Stored(Drained(s))
         /\ redraws' = {}
    ELSE h' = s /\ UNCHANGED <<upload, redraws>>

(* end_channel: status, EOF and CLOSE are sent, then close_channel. *)
EndChannel(s) ==
    /\ awaiting' = awaiting \cup {s.active_channel}
    /\ CloseChannel(s, s.active_channel)

(* A method of the handler starts: russh has the channel open, no other      *)
(* method is running.                                                        *)
OnChannel == live /\ route = "idle" /\ h.active_channel # NoChannel

-----------------------------------------------------------------------------
(* Channels and requests. *)

(* channel_open_session: accepted unless a channel is active. *)
ChannelOpen ==
    /\ live /\ route = "idle" /\ opened < MaxChannels
    /\ opened' = opened + 1
    /\ h' = IF h.active_channel = NoChannel
            THEN [h EXCEPT !.active_channel = opened + 1]
            ELSE h
    /\ UNCHANGED <<awaiting, route, redraws, lines, logged, upload, subsystems, live>>

PtyRequest ==
    /\ OnChannel
    /\ h' = [h EXCEPT !.pty = TRUE, !.pty_term = h.active_channel]
    /\ UNCHANGED <<awaiting, opened, route, redraws, lines, logged, upload, subsystems, live>>

(* window_change_request: a resize reaches the shell's environment. *)
WindowChange ==
    /\ OnChannel
    /\ h' = IF h.shell.by # NoChannel /\ h.pty_term # NoChannel
            THEN [h EXCEPT !.shell.term = h.pty_term] ELSE h
    /\ UNCHANGED <<awaiting, opened, route, redraws, lines, logged, upload, subsystems, live>>

ShellRequest ==
    /\ OnChannel
    /\ h' = [WithShell(h) EXCEPT !.shell_started = TRUE, !.shell.interactive = h.pty]
    /\ UNCHANGED <<awaiting, opened, route, redraws, lines, logged, upload, subsystems, live>>

(* subsystem_request for "sftp": a new session replaces whatever was there. *)
SubsystemRequest ==
    /\ OnChannel /\ subsystems < MaxSubsystems
    /\ subsystems' = subsystems + 1
    /\ h' = [h EXCEPT !.sftp = TRUE, !.handles = {}]
    /\ UNCHANGED <<awaiting, opened, route, redraws, lines, logged, upload, live>>

(* exec_request `scp -t`: the sink takes the following data. *)
ExecScpSink ==
    /\ OnChannel /\ lines < MaxLines
    /\ lines' = lines + 1 /\ logged' = logged \cup {lines + 1}
    /\ h' = [h EXCEPT !.scp = "idle"]
    /\ UNCHANGED <<awaiting, opened, route, redraws, upload, subsystems, live>>

(* Any other exec_request, `scp -f` included: the command runs, a here-      *)
(* document that is open ends at once (one an earlier line left, unless the  *)
(* command opens its own), a prompt is dropped, and the channel ends.        *)

ExecCommand ==
    /\ OnChannel /\ lines < MaxLines
    /\ lines' = lines + 1
    /\ \/ logged' = logged \cup {lines + 1}
       \/ h.shell.pending = "heredoc" /\ logged' = logged \cup {lines + 1, h.shell.opener}
    /\ EndChannel([WithShell(h) EXCEPT !.shell.interactive = FALSE, !.shell.pending = "none"])
    /\ UNCHANGED <<opened, route, subsystems, live>>

-----------------------------------------------------------------------------
(* Running a line.  Outcomes of Shell::execute for a line of the client: it  *)
(* opens a here-document and is parked, or it runs, and then may leave a     *)
(* password prompt (`su`, `passwd`), a full-screen display (only when        *)
(* interactive, terminal or not), both (`passwd; top`), or end the session   *)
(* (`exit`).                                                                 *)

Outcomes == [parks : {TRUE}, asks : {FALSE}, paints : {"none"}, exits : {FALSE}]
            \cup [parks : {FALSE}, asks : BOOLEAN, paints : {"none", "top", "hold"}, exits : BOOLEAN]

Possible(s, o) == o.paints # "none" => s.shell.interactive

(* The shell after the line: a line that asks for nothing leaves an older    *)
(* prompt, or a display nobody took, as it is.                               *)
Executed(s, o, l) ==
    [s EXCEPT !.shell.pending = IF o.parks THEN "heredoc"
                                ELSE IF o.asks THEN "password" ELSE @,
              !.shell.opener = IF o.parks THEN l ELSE @,
              !.shell.screen = IF o.paints = "none" THEN @ ELSE o.paints]

(* A line that opened a here-document is logged when the document closes. *)
Recorded(o, l) == logged' = IF o.parks THEN logged ELSE logged \cup {l}

(* hold_screen: a new hold replaces the old one, whose task is aborted. *)

HoldScreen_KeepsTask(s, kind) ==
    [redraws |-> redraws \cup (IF kind = "top" THEN {s.active_channel} ELSE {}),
     handler |-> [s EXCEPT !.screen = kind]]

HoldScreen(s, kind) ==
    [redraws |-> IF kind = "top" THEN {s.active_channel} ELSE {},
     handler |-> [s EXCEPT !.screen = kind]]

(* The end of a Submit: the screen before the prompt, the prompt before PS1. *)
(* `shell().screen.take()` finds what this line asked for, or what a line    *)
(* run over a pipe left there before a pty-req made the channel a terminal.  *)
AfterSubmit(s) ==
    IF s.shell.screen # "none"
    THEN LET held == HoldScreen([s EXCEPT !.shell.screen = "none"], s.shell.screen)
         IN  h' = held.handler /\ redraws' = held.redraws
    ELSE /\ h' = IF s.shell.pending = "password"
                 THEN [s EXCEPT !.password_buf = TRUE] ELSE s
         /\ UNCHANGED redraws

(* One frame of `data`: where it goes is decided once, at its start. *)
FrameBegins ==
    /\ OnChannel
    /\ LET s == IF h.sftp THEN WithShell(h) ELSE h
       IN  /\ h' = s
           /\ route' = IF s.sftp THEN "sftp" ELSE IF s.scp # "none" THEN "scp"
                       ELSE IF ~s.pty THEN "pipe"
                       ELSE IF s.screen # "none" THEN "screen" ELSE "keys"
    /\ UNCHANGED <<awaiting, opened, redraws, lines, logged, upload, subsystems, live>>

FrameEnds ==
    /\ live /\ route \notin {"idle", "eof"}
    /\ route' = "idle"
    /\ UNCHANGED <<h, awaiting, opened, redraws, lines, logged, upload, subsystems, live>>

(* feed_no_tty: bytes of an unfinished line, and a finished one. *)
PipeBytes ==
    /\ live /\ route = "pipe"
    /\ h' = [h EXCEPT !.line_buf = TRUE]
    /\ UNCHANGED <<awaiting, opened, route, redraws, lines, logged, upload, subsystems, live>>

(* submit_line for a line from a pipe or from the editor; the channel ends   *)
(* on `exit`, and the rest of the frame is dropped.                          *)
Submit(s, onPty) ==
    /\ lines < MaxLines /\ lines' = lines + 1
    /\ \E o \in Outcomes :
         LET ran == Executed(s, o, lines + 1)
         IN  /\ Possible(s, o)
             /\ Recorded(o, lines + 1)
             /\ IF o.exits THEN EndChannel(ran) /\ route' = "idle"
                ELSE /\ IF onPty THEN AfterSubmit(ran) ELSE h' = ran /\ UNCHANGED redraws
                     /\ UNCHANGED <<awaiting, upload, route>>
    /\ UNCHANGED <<opened, subsystems, live>>

(* run_no_tty_line: called for a finished line of a frame and, at EOF, for   *)
(* the unfinished last one.                                                  *)
AtPipeLine == live /\ (route = "pipe" \/ (route = "eof" /\ h.line_buf))

PipeLine ==
    /\ AtPipeLine /\ h.shell.pending = "none"
    /\ Submit([WithShell(h) EXCEPT !.line_buf = FALSE], FALSE)

(* `resume` with a here-document's line: more of the body, or its delimiter, *)
(* which logs the parked line and runs it.  A line with a second document    *)
(* (`cat << A << B`) parks again, to be logged again when that one closes.   *)

ResumeHeredoc_NotLogged(s, onPty) ==
    /\ s.shell.pending = "heredoc"
    /\ h' = [s EXCEPT !.shell.pending = "none"]
    /\ UNCHANGED <<awaiting, opened, route, redraws, lines, logged, upload, subsystems, live>>

ResumeHeredoc(s, onPty) ==
    /\ s.shell.pending = "heredoc"
    /\ \/ /\ IF onPty THEN AfterSubmit(s) ELSE h' = s /\ UNCHANGED redraws
          /\ UNCHANGED <<awaiting, upload, route, logged>>
       \/ /\ logged' = logged \cup {s.shell.opener}
          /\ \E o \in Outcomes :
               LET ran == Executed([s EXCEPT !.shell.pending = "none"], o, s.shell.opener)
               IN  /\ Possible(s, o)
                   /\ IF o.exits THEN EndChannel(ran) /\ route' = "idle"
                      ELSE /\ IF onPty THEN AfterSubmit(ran) ELSE h' = ran /\ UNCHANGED redraws
                           /\ UNCHANGED <<awaiting, upload, route>>
    /\ UNCHANGED <<opened, lines, subsystems, live>>

PipeHeredocLine ==
    /\ AtPipeLine
    /\ ResumeHeredoc([h EXCEPT !.line_buf = FALSE], FALSE)

(* `resume` with a password: `passwd` asks a second time. *)
PipePassword ==
    /\ AtPipeLine /\ h.shell.pending = "password"
    /\ \E again \in {"none", "password"} :
         h' = [h EXCEPT !.line_buf = FALSE, !.shell.pending = again]
    /\ UNCHANGED <<awaiting, opened, route, redraws, lines, logged, upload, subsystems, live>>

(* screen_input: the quit key drops the hold; the rest of the frame goes to  *)
(* the editor again.                                                         *)
ScreenQuits ==
    /\ live /\ route = "screen"
    /\ h' = [WithShell(h) EXCEPT !.screen = "none"]
    /\ redraws' = {}
    /\ route' = "keys"
    /\ UNCHANGED <<awaiting, opened, lines, logged, upload, subsystems, live>>

(* The password collector: Enter answers, Ctrl-C gives up. *)

PasswordEnter ==
    /\ live /\ route = "keys" /\ h.password_buf
    /\ \E again \in {"none", "password"} :
         h' = [h EXCEPT !.shell.pending = again, !.password_buf = (again = "password")]
    /\ UNCHANGED <<awaiting, opened, route, redraws, lines, logged, upload, subsystems, live>>

PasswordCtrlC ==
    /\ live /\ route = "keys" /\ h.password_buf
    /\ h' = [h EXCEPT !.shell.pending = "none", !.password_buf = FALSE]
    /\ UNCHANGED <<awaiting, opened, route, redraws, lines, logged, upload, subsystems, live>>

(* Reaction::Submit: a here-document line or a command line. *)
EditorLine ==
    /\ live /\ route = "keys" /\ ~h.password_buf /\ h.shell.pending # "heredoc"
    /\ Submit(WithShell(h), TRUE)

EditorHeredocLine ==
    /\ live /\ route = "keys" /\ ~h.password_buf
    /\ ResumeHeredoc(h, TRUE)

(* Reaction::Eof: Ctrl-D on an empty line. *)
EditorCtrlD ==
    /\ live /\ route = "keys" /\ ~h.password_buf
    /\ EndChannel(WithShell(h))
    /\ route' = "idle"
    /\ UNCHANGED <<opened, lines, logged, subsystems, live>>

-----------------------------------------------------------------------------
(* Transfers. *)

(* SSH_FXP_OPEN and SSH_FXP_WRITE: bytes are in a write handle. *)
SftpWrite(u) ==
    /\ live /\ route = "sftp" /\ upload[u] = "unused"
    /\ upload' = [upload EXCEPT ![u] = "in_handle"]
    /\ h' = [h EXCEPT !.handles = @ \cup {u}]
    /\ UNCHANGED <<awaiting, opened, route, redraws, lines, logged, subsystems, live>>

(* SSH_FXP_CLOSE: the upload is complete, store_sftp_upload records it. *)
SftpClose(u) ==
    /\ live /\ route = "sftp" /\ u \in h.handles
    /\ upload' = [upload EXCEPT ![u] = "stored"]
    /\ h' = [h EXCEPT !.handles = @ \ {u}]
    /\ UNCHANGED <<awaiting, opened, route, redraws, lines, logged, subsystems, live>>

(* ScpSink::feed: a file starts, or completes and is stored (store_upload    *)
(* writes it into the shell's tree).                                         *)
ScpBytes ==
    /\ live /\ route = "scp"
    /\ \/ h.scp = "idle" /\ h' = [h EXCEPT !.scp = "file"]
       \/ h.scp = "file" /\ h' = [WithShell(h) EXCEPT !.scp = "idle"]
    /\ UNCHANGED <<awaiting, opened, route, redraws, lines, logged, upload, subsystems, live>>

-----------------------------------------------------------------------------
(* Ends. *)

(* channel_eof on the active channel.  In the order of the code: the sink is *)
(* taken; SFTP is drained; a shell without a terminal runs what it has (the  *)
(* last line, then an open here-document); a shell on a terminal logs out.   *)
EofTransfer ==
    /\ OnChannel /\ (h.scp # "none" \/ h.sftp)
    /\ EndChannel(IF h.scp # "none" THEN [h EXCEPT !.scp = "none"] ELSE WithShell(h))
    /\ UNCHANGED <<opened, route, lines, logged, subsystems, live>>

EofShell == OnChannel /\ h.scp = "none" /\ ~h.sftp /\ h.shell_started

EofPipeBegins ==
    /\ EofShell /\ ~h.pty
    /\ route' = "eof"
    /\ UNCHANGED <<h, awaiting, opened, redraws, lines, logged, upload, subsystems, live>>

(* The last line, if any, is done and was not `exit`. *)
EofPipeEnds ==
    /\ live /\ route = "eof" /\ ~h.line_buf
    /\ route' = "idle"
    /\ logged' = IF h.shell.pending = "heredoc" THEN logged \cup {h.shell.opener} ELSE logged
    /\ EndChannel(h)
    /\ UNCHANGED <<opened, lines, subsystems, live>>

EofTerminal ==
    /\ EofShell /\ h.pty
    /\ EndChannel(h)
    /\ UNCHANGED <<opened, route, lines, logged, subsystems, live>>

(* channel_close from the client: of the active channel, or the late answer  *)
(* to our own close, which may find the next channel active.                 *)
ChannelClose(c) ==
    /\ live /\ route = "idle"
    /\ c = h.active_channel \/ c \in awaiting
    /\ CloseChannel(h, c)
    /\ awaiting' = awaiting \ {c}
    /\ UNCHANGED <<opened, route, lines, logged, subsystems, live>>

(* MimicHandler::drop, between two methods or at an await inside one: the    *)
(* drain, then the fields, the screen hold (and its task) among them.        *)
HandlerDrop ==
    /\ live
    /\ live' = FALSE /\ route' = "idle"
    /\ upload' = Stored(Drained(h))
    /\ h' = NewHandler /\ redraws' = {} /\ awaiting' = {}
    /\ UNCHANGED <<opened, lines, logged, subsystems>>

Dropped == ~live /\ UNCHANGED vars

SessionNext ==
    \/ ChannelOpen \/ PtyRequest \/ WindowChange \/ ShellRequest
    \/ SubsystemRequest \/ ExecScpSink \/ ExecCommand
    \/ FrameBegins \/ FrameEnds
    \/ PipeBytes \/ PipeLine \/ PipeHeredocLine \/ PipePassword
    \/ ScreenQuits \/ PasswordEnter \/ PasswordCtrlC
    \/ EditorLine \/ EditorHeredocLine \/ EditorCtrlD
    \/ \E u \in Uploads : SftpWrite(u) \/ SftpClose(u)
    \/ ScpBytes
    \/ EofTransfer \/ EofPipeBegins \/ EofPipeEnds \/ EofTerminal
    \/ \E c \in Channels : ChannelClose(c)
    \/ HandlerDrop \/ Dropped

SessionSpec == SessionInit /\ [][SessionNext]_vars

-----------------------------------------------------------------------------
Shells ==
    [by : Channels \cup {NoChannel}, ssh_tty : BOOLEAN, term : Channels \cup {NoChannel},
     interactive : BOOLEAN, pending : {"none", "password", "heredoc"}, opener : 0 .. MaxLines,
     screen : {"none", "top", "hold"}]

Handlers ==
    [active_channel : Channels \cup {NoChannel}, pty : BOOLEAN,
     pty_term : Channels \cup {NoChannel}, shell : Shells,
     shell_started : BOOLEAN, scp : {"none", "idle", "file"},
     sftp : BOOLEAN, handles : SUBSET Uploads,
     password_buf : BOOLEAN, line_buf : BOOLEAN, screen : {"none", "top", "hold"}]

(* The handler's fields and what is around it have the types of the code. *)
SessionTypeOK ==
    /\ h \in Handlers
    /\ awaiting \subseteq Channels /\ opened \in 0 .. MaxChannels
    /\ route \in {"idle", "sftp", "scp", "pipe", "screen", "keys", "eof"}
    /\ redraws \subseteq Channels
    /\ lines \in 0 .. MaxLines /\ logged \subseteq 1 .. MaxLines
    /\ upload \in [Uploads -> {"unused", "in_handle", "stored"}]
    /\ subsystems \in 0 .. MaxSubsystems /\ live \in BOOLEAN

(* A channel starts from nothing: whatever ended the previous one, no shell, *)
(* prompt, display, buffer or transfer of it is there when no channel is     *)
(* active, and the shell in use was built for the active channel, with an    *)
(* SSH_TTY only if that channel asked for a terminal.                        *)
ChannelsAreIsolated ==
    /\ h.active_channel = NoChannel => h = Fresh(h.pty_term)
    /\ h.shell.by \in {NoChannel, h.active_channel}
    /\ h.pty \/ h.shell.ssh_tty => h.pty_term = h.active_channel

(* A redraw task is alive exactly while `top` holds the screen, and paints   *)
(* the active channel: quitting, replacing the display, ending the channel   *)
(* or the connection stops it.                                               *)
RedrawFollowsScreen ==
    redraws = IF h.screen = "top" THEN {h.active_channel} ELSE {}

(* Input is hidden only while the shell waits for a password. *)
HiddenInputIsAnAnswer == h.password_buf => h.shell.pending = "password"

(* Only a terminal is held: what a shell that was never told it reads a pipe *)
(* asks to display stays in the shell until there is a terminal to take it.  *)
OnlyTerminalsAreHeld == h.screen # "none" => h.pty /\ h.active_channel # NoChannel

(* What the terminal does follows the handler's state, which keeps its type: *)
(* the redraw task belongs to the display, the display to a terminal, the    *)
(* hidden input to the prompt.                                               *)
TerminalFollowsState ==
    SessionTypeOK /\ RedrawFollowsScreen /\ OnlyTerminalsAreHeld /\ HiddenInputIsAnAnswer

(* An upload whose bytes were accepted is in a write handle of the current   *)
(* SFTP session, where every way to end it finds it, or it is stored.        *)
UploadsAreKept ==
    \A u \in Uploads :
        upload[u] = "in_handle" => live /\ h.sftp /\ u \in h.handles /\ h.shell.by # NoChannel

(* The client's late answer to a close of ours does not disturb the channel  *)
(* that is active by then.                                                   *)
LateCloseIsHarmless ==
    [][live' /\ ~(awaiting \subseteq awaiting') => UNCHANGED <<h, upload, redraws>>]_vars

(* The command lines that are neither logged nor waiting in the shell for    *)
(* the rest of their here-document.                                          *)
Unrecorded ==
    {l \in 1 .. lines : l \notin logged /\ ~(h.shell.pending = "heredoc" /\ h.shell.opener = l)}

(* Only an end loses a command: every submitted line is logged, or parked,   *)
(* and a parked one is logged when its document closes; it goes unrecorded   *)
(* only when its channel or the connection ends before that.                 *)
OnlyEndsLoseCommands ==
    [][Unrecorded' # Unrecorded =>
         /\ h.shell.pending = "heredoc"
         /\ Unrecorded' = Unrecorded \cup {h.shell.opener}
         /\ h'.active_channel = NoChannel]_vars
=============================================================================

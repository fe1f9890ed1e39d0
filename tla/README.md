# A verification of the MIMIC SSH honeypot

MIMIC (`src/`) is a medium-interaction SSH honeypot in Rust: it accepts any
number of untrusted clients, lets them log in to an emulated Debian host, and
records what they do. Its correctness is mostly about *bounds* (slots, time,
memory, disk) and about the *record* (what is logged and stored is true and
complete), and both are kept by code that runs concurrently: one tokio task per
connection, watchdog and redraw tasks, atomics and a mutex shared by all
sessions, and a directory on the real disk that survives the process.

This directory holds TLA+ modules translated from that code, TLC
configurations that check them on small instances, and TLAPS proofs for every
value of the constants.

## 1. Inventory

| Component (source) | State | Operations | Hard behaviour | What makes it correct |
|---|---|---|---|---|
| Connection registry (`network/limiter.rs`) | atomic `total`, mutexed map `per_ip` | `try_acquire`, `ConnectionGuard::drop` | two cells, two steps each, any interleaving | counts agree with the guards; caps hold; no dead map entries; refusals are justified |
| Listener and connection tasks (`network/ssh.rs: serve`, `main.rs`) | accept loop, signal listener, one task and one watchdog per connection | accept, refuse, handshake, login, disconnect, shutdown | timers against logins, `abort` against a firing timer, signals against `select!`, drop order | a slot lives exactly as long as its handler; lifetimes are bounded; every slot comes back; the log is closed at shutdown |
| Session handler (`MimicHandler`) | active channel, PTY, shell, line buffer, password collector, held screen, SCP/SFTP sessions | one method per SSH request, `data`, `channel_eof`, `channel_close`, `Drop` | one set of fields for successive channels; a data frame that changes its own mode; data before any shell request; late closes; a redraw task beside the handler | nothing leaks from channel to channel; tasks die with their display; accepted uploads and commands are recorded |
| Quarantine store (`store_upload`, `store_sftp_upload`, `write_quarantine`) | files `<sha256>` and `<sha256>.partial`, a per-session and a global counter | check caps, create, write, rename, count | sessions in parallel on one directory; disk errors, some of them ignored; kills; restarts | files are whole under their hash; caps bound the disk; a reported path exists |
| Daily reset (`deploy/daily-reset.sh`) | none | wipe, restart | deletes under a running process | the store's bounds survive it |
| In-memory filesystem (`vfs/mod.rs`, `vfs/nodes.rs`) | arena of nodes, `content_bytes` | mkdir, files, links, unlink, rename, recursive helpers | parents and children are two records of one tree; tombstones; caps met in the middle of an operation | a tree: acyclic, consistent, bounded in depth, nodes and bytes |
| SFTP server (`network/sftp.rs`) | packet buffer, handles, buffered bytes | one handler per packet type | response cap leaves packets behind; resynchronisation | file buffers charged and bounded; every accepted byte reaches an upload |
| SCP sink (`network/scp.rs`) | directory stack, current file | control lines, body bytes | nesting beyond the cap; a target that nothing normalises; a file cut short | files land where the client put them, or too high past the cap |
| Authentication (`decide_auth`) | attempts | password, key | one counter over two methods beside russh's own limit | `accept_after` lets in exactly whom it says |
| Host keys (`network/hostkey.rs`) | two key files | load or create | kill or disk error between creation and write; an intact file that cannot be read | a restart keeps every key that was shown, and serves |
| Logging (`logging/`) | rolling files, lossy queue | events, rotation, age sweep | two deleters beside the writer; downtime; deletions that fail silently | recent days are kept, expired ones go, the open file is not deleted |
| Parser and arithmetic (`shell/parser.rs`, `arith.rs`, expansion in `shell/mod.rs`) | none | split a line into segments, stages, redirections, words; expand; evaluate | six passes, each scanning what the one before produced; byte offsets into text | data stays data in every pass; the arithmetic is its grammar |
| Shell (`shell/mod.rs`, `env.rs`) | identity, cwd, environment, pending prompt, captures, nesting, budgets | `execute`, `resume`, substitution, here-document, scripts | `execute` called again from inside itself, state saved and restored by hand | bounded cost; nothing captured is lost; a subshell leaves no trace |
| Line editor (`shell/line.rs`, `complete.rs`) | buffer, cursor, kill, history, search, escape state | one transition per key | bytes against characters; caps; indices into a history that loses entries | no half character; the terminal shows the line that will run |
| Commands (`commands/`) | the arena, account files, the session | touch to tar; su, sudo, passwd, useradd; wget, curl, scp | caps met half way; links; copies into themselves; operands without a name; fixed-width archive fields | the exit status is true; nothing but the operands changes |
| Persona, clock, configuration, snapshot | constants after start | - | - | validated ranges |

`PROJECT.json` lists the same components with their status, and under
`hazards` what is hard to test in each, at its line.

### How the parts interact

`main` builds the runtime and calls `serve`. `serve` owns the registry and the
global quarantine counter; for each connection it takes a slot, builds a
`MimicHandler` that owns the slot's guard, and spawns a task that hands both to
russh. russh calls the handler's methods one at a time. The handler owns one
shell (with its own filesystem), and shares with other sessions only the
registry, the global counter, the quarantine directory and the log. The watchdog
shares one atomic flag with the handler and can end the session through russh's
handle. A held full-screen display has a task that writes to the channel.

A line reaches the shell whole, from the line editor or from an exec request.
`execute` cuts it with the splitters of `parser.rs`, expands each stage (a
substitution calls `execute` again on a copy of the session), opens the
redirection targets and dispatches to a command; `sh`, `sudo`, `nohup` and
`xargs` dispatch or execute again from inside a command. What the commands
captured on the way (downloads, script lines) is drained by the handler once,
when the line is done.

## 2. Modules

| Module | Models | State ↔ code |
|---|---|---|
| `Slots` | abstract: a set of slots, taken and given back in one step, within the caps | `slot[c]` |
| `Limiter` | the registry | `total`, `per_ip` are the two cells; `phase[c]` is where a caller of `try_acquire`/`drop` is |
| `Server` | extends `Limiter` with the accept loop, the tasks, the watchdogs and shutdown | `loop`, `term_seen` (the current listener's pending signal), `stage`, `age`, `login` (the shared flag, with the time it was set), `watchdog`, `logged` |
| `Session` | `MimicHandler` after the login | record `h` has the handler's fields; `route` is the branch of `data` in progress; `redraws` the live redraw tasks; `h.shell.screen` the display a command asked for, which waits there while there is no terminal |
| `Quarantine` | the store on disk, the process and the daily reset | `staged`, `stored` are the files; `pc` the position in `store_upload`; counters by their names; ghosts `missed` and `leaked` are the bytes ignored errors hide |
| `Vfs` | the arena | record `fs` has the fields of `Vfs`; operators on arenas are the methods |
| `Mirror` | extends `Vfs` with path lookup, `mkdir_p` and the mirroring of an upload | paths are sequences of names; every link leads to one directory |
| `Sftp` | `SftpSession` | `buf` counts packets, `out` answers; `handles`, `next_handle`, `buffered_bytes` by their names; `completed` is what the call returns |
| `Scp` | `ScpSink` and `write_to_vfs` | `dirs`, `file`, `target` by their names; ghosts `nesting` and `strayed` are the client's view |
| `Transfers` | a channel with one of the two, on the shell's filesystem | |
| `Parser` | the splitters, expansion, tokenizer and arithmetic | `text` is the line, a sequence of bytes (`Wide` is a character of two); one operator per function of `parser.rs`, over the positions the shared scan leaves bare |
| `Commands` | the state of a `Shell` and the commands that change it | record `sh`, with the environment under `sh.id.env` and, as a ghost, the names the client set or unset itself (`touched`); a handler takes the shell and gives it back with a `CommandResult` |
| `Shell` | extends `Commands` with `execute` down to `dispatch` and the network layer's drain | `reply` is the `Output` and what was logged; history fields `made`, `peak` |
| `LineEditor` | the editor, completion and the client's terminal line | record `ed` has the editor's fields; `ed.scr` is what the reactions drew |
| `FsCommands` | extends `Vfs` with path resolution, metadata and the filesystem commands | `info` is each node's metadata, link target and archive; `Up`, `Dot` and `Nameless` are `..`, `.` and the empty name, which some operands leave as the name of a child; `sh.did` the last command and its status |
| `Sensor` | the process: start, keys, log files, retention, kills | `file` the key files, `at` the position in `load_or_create`, `logs` the log files by day; ghosts `hurt` (this start met a disk error) and `spared` (files the last sweep failed to delete) |
| `Login` | authentication of one connection | `auth` the configuration, `conn` the counters |
| `MC*` | instances for TLC; `MCText` and `MCSensor` hold two components each that share no state | |
| `ServerProofs`, `SessionProofs`, `QuarantineProofs`, `VfsProofs`, `TransferProofs`, `SensorProofs`, `EditorProofs` | theorems about the module of that name (`TransferProofs`: `Sftp`, `Scp`, `Transfers`; `EditorProofs`: `LineEditor`); `ServerProofs` starts with those of `Limiter`, `SensorProofs` is also about `Login`, `TransferProofs` builds on `VfsProofs` | |
| `FoldTheorems` | lemmas the others share: sums over finite sets, walks by recursive functions | |

Grain of atomicity. A step is what no other actor can see the inside of: the
critical section of the registry's mutex; one system call of `write_quarantine`;
one line or key of a data frame, because what a line does to the handler decides
how the rest of the frame is read. The release of a slot is two steps because
the mutex is dropped before the atomic is touched; an acquisition is two because
the atomic comes first.

Abstractions. Addresses, connections, payloads and names are model values. Time
is an age per connection. A payload is its size and whether it is complete. In
`Session` a command line is a number, and what a line does to the session is a
choice over what the commands can do to it (`Outcomes`): ask for a password,
hold the screen, open a here-document, exit, and the combinations the shell's
`;` allows. File contents in `Vfs` are lengths, and metadata is only in
`FsCommands`, where the group class is folded into the others and times are left
out. In `Parser` a byte stands for its class, and one character has two; in `Shell` a line is a token
whose parts the constant `Parse` gives, text is a sequence of lines and its size
their number; in `LineEditor` a byte is a token and two tokens make a character.
In `Sftp` the contents of a handle are its length and, as ghosts, the byte
positions the client sent and the ones that were kept.

## 3. Runs

Passing runs:

| Run | Instance | Shows |
|---|---|---|
| `server` | 3 connections, 2 addresses, 2 slots, 1 per address; grace 1, idle 2, lifetime 2 | `RegistryConsistent` (the two cells agree with the guards, the caps hold, no dead entries), `SlotFollowsHandler`, `TimeoutsHold`, `LogIsTrue`, `RefusalsAreJustified`, and that server and registry implement `Slots` |
| `server_slots` | 2 connections, 1 slot, with fairness | `SlotsComeBack` |
| `session` | 2 channels, 3 lines, 2 uploads, 1 SFTP request | `ChannelsAreIsolated`, `TerminalFollowsState`, `UploadsAreKept`, `LateCloseIsHarmless`, `OnlyEndsLoseCommands` |
| `quarantine` | 2 sessions, 2 payloads of 2 bytes, caps of 3 and 4 bytes, 2 disk errors, 2 kills, 1 reset | `ContentAddressed`, `SessionDiskBounded`, `OvershootBounded`, `CalmStoreIsHonest` |
| `vfs` | 4 nodes, 2 names, depth 2, 1 byte | `TreeSound`, `CapsKept`, `RenameKeepsNodes` |
| `transfers` | SFTP: 3 handles, 2 paths, files of 2 bytes, writes at 2 offsets, 2 packets ahead, 1 answer per call; SCP: 2 files, 2 levels on a sink that follows 1, targets with and without `..`; a tree with room for one or two nodes | `MemoryBounded`, `CapturesTrue`, `WritesBecomeUploads`, `MirrorsLand` |
| `shell` | a plain user, 3 submissions out of 46 lines and 4 answers; output of 3 lines, nesting of 5, scripts of 2 lines, 5 environment variables, 14 nodes | `CapturesKept`, `CostBounded`, `SessionConsistent`, `RedirectionsRight` (the last over every sequence of up to three redirections) |
| `text` | every line of 5 bytes over six alphabets with six values of a variable, and of 7 and 4 bytes over two with a wide character, every expression of 6 tokens on 3-bit integers with one level of parentheses; every sequence of 6 keys on a line of 3 bytes with 2 history entries | `LinesKeepTheirMeaning`, `ArithmeticIsGrammar`, `EditorConsistent`, `EditsAreSeen` |
| `commands` | root and a plain user, every command with five operands and its flags (`cp` and `ln` also with `/`, `.` and `..`), twice in a row, on a tree of 3 nodes below the root with room for 2 more; copies limited to depth 1, header fields to one component and one octal digit | `TreeIsWalkable`, `TarRoundTrip`, `StatusIsTrue`, `OnlyTheNamed`, `CopyIsFaithful` |
| `sensor` | 3 kills or disk errors, 5 days of 3 ticks, a window of 2 days; every login sequence under every policy with 6 attempts | `IdentityHolds`, `ProcessServes`, `LogsAreKept`, `NthAttemptIsAccepted` |

Several of these are conjunctions of named parts, each with its own comment in
its module: what a component keeps is one property, and the parts are what a
reader would ask about one by one.

Why the bounds are enough to be interesting. There are always more connections
than slots, so refusals meet releases; both caps can be the one that refuses.
The three deadlines are met in all orders by choosing ages around them. Two
channels are enough for anything one leaves to the next, three lines for opening
a prompt, replacing it and meeting what it left. Two sessions race for one file
and for the last room under the global cap; a session has room for one of two
payloads, which tells a cap that is checked from one that is not, and two errors
are enough to lose a staging file and then not to measure it. Four nodes are the
fewest with which a directory that has a child can be moved into another. Three
handles are needed to pass a budget of two files, and with one or two free nodes
the arena refuses a mirror at a directory, at the file, or not at all. In
`shell` three submissions are a file dropped, a script run from it and what that
left, or a document opened, filled and closed; a script that runs itself reaches
the nesting cap, and three `cat`s of a full file the output cap; one variable
more than the login's four fills the environment. Five bytes are a quoted
operator between two words, or an operator with its operand inside a
substitution, and seven an arithmetic region around a wide character; three bits
are enough for every wrap, and for the one quotient that overflows. A line of
three bytes is filled by one character and one letter, so that every edit and
completion meets the cap. Two commands are one that prepares a trap (a link, a
mode, a full arena, a directory moved) and one that meets it; `tar` and `cp` are
also checked on every tree these reach. The view `Apart` of that run leaves out
the record of the last command, which the properties only read in the step that
writes it. A header field of one component, with one more as its prefix, holds
the names of some of them and cuts the others. A window of two days in days of
three ticks lets a file expire while the process is down, while it runs and at a
rotation, and escape two sweeps.

Every property has a mutant in `PROJECT.json`: a plausible slip in the code (the
operators named `X_Slip` beside `X`) under which TLC finds the property violated
in the same run.

Where the code does not do what its own documentation says, a configuration
holds the property that the text states, and TLC answers with a behaviour of the
code that breaks it. Two of them are listed as runs:

| Run | The code | The text |
|---|---|---|
| `server_term` | the signal listener is rebuilt in each iteration; a SIGTERM in between is lost | docs/logging.md: "SIGTERM/SIGINT received; buffered log lines are flushed." |
| `session_subsystem` | a second `subsystem sftp` replaces the session without draining it | ssh.rs: "Every path that ends an SFTP transfer routes through here" |

The others can be run by hand (`tlc -config X.cfg M`):

| Configuration (module), property | The code | The text |
|---|---|---|
| `MCServerGrace` (`MCServer`), `LoginGraceHolds` | the watchdog starts only after the handshake, so until then the idle timeout, not the grace time, bounds a silent client | SECURITY.md: "a connection that has not logged in within 120 s is disconnected" |
| `MCQuarantineStale` (`MCQuarantine`), `ReportedIsOnDisk` | an orphaned `.partial` makes later uploads of the payload look stored | ssh.rs: "`AlreadyExists` is success, not an error" |
| `MCTransfersMirror` (`MCTransfers`), `ReportedPathIsReal` | the mirror of an upload goes through symlinks and files as if they were directories, and ends up where no path leads | ssh.rs: the reported path "must be where the file actually went" |
| `MCShellPayload` (`MCShell`), `PayloadsRun` | `sh -c LINE` only splits LINE into words, so its second command is an argument of the first | system.rs: "Three ways a payload arrives, all of which now run", `sh -c "cd /tmp; wget ...; ./x"` first |
| `MCShellHeredoc` (`MCShell`), `BodyReachesItsCommand` | the body is the stdin of the first stage of the line, whichever command the document was opened on | shell/mod.rs: "with the collected body as its stdin" |
| `MCShellBody` (`MCShell`), `BodyCapturesKept` | a substitution in a here-document body captures a download, then `execute` of the document's line clears it | shell/mod.rs: "whatever it captured is added to the outer line's captures rather than replacing them" |
| `MCShellIdentity` (`MCShell`), `RootIsRoot` | `sudo su` switches the user, then `sudo` restores the uid it saved: the session is called root without uid 0 | `su` "switches the session's effective identity, as a fresh login shell" |
| `MCTextBytes` (`MCText`), `BodiesAreWhole` | the body of an arithmetic region ends one byte before the last `)`, whatever that byte is: of `$((1)é)` it ends inside `é`, and the slice at shell/mod.rs:451 is no text | parser.rs: "Closing an arithmetic region takes two `)`, so the body never runs past its own start" |
| `MCFsCommandsCopy` (`MCFsCommands`), `CopyAppears` | `cp` asks whether there is a node left, not whether there are bytes: at the byte cap it exits 0 and there is no file | fs.rs, on that check: without it "the copy would exit 0 on a file that never appears" |
| `MCTextBound` (`MCText`), `BufferBounded` | a completion and a recalled history entry are taken whole, past `max_line` | line.rs: "the buffer and history are bounded" |

Smaller disagreements met while modelling.

*Network.* With `max_session_secs` below the grace time the session cap is
logged as `login_timeout`; a watchdog may fire between the client's departure
and its `abort`, and log a timeout for a session the client ended; a command
whose here-document is cut off is not logged (`OnlyEndsLoseCommands` says that
nothing else loses one); a line that leaves both a prompt and a display
(`passwd; top`) does not start the password collector; the rest of a frame after
`top` goes to the editor; a shell is interactive unless an exec request made it
otherwise, so `top` on a channel that never asked for a shell holds the screen
if it has a terminal, and if it has none the display stays in the shell and
appears with the first line after a later `pty-req`; the daily reset may make
one session rename another's unfinished file, and files stored between wipe and
restart survive; `add_dynamic_file` over a file keeps its bytes in
`content_bytes`, which therefore over-counts (`BytesCovered` is the direction
the cap needs); `close_channel` does not reset `pty_term`, so a later channel
that asked for no terminal gets the TERM of an earlier one; sessions that read
the global quarantine counter together each pass its check, and the store passes
the cap by at most what `OvershootBounded` says; a staging file that cannot be
removed and an entry the start cannot measure are counted by nobody, and that
much more fits (`leaked`); one SFTP session may hold twice `max_upload_bytes`
(`buffer_cap`, sftp.rs:60), where the table in SECURITY.md:150 has it once, and
`MemoryBounded` is about what the code allows; it does not cover the packets
that wait in `SftpSession.buf`, which nothing bounds (sftp.rs:164, 193) but how
much the client sends; requests left in the SFTP buffer when the answers reach
the cap wait for the client's next frame ("nothing is lost", sftp.rs) and are
thrown away if the channel ends first; an SCP target is not normalised, so that
a `..` in it is followed where `write_to_vfs` looks for a directory and made a
directory of that name by `mkdir_p` (ssh.rs:1162, vfs/mod.rs:371-374); an SCP
file that is cut off is dropped where an SFTP upload is captured; a directory
level past SCP's depth cap is not entered but is left again, so that the files
after it land one level too high (`MirrorsLand` says that they go nowhere else).

*Process.* A torn Ed25519 file fails every later start ("Always returns at least
the Ed25519 key"; `ProcessServes` says nothing else does). The persona is
"stable across restarts" only while both keys are on disk and can be read: an
RSA key that could not be written is made by a later start, and one that cannot
be read is skipped by the start that fails to, which serves Ed25519 alone; the
seed changes each time (`IdentityHolds`: between two identities, and only in a
start that met an error). An `exists()` that fails draws a key in vain, and
`create_new` refuses to overwrite the one that is there. The sweep drops every
error, so that a file may outlive the window for as long as deleting it fails
(`LogsAreKept` excepts the files the last sweep failed on). `max_log_files`
counts the file it opens, so a rotation takes files that are still in the
window, with `retention_days = 1` yesterday's log at midnight ("delete rotated
files older than N days"; `LogsAreKept` promises one day less). Public-key
attempts count towards `accept_after`, so "the second password works" may be the
first.

*Shell.* A line that exits skips the final cut of the output, and stdout and
stderr are each cut to the whole budget where the comment says they share it
(`CostBounded` has the bound that holds). A dup of a dup goes to the wrong
stream. An error in a later stage's redirection drops the earlier stages'
stderr. `cmd>out<in` joins words. The stderr of a substitution inside `sh -c` or
a here-document body is lost. A nested script recomputes whether stdout is a
terminal. `history -c` in a substitution clears the session's history, and `sh
-c exit` and `sudo exit` end the session. Unary signs recurse without counting
towards `MAX_DEPTH`. `export` and `unset` take the session's own names too, so
that `export USER=x` or `unset SSH_CLIENT` part the environment from the
identity (`SessionConsistent` compares the names whose last change was not the
client's), and at `MAX_ENV_VARS` a name that was unset cannot be set again, by
`cd` or `su` either. `userdel` leaves the group and shadow entries and `useradd`
ignores a failed write. `tee` and downloads ask for no write permission, and
exit 0 with no room.

*Editor.* A Tab that leaves a search with nothing to complete loses the redraw;
Escape leaves a search at once, so the rest of an arrow key becomes text; Meta
with a character outside ASCII drops its first byte; Backspace in a search takes
one byte.

*Filesystem commands.* `cp` and an extraction report success when a cap drops
part of what they make. A ustar header cuts what it cannot hold
(fs.rs:1268-1306): a name of over 100 bytes that no slash divides, a link
target, an owner of more than seven octal digits; a generated file comes back as
the file it read as; and a name a path cannot say does not come back.
`TarRoundTrip` is about the rest (`Storable`; the source says so of names only).
`cp -r .. d`, `cp -r / d` and `ln -s .. d` make children called `..` and the
empty name, which `ls` lists and no path reaches. `cp -r dir file` does not
replace, and `cp -r a a` copies what it is making until `MAX_COPY_DEPTH`. `ln
-sf` and the copy of a link remove the old entry before they find there is no
room. `mv` onto a directory with entries drops it. An archive or a download
written onto a directory turns it into a file in place, after which `mkdir -p`
in it exits 0 and makes nothing. `tar cf a .` followed by `tar xf a` reports an
error for the member `./`. Owner and mode of a link are not restored.

### Fairness and time

`server_slots` and `server_term` assume fairness only of what the
runtime schedules by itself: the accept loop's own steps once it has something
to do (`LoopSteps`), the timers and what they wake (`TimerSteps`), and the
teardown of a task (`TeardownSteps`). Nothing is assumed of clients, of the
supervisor, or of which branch a `select!` takes when both are ready.
`ProcessServes` in `sensor` assumes that the supervisor starts what ended (`Restart=always` in
the unit file) and that a start that is not interrupted gets on with its keys;
kills and disk errors are bounded by `MaxTroubles`, so they stop, which is what
"serves again" means.

A timer that is due fires before the connection's clock moves on. That is the
one assumption about real time: the runtime is not starved for a whole time
unit. russh is external: its inactivity timeout ends a handshake, and its
`disconnect` ends a running session.

## 4. Theorems

All proofs are checked to the last leaf by TLAPS; the assumptions are the named
`ASSUME`s of the modules (what `Config::validate` guarantees, finiteness of the
sets of actors, at least one session on the store, distinctness of the null
values, and `NamesAssumption`: names of programs and files decode, as Rust's
`String`s do), which TLC evaluates in every run.

*Registry.* `LimiterConsistent` (from `LimiterTypeCorrect`, `LimiterAccounts`,
`LimiterCapsHold` and `LimiterMapBounded`), `LimiterRefinesSlots`, and `ServeRefusalsJustified` for one
acceptor. `Accounting` is the heart of the inductive invariant: the caps follow
because a guard is counted in both cells, and the cardinalities move by one in
each step (lemmas about adding and removing one element of a finite set). The
refinement maps a held guard to a taken slot; reservations, refusals and the
second half of a release are stutters.

*Server.* `ServerUsesLimiter`: every step of the server is a step of the
registry or leaves it alone, so the registry's theorems carry over
(`ServerRegistryConsistent`, `ServerRefinesSlots`, `ServerCapsHold`). The rest
follow from `ServerInv`: types, `SlotFollowsHandler`,
what each watchdog state says about the age and the login (`WatchdogInv`), what
the log shows at each stage (`LogInv`) and where an attempt in `try_acquire` can
be (`LoopInv`); `ServerTimeoutsHold` and `ServerLogIsTrue` combine them.
`LifetimeBounded` needs `WatchdogInv`: a running session always
has a watchdog that has yet to fire or is about to disconnect it.

*Session handler.* The fields have to be described as a whole: `SessionInv` says
what they tell of each other between any two steps (`GoodHandler`) and what the
branch of `data` in progress tells of them (`RouteInv`: the frame is of the
active channel, and a mode chosen at its start still holds). Every step has one
of two shapes, the channel ends or the handler stays on it, and a lemma for each
shape carries the steps. `ChannelsStayIsolated`, `TerminalAlwaysFollowsState`,
`LateClosesAreHarmless` and `CommandsAreLostOnlyAtEnds` (a document that opens
another one stays parked and is not lost) follow for any number of channels,
lines and uploads. `UploadsAreKept` is false as it stands (run
`session_subsystem`), and the proofs say exactly how: `OneSubsystemKeepsUploads`
under `MaxSubsystems <= 1`, and `OnlyASecondSubsystemLosesUploads` without it,
that no other step loses one.

*Quarantine.* `SessionDiskIsBounded` needs the state between the check and the
count: what a session wrote and has not counted yet is within what it was
admitted for. `StoreIsContentAddressed` rests on `OwnerInv`: the exclusive
creation gives each staging file one owner until it renames or removes it.
`TheCalmStoreIsHonest` adds who will still make a reported path true (`Held`:
the owner of the staging file that made a later upload believe the payload is
there). `OvershootIsBounded` is an accounting of the disk: a byte that belongs
to no owner's staging file was counted or is about to be (`SettledInv`), an
owner's file is within what its session was admitted for, and the counter with
what is in flight passes the cap by at most one upload for every other session
(`RoomInv`). The errors the code ignores are in the account: `missed` is what
this process does not know of, `leaked` what any process ever missed, and the
bound is the cap, one upload for every other session and `leaked`. The sums are
over any finite sets of sessions and payloads.

*Filesystem.* `VfsTreeSound` (from `VfsTypeCorrect`, `VfsLinksConsistent` and
`VfsAcyclic`) for any caps. Acyclicity is stated as "no non-empty set of nodes without the root holds
all its parents", which a rename can break only if the moved node is an ancestor
of its new parent: the check the code makes. `VfsCapsKept` is `VfsBytesCovered`
(one file's change of the sum against `content_bytes`' own) and
`VfsDepthBounded`. The depth is not inductive as the longest walk from the root:
a detached subtree can be moved back, so every chain from a node down to what is
below it is bounded (`ShallowIn`), and a move makes chains out of one above the
new parent and one below the moved node, the two numbers `rename` adds up.
`RenamesKeepNodes` compares what the root reaches before and after a move; both
are least closed sets, so it is enough to show a set closed.

*Transfers.* `TransfersCapturesTrue` (`CapturesAreComplete` and
`ScpRecordsAreTrue`) needs what the buffers hold in the middle of a transfer:
`HandleInv` (what is kept of a write handle is within its length, and is all
that was sent unless the flag is set) and `FileInv` (the kept part of an SCP
body is the prefix received so far, cut at the cap). The one hard step is WRITE,
lemma `WrittenKeeps`: the file's cap, the session's budget and sparse offsets in
one case distinction. `WritesAreUploaded` looks at each way a handle can
disappear. None of these needs to know what the mirror does to the tree. The
others do, and rest on `TransfersInv`, which adds `GoodArena(fs)`, the arena's
invariant of `VfsProofs`: a lookup along a path of any length ends at a node of
the arena or nowhere, and `mkdir_p`, the mirror of one upload and the drain of
all of them lead from good arenas to good arenas (`TransfersKeepTheTree`).
`MemoryIsBounded` follows because what a read handle is charged is the length of
such a node, and the charge is a sum that each request moves by what it changes
of one handle. `MirrorsAlwaysLand` is about a path seen from both ends:
`mkdir_p` goes down from the root, `path_of` comes up by the parents. `Placed`
is the way down as a walk of nodes; a mirror leaves every node where it is
(`Keeps`), the node it writes is placed at the upload's path, and what is placed
at a path has that path (`PlacedIsPath`). `LandInv` says that the upload is new
to the step, that a sink that did not stray is where the client believes it is,
and that one that did is under some of the client's directories in their order
(`Within`). Nothing is assumed of the target: a `..` in it is a step to the
parent for `resolve` (`StepTo`) and a name for `mkdir_p`.

*Process and login.* `LogsAreAlwaysKept` needs the sweep's timer (`LogInv`: it
is never late, and what is on disk was in its window at the last sweep unless
that sweep failed on it), `IdentityAlwaysHolds` that a key in memory or once
shown is the one in its file and that a start without an error loads what is
there (`IdentityInv`), and `AcceptAfterWorks` that whoever is not in has given
no password at or after `accept_after`. `ProcessServes` is liveness, and TLC's.

*Line editor.* `EditorStaysConsistent` and `EditorIsSeen`, for any sequence of
keys, any caps, programs and directories. The state says two things of every
text. `Whole`, the fixed point of `from_utf8_lossy`, is the property, and has no
use in a proof as it stands: it is a recursion over the string. `Sound` says the
same byte by byte (what each byte asks of its neighbours), and `WholeIsSound`
that they agree, by the recursive function's own equation (`DecodingAt`) and a
least counterexample from the end. Sound texts concatenate and can be cut at a
boundary (`SoundConcat`, `SoundCut`), and every place the editor computes is one
(`PrevCharPlace`, `NextCharPlace`, `BlankPlace`, `FitPlace`). Once the cap has
cut a character, what is left is weaker and still enough: every continuing byte
follows the byte that leads it (`Clean`), so the cursor stands on a boundary all
the same. Between the two bytes of a character the line is half (`HalfLine`): it
is sound but for the byte before the cursor. `EditorInv` is these three cases
with the indices; there is one lemma per operation and one for each of the four
states of the key decoder. For the screen, `ScreenInv` adds that search and an
escape sequence exclude each other. Columns add up over a cut (`ColumnsLeft`),
which is why a redraw from the end of the line lands on the cursor; a move over
one character moves by one column (`PrevColumn`, `NextColumn`). For completion,
what is completed starts with the word (`CompleteCommandAdds`,
`CompletePathAdds`: a common prefix is cut at a boundary, and the word ends at
one), and the cut of the rest keeps all but two bytes of the room
(`FitIsTight`). Two attempts failed for a good reason and corrected
`CompletionExtends`: a word that does not decode is completed from its decoded
form, so only what decodes before the cursor must still stand there; and a
three-byte character can leave two bytes of the line unused, not one. Instances
with a line of three bytes had shown neither.

*Sums and walks.* The budget, the disk and the arena's bytes are folds over
finite sets, and paths are walked by recursive functions. `FoldTheorems` has
what the proofs need of both, by least counterexamples instead of an induction
rule: a sum moves by what one element moves, sums are monotone and add up, a
walk of any length exists and stays in the set its steps stay in.

Model-checked only. Liveness (`SlotsComeBack`, `ProcessServes`) is out of the
prover's reach. `Parser`, `Commands`, `Shell` and `FsCommands` are `RECURSIVE`
over lines, scripts and trees, in which the prover has no arithmetic:
`CapturesKept`, `CostBounded`, `SessionConsistent`, `RedirectionsRight`,
`LinesKeepTheirMeaning`, `ArithmeticIsGrammar`, `TreeIsWalkable`,
`TarRoundTrip`, `StatusIsTrue`, `OnlyTheNamed` and `CopyIsFaithful` stay with
TLC.

## 5. Plan

Done, in this order: registry, server, quarantine, arena, session handler, file
transfers, parser, shell and its commands, line editor, filesystem commands, the
process around the listener, authentication; proofs of every safety property of
the modules without `RECURSIVE` operators.

Left: `TreeIsWalkable` for any tree. `mkdir -p`, `rmdir -p`, `tar_dest` and the
extraction are walks over a list and could be recursive functions of a position,
as `Mirror`'s lookups are; `deep_copy` and the resolution of links thread the
whole world through a recursion over trees, and an archive can hold archives, so
that there is no set of worlds for a recursive function to range over. They would
have to be written with an explicit stack, which the code does not have.

## 6. Not modelled

russh itself (its framing, key exchange and per-channel flow control) is
external; so are tokio's scheduler, the rolling log appender and its lossy
queue. Commands that only produce text from the state (`ls`, `ps`, `grep`,
`awk`, `apt` and the rest of `commands/text.rs`, `system.rs`, `net.rs` and
`pkg.rs`), banners, persona and clock, the snapshot that fills the initial
filesystem, and TOML parsing have no state of their own: they are functions from
the state to text, and are left to the unit tests. Modification times are left
out everywhere.

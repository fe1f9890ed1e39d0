------------------------------ MODULE Commands ------------------------------
(***************************************************************************)
(* The state of one Shell (shell/mod.rs) and the commands that change it   *)
(* without running another command: identity and working directory,        *)
(* environment, account files, captured downloads, prompts and displays    *)
(* (commands/fs.rs, system.rs, admin.rs, net.rs, text.rs).                 *)
(*                                                                         *)
(* Text is a sequence of lines and its size is the number of lines.  A     *)
(* line is a token; so is an operand.  A handler takes the shell and its   *)
(* arguments and gives the shell it leaves with a CommandResult.  A node   *)
(* is named by the directory and the name it was created under: nothing    *)
(* here renames or unlinks, so the name is the node.                       *)
(***************************************************************************)
EXTENDS Naturals, Sequences, SequencesExt, FiniteSets

CONSTANTS
    Login,          \* the user who logs in
    Home,           \* home directory of every user
    Class,          \* of every directory: "private", "system", "home" or "shared"
    Abs,            \* absolute operands: the directory and name they denote
    Assigned,       \* operands of the form NAME=VALUE: the name and the value
    Changed,        \* of every user, the /etc/shadow line with a new secret
    InitFiles,      \* the files of the image
    MaxOutput,      \* MAX_COMMAND_OUTPUT_BYTES
    MaxNested,      \* MAX_NESTED_COMMANDS
    MaxScriptLines, \* MAX_SCRIPT_LINES
    MaxHistory,     \* MAX_HISTORY
    MaxVars,        \* MAX_ENV_VARS
    MaxNodes,       \* MAX_VFS_NODES, of which the model counts files and directories
    MaxBytes        \* MAX_VFS_BYTES

ASSUME CommandsAssumption ==
    /\ {MaxOutput, MaxNested, MaxScriptLines, MaxHistory, MaxNodes, MaxBytes} \subseteq Nat
    /\ MaxVars \in Nat \ 0 .. 3
    /\ "root" \in DOMAIN Home

Users == DOMAIN Home
Notice == "... (output truncated)"
LOGOUT == "logout"
None == [none |-> TRUE]
NoNode == <<"none", "none">>

(* An operand that is one line is that line.  Something optional is a        *)
(* sequence of at most one.                                                  *)
Take(text, n) == SubSeq(text, 1, IF n < Len(text) THEN n ELSE Len(text))
Tok(word) == IF Len(word) = 1 THEN word[1] ELSE "several lines"

-----------------------------------------------------------------------------
(* Env::login, and the identity a login gives: `root` is uid 0.  SSH stands  *)
(* for the connection's own variables, X and Y for any other name; a         *)
(* variable without a value is not set.                                      *)
LoginEnv(user, home) ==
    [USER |-> <<user>>, HOME |-> <<home>>, PWD |-> <<home>>,
     SSH |-> <<>>, X |-> <<>>, Y |-> <<>>]

(* `touched` is history: the names whose last change was the client's.       *)
Identity(user, home) ==
    [user |-> user, root |-> (user = "root"), cwd |-> home, prev |-> home, home |-> home,
     env |-> LoginEnv(user, home), touched |-> {}]

(* Env::set: a full environment takes no new name. *)
EnvSet(id, name, value) ==
    IF id.env[name] = <<>> /\ Cardinality({n \in DOMAIN id.env : id.env[n] # <<>>}) >= MaxVars
    THEN id ELSE [id EXCEPT !.env[name] = value, !.touched = @ \ {name}]

NoPending == [kind |-> "none"]

(* with_persona.  `made` and `peak` are history: the captures a line made    *)
(* and the deepest nesting it reached.                                       *)
NewShell(interactive) ==
    [id |-> Identity(Login, Home[Login]), files |-> InitFiles,
     dirs |-> DOMAIN Class \ {Home[u] : u \in Users \ {"root", Login}},
     last |-> 0, nesting |-> 0, depth |-> 0, budget |-> MaxOutput, substErr |-> <<>>,
     stdin |-> <<>>, tty |-> TRUE, interactive |-> interactive, history |-> 0,
     captures |-> <<>>, pending |-> NoPending, screen |-> "none",
     docIn |-> <<>>, docLog |-> None, made |-> 0, peak |-> 0]

(* CommandResult, next to the shell the command leaves. *)
Result(s, out, err, status) ==
    [sh |-> s, out |-> out, err |-> err, status |-> status, exit |-> FALSE]
Ok(s, out) == Result(s, out, <<>>, 0)
Err(s, what, status) == Result(s, <<>>, <<what>>, status)
Exiting(r) == [r EXCEPT !.exit = TRUE]

(* truncate_stream, and truncate: one budget for the two streams. *)
TruncateStream(text, budget) ==
    IF Len(text) <= budget THEN text ELSE Append(Take(text, budget), Notice)

Monus(a, b) == IF a > b THEN a - b ELSE 0
Truncate(r) ==
    LET out == TruncateStream(r.out, MaxOutput)
    IN  [r EXCEPT !.out = out, !.err = TruncateStream(@, Monus(MaxOutput, Len(out)))]

Capture(s, what) == [s EXCEPT !.captures = Append(@, what), !.made = @ + 1]

-----------------------------------------------------------------------------
(* The filesystem as the commands use it.                                    *)

Resolve(s, name) == IF name \in DOMAIN Abs THEN Abs[name] ELSE <<s.id.cwd, name>>

(* resolve_parent: NoNode when the directory does not exist. *)
ResolveParent(s, name) ==
    IF Resolve(s, name)[1] \in s.dirs THEN Resolve(s, name) ELSE NoNode

Exists(s, node) == node \in DOMAIN s.files
DevNull == <<"/dev", "null">>

(* Metadata::writable_by, readable_by and executable_by on the modes used. *)
FileWritable(s, node) == s.id.root \/ ~s.files[node].root
FileReadable(s, node) == s.id.root \/ ~s.files[node].private
DirWritable(s, dir)   == s.id.root \/ Class[dir] \in {"home", "shared"}
DirSearchable(s, dir) == s.id.root \/ Class[dir] # "private"

RECURSIVE SizeOf(_, _)
SizeOf(files, S) ==
    IF S = {} THEN 0
    ELSE LET f == CHOOSE f \in S : TRUE IN Len(files[f].text) + SizeOf(files, S \ {f})
Bytes(s) == SizeOf(s.files, DOMAIN s.files)
IsFull(s) == Cardinality(DOMAIN s.files) + Cardinality(s.dirs) >= MaxNodes

(* Vfs::write_file: refused as a whole when the content cap would be passed. *)
Fits(s, node, text) == Bytes(s) - Len(s.files[node].text) + Len(text) <= MaxBytes
WriteFile(s, node, text, append) ==
    LET all == IF append THEN s.files[node].text \o text ELSE text
    IN  IF Fits(s, node, all) THEN [s EXCEPT !.files[node].text = all] ELSE s
Written(s, node, text, append) ==
    Fits(s, node, IF append THEN s.files[node].text \o text ELSE text)

(* Vfs::add_file: replaces contents and owner, or adds a node. *)
AddFile(s, node, text) ==
    LET file == [root |-> s.id.root, private |-> FALSE, text |-> text]
        old  == IF Exists(s, node) THEN Len(s.files[node].text) ELSE 0
    IN  IF Bytes(s) - old + Len(text) > MaxBytes \/ (~Exists(s, node) /\ IsFull(s)) THEN s
        ELSE [s EXCEPT !.files = [f \in DOMAIN @ \cup {node} |->
                                     IF f = node THEN file ELSE s.files[f]]]

(* read_text and write_text of admin.rs: no permission is asked for. *)
ReadText(s, node) == IF Exists(s, node) THEN s.files[node].text ELSE <<>>
WriteText(s, node, text) ==
    IF Exists(s, node) THEN WriteFile(s, node, text, FALSE)
    ELSE IF IsFull(s) THEN s ELSE AddFile(s, node, text)
TextWritten(s, node, text) ==
    IF Exists(s, node) THEN Written(s, node, text, FALSE) ELSE ~IsFull(s)

-----------------------------------------------------------------------------
(* Identity. *)

(* ensure_home: made with its dotfiles, or `/` when the arena is full. *)
EnsureHome(s, user) ==
    LET home == Home[user]
        made == [s EXCEPT !.dirs = @ \cup {home}, !.id.root = (user = "root")]
    IN  IF home \in s.dirs THEN [sh |-> s, home |-> home]
        ELSE IF IsFull(s) THEN [sh |-> s, home |-> "/"]
        ELSE [sh |-> AddFile(AddFile(made, <<home, ".bashrc">>, <<"dot">>),
                             <<home, ".profile">>, <<"dot">>), home |-> home]

(* switch_user: a fresh login with the variables of the connection as they   *)
(* stand, those the client changed included.                                 *)
SwitchUser(s, user) ==
    LET e   == EnsureHome(s, user)
        id  == [Identity(user, e.home) EXCEPT !.env = LoginEnv(user, Home[user])]
        ssh == s.id.env.SSH
    IN  [e.sh EXCEPT !.id = [(IF ssh = <<>> THEN id ELSE EnvSet(id, "SSH", ssh))
                                 EXCEPT !.touched = s.id.touched \cap {"SSH"}]]

(* su: root switches at once, anyone else is asked for a password. *)
Su(s, args) ==
    LET user == IF args = <<>> THEN "root" ELSE Tok(args[1])
    IN  IF s.id.root THEN Ok(SwitchUser(s, user), <<>>)
        ELSE Ok([s EXCEPT !.pending = [kind |-> "su", target |-> user]], <<"Password: ">>)

(* sudo -i and sudo -s without a command: root for the rest of the session,  *)
(* -s in the caller's directory and with the caller's home.                  *)
SudoShell(s, keep_cwd) ==
    LET root == SwitchUser(s, "root")
    IN  IF keep_cwd
        THEN [root EXCEPT !.id = [EnvSet(EnvSet(@, "PWD", <<s.id.cwd>>), "HOME", <<s.id.home>>)
                                      EXCEPT !.cwd = s.id.cwd, !.prev = s.id.cwd,
                                             !.home = s.id.home]]
        ELSE root

(* cd: home, back (announced), or an absolute directory. *)
Cd(s, args) ==
    LET back == args # <<>> /\ Tok(args[1]) = "-"
        dir  == IF args = <<>> THEN s.id.home ELSE IF back THEN s.id.prev ELSE Tok(args[1])
    IN  IF dir \notin s.dirs \/ ~DirSearchable(s, dir) THEN Err(s, "cd: refused", 1)
        ELSE Ok([s EXCEPT !.id = [EnvSet(@, "PWD", <<dir>>)
                                      EXCEPT !.prev = s.id.cwd, !.cwd = dir]],
                IF back THEN <<dir>> ELSE <<>>)

(* export and unset take every name, the session's own included. *)
Export(s, args) ==
    LET set(id, word) ==
            IF Tok(word) \notin DOMAIN Assigned THEN id
            ELSE LET a    == Assigned[Tok(word)]
                     next == EnvSet(id, a.name, a.value)
                 IN  IF next = id THEN id
                     ELSE [next EXCEPT !.touched = @ \cup {a.name}]
    IN  Ok([s EXCEPT !.id = FoldLeft(set, @, args)], <<>>)

Unset(s, args) ==
    LET names == {Tok(args[k]) : k \in DOMAIN args} \cap DOMAIN s.id.env
    IN  Ok([s EXCEPT !.id.env = [n \in DOMAIN @ |-> IF n \in names THEN <<>> ELSE @[n]],
                     !.id.touched = @ \cup names], <<>>)

-----------------------------------------------------------------------------
(* Readers and writers. *)

Echo(s, args) == Ok(s, IF args = <<>> \/ args[1] = <<>> THEN <<"">> ELSE args[1])

Stdin(s) == IF s.stdin = <<>> THEN <<>> ELSE s.stdin[1]

Cat(s, args) ==
    LET node == Resolve(s, Tok(args[1]))
    IN  IF args = <<>> THEN Ok(s, Stdin(s))
        ELSE IF ~Exists(s, node) \/ ~FileReadable(s, node) THEN Err(s, "cat: refused", 1)
        ELSE Ok(s, s.files[node].text)

(* tee FILE: no permission is asked for, as in write_text. *)
Tee(s, args) ==
    LET node == ResolveParent(s, Tok(args[1]))
        full == IF Exists(s, node) THEN ~Written(s, node, Stdin(s), FALSE) ELSE IsFull(s)
    IN  IF node = NoNode \/ full THEN Result(s, Stdin(s), <<"tee: refused">>, 1)
        ELSE Ok(WriteText(s, node, Stdin(s)), Stdin(s))

(* wget URL: the placeholder is dropped in the working directory, whoever    *)
(* may write there, and the fetch is captured whether or not it landed.      *)
Wget(s, args) ==
    Ok(Capture(AddFile(s, <<s.id.cwd, Tok(args[1])>>, <<"payload">>),
               <<"download", Tok(args[1])>>), <<>>)

(* nc HOST PORT and python3 -c with an endpoint: captured, then refused. *)
Connect(s, args) == Result(Capture(s, <<"download", Tok(args[1])>>), <<>>, <<"refused">>, 1)

(* top, vi, nano, nc -l: the terminal is taken only from an interactive      *)
(* shell whose running command writes to it; top dumps otherwise.            *)
OpenScreen(s, kind) ==
    IF s.interactive /\ s.tty THEN Ok([s EXCEPT !.screen = kind], <<>>)
    ELSE Ok(s, IF kind = "top" THEN <<"top dump">> ELSE <<>>)

HistoryCmd(s, args) ==
    IF args # <<>> /\ Tok(args[1]) = "-c" THEN Ok([s EXCEPT !.history = 0], <<>>)
    ELSE Ok(s, [k \in 1..s.history |-> "entry"])

-----------------------------------------------------------------------------
(* Accounts: the lines of /etc/passwd and /etc/group are names, a line of    *)
(* /etc/shadow is a name (locked) or the user's Changed line.                *)

PASSWD == <<"/etc", "passwd">>
GROUP  == <<"/etc", "group">>
SHADOW == <<"/etc", "shadow">>

EntryOf(line, user) == line = user \/ (user \in DOMAIN Changed /\ line = Changed[user])
Listed(s, node, user) == \E k \in DOMAIN ReadText(s, node) : EntryOf(ReadText(s, node)[k], user)

(* A text is written back with a final newline even when no line is left. *)
AtLeastBlank(text) == IF text = <<>> THEN <<"">> ELSE text

SetShadowEntry(s, user) ==
    LET shadow == ReadText(s, SHADOW)
    IN  WriteText(s, SHADOW, AtLeastBlank(
            [k \in DOMAIN shadow |-> IF EntryOf(shadow[k], user) THEN Changed[user]
                                     ELSE shadow[k]]))

Passwd(s, args) ==
    LET user == IF args = <<>> THEN s.id.user ELSE Tok(args[1])
    IN  IF (~s.id.root /\ user # s.id.user) \/ ~Listed(s, PASSWD, user)
        THEN Err(s, "passwd: refused", 1)
        ELSE Ok([s EXCEPT !.pending = [kind |-> "new", target |-> user, first |-> <<>>]],
                <<"New password: ">>)

(* chpasswd: a line of stdin that is a user's name stands for `user:secret`. *)
RECURSIVE ChpasswdLines(_, _, _)
ChpasswdLines(s, text, err) ==
    IF text = <<>> THEN Result(s, <<>>, err, IF err = <<>> THEN 0 ELSE 1)
    ELSE IF text[1] = "" THEN ChpasswdLines(s, Tail(text), err)
    ELSE IF ~(text[1] \in DOMAIN Changed /\ Listed(s, PASSWD, text[1]))
    THEN ChpasswdLines(s, Tail(text), Append(err, "chpasswd: bad line"))
    ELSE ChpasswdLines(SetShadowEntry(Capture(s, <<"password", text[1]>>), text[1]),
                       Tail(text), err)

Chpasswd(s) ==
    IF \A k \in DOMAIN Stdin(s) : Stdin(s)[k] = "" THEN Ok(s, <<>>)
    ELSE IF ~s.id.root THEN Err(s, "chpasswd: refused", 1)
    ELSE ChpasswdLines(s, Stdin(s), <<>>)

(* useradd: the passwd entry must be written, the other two may be refused. *)
Useradd(s, args) ==
    LET user   == Tok(args[1])
        listed == Append(ReadText(s, PASSWD), user)
        s1     == WriteText(s, PASSWD, listed)
        s2     == WriteText(s1, GROUP, Append(ReadText(s1, GROUP), user))
    IN  IF ~s.id.root THEN Err(s, "useradd: refused", 1)
        ELSE IF Listed(s, PASSWD, user) THEN Err(s, "useradd: exists", 9)
        ELSE IF ~TextWritten(s, PASSWD, listed) THEN Err(s, "useradd: cannot open", 1)
        ELSE Ok(WriteText(s2, SHADOW, Append(ReadText(s2, SHADOW), user)), <<>>)

(* userdel: only the passwd entry goes. *)
Userdel(s, args) ==
    LET user == Tok(args[1])
    IN  IF ~s.id.root THEN Err(s, "userdel: refused", 1)
        ELSE IF ~Listed(s, PASSWD, user) THEN Err(s, "userdel: no such user", 6)
        ELSE Ok(WriteText(s, PASSWD, AtLeastBlank(
                    SelectSeq(ReadText(s, PASSWD), LAMBDA l : ~EntryOf(l, user)))), <<>>)

Groupadd(s, args) ==
    LET group == Tok(args[1])
    IN  IF ~s.id.root THEN Err(s, "groupadd: refused", 1)
        ELSE IF Listed(s, GROUP, group) THEN Err(s, "groupadd: exists", 9)
        ELSE Ok(WriteText(s, GROUP, Append(ReadText(s, GROUP), group)), <<>>)

(* exit: the last status or a number; the farewell only when interactive. *)
Exit(s, args) ==
    Exiting(Result(s, IF s.interactive THEN <<LOGOUT>> ELSE <<>>, <<>>,
                   IF args = <<>> THEN s.last ELSE 3))
=============================================================================

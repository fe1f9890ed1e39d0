------------------------------- MODULE MCShell ------------------------------
(* A session of a user who is not root: three lines and answers out of a     *)
(* repertoire chosen so that scripts, substitutions, redirections, pipes,    *)
(* identities and account files meet, with caps small enough to be reached.  *)
EXTENDS Shell

W(words) == [k \in DOMAIN words |-> Lit(words[k])]
Sub(line) == [kind |-> "sub", of |-> line]
X == [kind |-> "var", of |-> "X"]

Cmd(words) == [words |-> W(words), redirs |-> <<>>, bad |-> FALSE]
Into(stage, redirs) == [stage EXCEPT !.redirs = redirs]
File(stream, path, append) ==
    [stream |-> stream, dup |-> "none", path |-> Lit(path), append |-> append]
Onto(stream, dup) == [stream |-> stream, dup |-> dup, path |-> Lit("none"), append |-> FALSE]
Seg(run_if, stages) == [run_if |-> run_if, stages |-> stages]
Run(stages) == [doc |-> None, segments |-> <<Seg("Always", stages)>>]
Chain(segments) == [doc |-> None, segments |-> segments]

One(words) == Run(<<Cmd(words)>>)
EchoSub(line) == Run(<<[Cmd(<<"echo">>) EXCEPT !.words = @ \o <<Sub(line)>>]>>)
Doc(line, command, expand, into) ==
    [line EXCEPT !.doc = [command |-> command, expand |-> expand, into |-> into]]

InF == <<"/tmp", "f">>

Lines ==
    (* one command *)
    "echo a"        :> One(<<"echo", "a">>)                                      @@
    "ls"            :> One(<<"ls">>)                                             @@
    "cd /tmp"       :> One(<<"cd", "/tmp">>)                                     @@
    "cd"            :> One(<<"cd">>)                                             @@
    "su"            :> One(<<"su">>)                                             @@
    "su v"          :> One(<<"su", "v">>)                                        @@
    "sudo -s"       :> One(<<"sudo", "-s">>)                                     @@
    "sudo su"       :> One(<<"sudo", "su">>)                                     @@
    "export X Y"    :> One(<<"export", "X=a", "Y=a">>)                           @@
    "export USER"   :> One(<<"export", "USER=a", "Z">>)                          @@
    "unset SSH"     :> One(<<"unset", "SSH">>)                                   @@
    "unset PWD"     :> One(<<"unset", "PWD">>)                                   @@
    "exit"          :> One(<<"exit">>)                                           @@
    "top"           :> One(<<"top">>)                                            @@
    "wget u"        :> One(<<"wget", "u">>)                                      @@
    "sh f"          :> One(<<"sh", "/tmp/f">>)                                   @@
    "passwd"        :> One(<<"passwd">>)                                         @@
    "useradd n"     :> One(<<"sudo", "useradd", "n">>)                           @@
    "userdel n"     :> One(<<"sudo", "userdel", "n">>)                           @@
    "groupadd n"    :> One(<<"sudo", "nohup", "groupadd", "n">>)                 @@
    "sh -c wget u"  :> One(<<"sh", "-c", "wget u">>)                             @@
    "sh -c cd; wget" :> One(<<"sh", "-c", "cd; wget">>)                          @@
    (* lists, pipes and redirections *)
    "cd - > f"      :> Run(<<Into(Cmd(<<"cd", "-">>), <<File("Stdout", "f", FALSE)>>)>>) @@
    "wget; exit"    :> Chain(<<Seg("Always", <<Cmd(<<"wget", "u">>)>>), Seg("AndIf", <<Cmd(<<"exit">>)>>)>>) @@
    "cd; wget"      :> Chain(<<Seg("Always", <<Cmd(<<"cd", "/tmp">>)>>),
                               Seg("Always", <<Cmd(<<"wget", "u">>)>>)>>)        @@
    "ls || nc"      :> Chain(<<Seg("Always", <<Cmd(<<"ls">>)>>), Seg("OrIf", <<Cmd(<<"nc", "h">>)>>),
                               Seg("AndIf", <<Cmd(<<"false">>)>>)>>)             @@
    "ls &&"         :> Chain(<<Seg("Always", <<Cmd(<<"true">>)>>), Seg("AndIf", <<>>)>>) @@
    "cat f f f"     :> Chain([k \in 1..3 |-> Seg("Always", <<Cmd(<<"cat", "/tmp/f">>)>>)]) @@
    "drop self"     :> Run(<<Into(Cmd(<<"echo", "sh f">>), <<File("Stdout", "/tmp/f", FALSE)>>)>>) @@
    "drop wget"     :> Run(<<Into(Cmd(<<"echo", "wget u">>), <<File("Stdout", "/tmp/f", TRUE)>>)>>) @@
    "drop sub"      :> Run(<<Into(Cmd(<<"echo", "echo $(wget)">>), <<File("Stdout", "/tmp/f", TRUE)>>)>>) @@
    "cat f | sh"    :> Run(<<Cmd(<<"cat", "/tmp/f">>), Cmd(<<"sh">>)>>)          @@
    "n | chpasswd"  :> Run(<<Cmd(<<"echo", "n">>), Cmd(<<"sudo", "chpasswd">>)>>) @@
    "u | xargs wget" :> Run(<<Cmd(<<"echo", "u">>), Cmd(<<"xargs", "wget">>)>>)  @@
    "ls | tee"      :> Run(<<Into(Cmd(<<"ls">>), <<Onto("Stderr", "Stdout")>>),
                             Cmd(<<"tee", "/tmp/f">>)>>)                         @@
    "ls &> f"       :> Run(<<Into(Cmd(<<"ls">>), <<File("Both", "/tmp/f", FALSE)>>)>>) @@
    "top > /etc"    :> Run(<<Into(Cmd(<<"top">>), <<File("Stdout", "/etc/x", FALSE)>>)>>) @@
    "top | cat"     :> Run(<<Cmd(<<"top">>), Cmd(<<"cat">>)>>)                   @@
    "bad"           :> Run(<<Cmd(<<"ls">>), [Cmd(<<"cat">>) EXCEPT !.bad = TRUE]>>) @@
    (* substitutions *)
    "echo $(wget)"  :> EchoSub("cd; wget")                                       @@
    "echo $($())"   :> EchoSub("echo $(cat)")                                    @@
    "echo $(su)"    :> EchoSub("sudo -s")                                        @@
    "echo $(sh f)"  :> EchoSub("sh f")                                           @@
    "echo $(cat)"   :> EchoSub("cat f f f")                                      @@
    "echo $(exit)"  :> EchoSub("wget; exit")                                     @@
    "$(ls) > $X"    :> Run(<<[words |-> <<Sub("ls")>>, bad |-> FALSE,
                              redirs |-> <<[File("Stdout", "f", FALSE) EXCEPT !.path = X]>>]>>) @@
    "sh -c $()"     :> One(<<"sh", "-c", "echo $(wget)">>)                       @@
    (* here-documents *)
    "cat > f"       :> Run(<<Into(Cmd(<<"cat">>), <<File("Stdout", "/tmp/f", FALSE)>>)>>) @@
    "cat > f <<E"   :> Doc(One(<<"cat", "<<", "E">>), "cat > f", TRUE, InF)      @@
    "cd; cat > f"   :> Chain(<<Seg("Always", <<Cmd(<<"cd", "/tmp">>)>>),
                               Seg("Always", <<Into(Cmd(<<"cat">>),
                                                <<File("Stdout", "/tmp/f", FALSE)>>)>>)>>) @@
    "cd; cat > f <<E" :> Doc(One(<<"cat", "<<", "E">>), "cd; cat > f", FALSE, InF)

(* What is typed: everything but the lines that serve others. *)
MCTyped == DOMAIN Lines \ {"cat > f", "cd; cat > f", "cd; cat > f <<E", "sudo su", "sh -c cd; wget"}
MCTypedSudo == {"echo a", "cd", "sudo -s", "sudo su", "su v", "passwd", "useradd n"}
MCTypedHeredoc == {"echo a", "cat > f <<E", "cd; cat > f <<E", "cd /tmp"}
MCTypedPayload == {"echo a", "cd; wget", "sh -c wget u", "sh -c cd; wget"}

MCAnswers == {"wget u", "E", "$(ls)", "$(wget)"}
MCBodySub == "$(ls)" :> "ls" @@ "$(wget)" :> "wget u"

MCHome == "root" :> "/root" @@ "u" :> "/home/u" @@ "v" :> "/home/v"
MCClass == "/" :> "system" @@ "/root" :> "private" @@ "/etc" :> "system" @@ "/dev" :> "system"
           @@ "/tmp" :> "shared" @@ "/home/u" :> "home" @@ "/home/v" :> "home"
MCAbs == "/tmp/f" :> InF @@ "/etc/x" :> <<"/etc", "x">> @@ "/no/x" :> <<"/no", "x">>
         @@ "/dev/null" :> DevNull
MCAssigned == [t \in {"X=a", "Y=a", "USER=a"} |->
                  [name |-> CASE t = "X=a" -> "X" [] t = "Y=a" -> "Y" [] OTHER -> "USER",
                   value |-> <<"a">>]]
MCChanged == "root" :> "root:new" @@ "u" :> "u:new" @@ "v" :> "v:new" @@ "n" :> "n:new"

Owned(text, private) == [root |-> TRUE, private |-> private, text |-> text]
MCFiles == PASSWD :> Owned(<<"root", "u">>, FALSE) @@ GROUP :> Owned(<<"root", "u">>, FALSE)
           @@ SHADOW :> Owned(<<"root", "u">>, TRUE) @@ DevNull :> Owned(<<>>, FALSE)

(* Every redirection to two files and between the streams. *)
MCRedirections == {File("Stdout", "/tmp/f", FALSE), File("Stderr", "/tmp/f", FALSE),
                   File("Stderr", "g", TRUE), File("Both", "g", FALSE),
                   Onto("Stderr", "Stdout"), Onto("Stdout", "Stderr")}

(* Checked in the first state, for every sequence of three. *)
RedirectionsRight ==
    count = 0 => RedirectsFollowDescriptors(MCRedirections, 3,
                     "/tmp/f" :> InF @@ "g" :> <<"/home/u", "g">>)
=============================================================================

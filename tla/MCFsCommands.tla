---------------------------- MODULE MCFsCommands ----------------------------
(* FsCommands for a root and a plain user, over two names, the operands that *)
(* reach every node of the first tree directly, through its link and from    *)
(* below, and an archive whose members are told apart by their names.        *)
EXTENDS FsCommands

CONSTANTS foo, bar

MCOrder == <<Nameless, Dot, Up, foo, bar>>
MCPaths == {Path(FALSE, <<foo>>), Path(FALSE, <<bar>>), Path(FALSE, <<foo, bar>>), Path(FALSE, <<bar, foo>>),
            Path(FALSE, <<Up, bar>>)}
MCNamelessPaths == {Path(TRUE, <<>>), Path(FALSE, <<>>), Path(FALSE, <<Up>>)}
MCModes == {[op |-> "-", who |-> LinkMode, bits |-> LinkMode]}
MCUploads ==
    {<<>>,
     <<Member(<<bar, bar>>, "file", Plain(0, FileMode), 1), Member(<<Up, foo>>, "dir", Plain(0, DirMode), 0)>>}

(* What a command did is only asked about in the step that did it: two       *)
(* states that differ in nothing else have the same behaviours.              *)
Apart == <<fs, info, sh.cwd, sh.uid, sh.left>>
=============================================================================

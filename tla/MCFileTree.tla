----------------------------- MODULE MCFileTree ------------------------------
(***************************************************************************)
(* FileTree with two threads: the shell, and one that stands for the       *)
(* kernel, the finder of devices and the programs.                         *)
(***************************************************************************)
EXTENDS FileTree

MCThreads == {"shell", "kernel"}
MCPaths == {<<"dev">>, <<"dev", "dir">>}
MCModes == {open_rw}
MCMountpoints == {<<>>, <<"dev">>}
MCLocalPaths == {<<>>, <<"dev">>, <<"disk">>, <<"dir">>, <<"f">>}
MCDiskPath == <<"dev", "disk">>

=============================================================================

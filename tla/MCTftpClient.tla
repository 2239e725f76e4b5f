---------------------------- MODULE MCTftpClient -----------------------------
(* Instances of TftpClient: what the user may type. *)
EXTENDS TftpClient

CONSTANTS h1, h2, f

File(h) == [host |-> h, file |-> f]
Cmd(o, a) == [op |-> o, mode |-> "octet", args |-> a, single |-> FALSE]
GetOne(a) == [Cmd("get", a) EXCEPT !.single = TRUE]

\* One file, with a name to put it under that might be one of a host, too; two of one
\* name where the first comes from the host that is connected; and one to it.
AllCommands ==
  {Cmd("connect", <<File(h2)>>), GetOne(<<File(h1), File(h2)>>),
   Cmd("get", <<File(NoHost), File(h1)>>), Cmd("put", <<File(NoHost)>>),
   [op |-> "mode", mode |-> "none", args |-> <<>>, single |-> FALSE]}
=============================================================================

--------------------------- MODULE MCPrivileges ------------------------------
(* Instances of Privileges. *)
EXTENDS Privileges

\* Every way to start the server, to run as root (0) or as another user (1), but that
\* the server is in at most one supplementary group.
FewGroups == {c \in AllConfs : c.groups \in {{}, {1}} /\ c.pw \in {0, 1}}

\* As root, with all capabilities, to run as another user.
AsRoot == {c \in AllConfs : /\ c.uid = 0 /\ c.gid = 0 /\ c.pw = 1 /\ c.groups = {0}
                            /\ c.caps = Capabilities /\ c.readable /\ ~c.maptest}
=============================================================================

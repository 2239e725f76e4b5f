----------------------------- MODULE Privileges ------------------------------
(***************************************************************************)
(* The privileges of the server on Linux: capset_privs of                   *)
(* tftpd/cap-linux.c, the calls main and run_worker of tftpd/tftpd.c make   *)
(* around the operations that need a privilege, and those operations.  A    *)
(* behaviour follows one process from main to the service of a request; the *)
(* worker that fork makes of the daemon starts with the daemon's state.     *)
(***************************************************************************)
EXTENDS Integers, FiniteSets

CONSTANTS
  Ids,     \* user and group ids; 0 is root
  Confs    \* the ways the server may be started

\* enum priv_mask, as a set.
Privs == {"LISTEN", "PORTRANGE", "CHROOT", "SETUID", "SETGID"}

\* need_privs: the capability behind a privilege.
Cap == [v \in Privs |-> CASE v \in {"LISTEN", "PORTRANGE"} -> "NET_BIND"
                          [] v = "CHROOT" -> "SYS_CHROOT"
                          [] v = "SETUID" -> "SETUID"
                          [] v = "SETGID" -> "SETGID"]
Capabilities == {Cap[v] : v \in Privs}
Caps(mask) == {Cap[v] : v \in mask}

\* How the server is started: options, ids, capabilities, and whether
\* cap_get_proc is allowed to look.
AllConfs ==
  [standalone : BOOLEAN, secure : BOOLEAN, maptest : BOOLEAN,
   privlisten : BOOLEAN, privports : BOOLEAN,   \* ports of the service and of transfers
   readable : BOOLEAN, uid : Ids, gid : Ids, pw : Ids, groups : SUBSET Ids,
   caps : SUBSET Capabilities]

ASSUME ConfAssumption == Confs \subseteq AllConfs

VARIABLES
  conf,
  place,                         \* where main or run_worker is
  known,                         \* ocap is set
  effective, permitted, dropped, \* the static masks of capset_privs
  capE, capP,                    \* the kernel's view of the process
  uid, gid, groups

masks == <<known, effective, permitted, dropped>>
ids == <<uid, gid, groups>>
kernel == <<capE, capP, ids>>
privVars == <<conf, place, masks, kernel>>

PrivInit ==
  /\ conf \in Confs
  /\ place = "main"
  /\ known = FALSE /\ effective = {} /\ permitted = {} /\ dropped = {}
  /\ capE = conf.caps /\ capP = conf.caps
  /\ uid = conf.uid /\ gid = conf.gid /\ groups = conf.groups

-----------------------------------------------------------------------------
(***************************************************************************)
(* capset_privs                                                             *)
(***************************************************************************)

\* The privileges the process turns out to have on the first call.
Found == {v \in Privs : Cap[v] \in capP}

\* keep: what is dropped is kept while it is in use.
Kept(have, now, drop) == have \cap (now \cup (Privs \ drop))

\* cap_set_proc; it can only take away from the permitted set.
SetProc(now, keep) ==
  /\ Caps(keep) \subseteq capP
  /\ capP' = Caps(keep) /\ capE' = Caps(now)

CapsetPrivs(now, drop) ==
  IF ~conf.readable
  THEN dropped' = dropped \cup drop /\ UNCHANGED <<known, effective, permitted, capE, capP>>
  ELSE LET have   == IF known THEN permitted ELSE Found
           gone   == dropped \cup drop \cup (IF known THEN {} ELSE Privs \ Found)
           wanted == now \cap have
           keep   == Kept(have, wanted, gone)
       IN  /\ dropped' = gone
           /\ known' = TRUE /\ effective' = wanted /\ permitted' = keep
           /\ IF known /\ wanted = effective /\ keep = permitted
              THEN UNCHANGED <<capE, capP>>
              ELSE SetProc(wanted, keep)

-----------------------------------------------------------------------------
(***************************************************************************)
(* The callers                                                              *)
(***************************************************************************)

Call(from, to, now, drop) ==
  /\ place = from /\ place' = to
  /\ CapsetPrivs(now, drop)
  /\ UNCHANGED <<conf, ids>>

\* main: capset_none.
Start == Call("main", "options", {}, {})

\* --map-test: everything is dropped, the rules are tried, and that is all.
MapTest == conf.maptest /\ Call("options", "exit", {}, Privs)

\* can_drop_setuid and can_drop_setgid.
CanDropSetuid == uid = conf.pw
CanDropSetgid == gid = conf.pw \/ conf.pw \in groups

\* Mutant: whether chroot will be needed is not asked.
BeforeInitgroupsDropChroot ==
  /\ ~conf.maptest
  /\ Call("options", "initgroups", {"SETGID"},
          (IF conf.standalone THEN {} ELSE {"LISTEN"})
            \cup (IF conf.privports THEN {} ELSE {"PORTRANGE"}) \cup {"CHROOT"}
            \cup (IF CanDropSetuid THEN {"SETUID"} ELSE {}))

BeforeInitgroups ==
  /\ ~conf.maptest
  /\ Call("options", "initgroups", {"SETGID"},
          (IF conf.standalone THEN {} ELSE {"LISTEN"})
            \cup (IF conf.privports THEN {} ELSE {"PORTRANGE"})
            \cup (IF conf.secure THEN {} ELSE {"CHROOT"})
            \cup (IF CanDropSetuid THEN {"SETUID"} ELSE {}))

\* initgroups; EPERM is passed over.
Initgroups ==
  /\ place = "initgroups" /\ place' = "grouped"
  /\ groups' = IF "SETGID" \in capE THEN {conf.pw} ELSE groups
  /\ UNCHANGED <<conf, masks, capE, capP, uid, gid>>

AfterInitgroups ==
  Call("grouped", IF conf.standalone THEN "sockets" ELSE "listening", {},
       IF CanDropSetgid THEN {"SETGID"} ELSE {})

BeforeListen == Call("sockets", "bind", {"LISTEN"}, {"LISTEN"})

\* listen_to; without a socket the server exits.
Listen ==
  /\ place = "bind"
  /\ place' = IF conf.privlisten /\ "NET_BIND" \notin capE THEN "exit" ELSE "bound"
  /\ UNCHANGED <<conf, masks, kernel>>

AfterListen == Call("bound", "listening", {}, {})

\* A request is there: fork, and run_worker to the socket of the transfer.
BeforeSocketBind == Call("listening", "port", {"PORTRANGE"}, {"PORTRANGE"})

\* pick_port_bind.
PickPortBind ==
  /\ place = "port"
  /\ place' = IF conf.privports /\ "NET_BIND" \notin capE THEN "exit"
           ELSE IF conf.secure THEN "jail" ELSE "setid"
  /\ UNCHANGED <<conf, masks, kernel>>

BeforeChroot == Call("jail", "chroot", {"CHROOT"}, {"CHROOT"})
Chroot ==
  /\ place = "chroot" /\ place' = IF "SYS_CHROOT" \in capE THEN "setid" ELSE "exit"
  /\ UNCHANGED <<conf, masks, kernel>>

BeforeSetid == Call("setid", "setgid", {"SETUID", "SETGID"}, Privs)

\* setresgid; check_drop passes over EPERM.
Setresgid ==
  /\ place = "setgid" /\ place' = "setuid"
  /\ gid' = IF "SETGID" \in capE THEN conf.pw ELSE gid
  /\ UNCHANGED <<conf, masks, capE, capP, uid, groups>>

\* setresuid; the kernel clears the capabilities of a process that ceases to be root.
Setresuid ==
  /\ place = "setuid" /\ place' = "user"
  /\ uid' = IF "SETUID" \in capE THEN conf.pw ELSE uid
  /\ IF uid = 0 /\ uid' # 0 THEN capE' = {} /\ capP' = {} ELSE UNCHANGED <<capE, capP>>
  /\ UNCHANGED <<conf, masks, gid, groups>>

\* Mutant: the last call is left out.
AfterSetidForgets ==
  place = "user" /\ place' = "serve" /\ UNCHANGED <<conf, masks, kernel>>

AfterSetid == Call("user", "serve", {}, {})

\* An operation fails for a reason other than a missing privilege.
Fail ==
  /\ place \in {"initgroups", "bind", "port", "chroot", "setgid", "setuid"} /\ place' = "exit"
  /\ UNCHANGED <<conf, masks, kernel>>

PrivNext ==
  \/ Fail \/ Start \/ MapTest \/ BeforeInitgroups \/ Initgroups \/ AfterInitgroups
  \/ BeforeListen \/ Listen \/ AfterListen
  \/ BeforeSocketBind \/ PickPortBind \/ BeforeChroot \/ Chroot
  \/ BeforeSetid \/ Setresgid \/ Setresuid \/ AfterSetid
PrivSpec == PrivInit /\ [][PrivNext]_privVars

-----------------------------------------------------------------------------
(* The masks are sets of privileges, the kernel's sets are capabilities, and *)
(* ids are ids (tftpd/cap-linux.c:21-60).                                    *)
PrivTypeOK ==
  /\ conf \in Confs
  /\ known \in BOOLEAN
  /\ effective \subseteq Privs /\ permitted \subseteq Privs /\ dropped \subseteq Privs
  /\ capE \subseteq capP /\ capP \subseteq Capabilities
  /\ uid \in Ids /\ gid \in Ids /\ groups \subseteq Ids

\* The capability an operation needs, at the point just before it.
NeededAt ==
  [v \in {"initgroups", "bind", "port", "chroot", "setgid", "setuid"} |->
     CASE v = "initgroups" -> {"SETGID"}
       [] v = "bind" -> IF conf.privlisten THEN {"NET_BIND"} ELSE {}
       [] v = "port" -> IF conf.privports THEN {"NET_BIND"} ELSE {}
       [] v = "chroot" -> {"SYS_CHROOT"}
       [] v = "setgid" -> IF gid = conf.pw THEN {} ELSE {"SETGID"}
       [] v = "setuid" -> IF uid = conf.pw THEN {} ELSE {"SETUID"}]

\* The one capability that main drops although a worker needs it: a process that is a
\* member of the group, as initgroups makes it, is taken for one that can change to it
\* (can_drop_setgid), and setresgid then fails with an EPERM that is passed over.
DroppedEarly ==
  IF place = "setgid" /\ conf.readable /\ conf.pw \in groups THEN {"SETGID"} ELSE {}

(* A capability the server was started with is there at each of the six      *)
(* operations that need one, however early main decides what to drop         *)
(* (tftpd/cap-linux.c:214-246), but for that of setresgid, and this one only  *)
(* in a process that is a member of the group already.                        *)
NotDroppedEarly ==
  place \in DOMAIN NeededAt =>
    (NeededAt[place] \cap conf.caps) \ capE \subseteq DroppedEarly

(* While it waits for requests the server asserts no capability, and keeps   *)
(* only those a worker will need (CHANGES:32-36, "it now drops any           *)
(* capabilities it no longer needs, and deasserts any capabilities it is not *)
(* actively using"); and a request is served without any, whatever the       *)
(* server was started as, and as the user it was told to run as if it could  *)
(* become that user (tftpd/tftpd.c:1287-1311).                               *)
OnlyWhatIsNeeded ==
  /\ place = "listening" /\ conf.readable =>
       /\ capE = {}
       /\ "NET_BIND" \in capP => conf.privports
       /\ "SYS_CHROOT" \in capP => conf.secure
       /\ "SETUID" \in capP => uid # conf.pw
       /\ "SETGID" \in capP => gid # conf.pw
  /\ place = "serve" =>
       /\ conf.readable => capP = {} /\ capE = {}
       /\ conf.readable /\ "SETUID" \in conf.caps => uid = conf.pw

(* A server that is started with the right to change its group serves        *)
(* requests in the group of the user it was told to run as                   *)
(* (tftpd/tftpd.8.in:261-264, "The user ID, group ID, and [...] the          *)
(* supplementary group IDs will be set").                                    *)
ServesInGroup ==
  place = "serve" /\ "SETGID" \in conf.caps => gid = conf.pw
=============================================================================

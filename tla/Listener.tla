------------------------------ MODULE Listener ------------------------------
(***************************************************************************)
(* The listening process of tftpd/tftpd.c: the main loop, pollset_poll of   *)
(* common/pollset.c, and the signal handlers that may run between any two   *)
(* of their steps.  A handler that finds pollset_jmp set leaves by          *)
(* siglongjmp into pollset_poll; one that does not sets pollset_intr.  The  *)
(* steps of pollset_poll are therefore the single accesses to those flags.  *)
(*                                                                          *)
(* External: the kernel, which delivers signals, keeps a signal blocked     *)
(* while its own handler runs, and queues datagrams.                        *)
(***************************************************************************)
EXTENDS Integers, Sequences

CONSTANTS
  Packets,      \* what datagrams there are: [fd, op, dst], dst their destination, or
                \* Unspecified when recvmsg does not tell it
  Local,        \* the addresses of this host
  BoundTo,      \* the address each listening socket is bound to, or Unspecified
  Inet6,        \* the listening sockets of family AF_INET6
  Unspecified,  \* the unspecified address
  Standalone,   \* dopt.standalone
  HasTimeout,   \* dopt.waittime >= 0
  MaxHups,      \* bound: SIGHUPs sent
  MaxTerms,     \* bound: SIGTERMs (or SIGINTs) sent
  MaxQueue      \* datagrams that the buffer of a socket holds

Fds == DOMAIN BoundTo
Signals == {"HUP", "TERM"}

\* A running handler, and whether it has set its flag.
Frames == [sig : Signals, set : BOOLEAN]

ASSUME ListenerAssumption ==
  /\ Fds # {} /\ Fds \subseteq Nat \ {0} /\ Inet6 \subseteq Fds
  /\ \A pkt \in Packets : pkt.fd \in Fds
  /\ Standalone \in BOOLEAN /\ HasTimeout \in BOOLEAN
  /\ MaxHups \in Nat /\ MaxTerms \in Nat /\ MaxQueue \in Nat

VARIABLES
  pc,             \* where the main program is
  exit_signal,
  reload_signal,
  pollset_jmp,
  pollset_intr,
  handlers,       \* the handlers that are running, the innermost first
  pending,        \* signals sent and not yet delivered
  sent,           \* how many signals of each kind were sent
  rulefile,       \* version of the file of remapping rules
  rewrite_rules,  \* version of the rules that were parsed
  queue,          \* the datagrams in each socket's buffer, the oldest first
  revents,        \* the sockets that the last poll found readable
  request,        \* {} or the datagram that was read
  worker,         \* {} or the worker that was forked last
  pidfile,        \* the pid file is there
  why             \* why the process ended

flags == <<exit_signal, reload_signal, pollset_jmp, pollset_intr>>
sigs == <<handlers, pending, sent>>
files == <<rulefile, rewrite_rules, pidfile>>
net == <<queue, revents, request, worker>>
listenerVars == <<pc, flags, sigs, files, net, why>>

InPoll == {"arm", "armed", "blocked", "polled", "intr", "disarm"}
Places == {"top", "reload", "read", "loaded", "poll", "next", "recv", "fork", "exit"} \cup InPoll

ListenerInit ==
  /\ pc = "top"
  /\ exit_signal = FALSE /\ reload_signal = FALSE
  /\ pollset_jmp = FALSE /\ pollset_intr = FALSE
  /\ handlers = <<>> /\ pending = {} /\ sent = [s \in Signals |-> 0]
  /\ rulefile = 0 /\ rewrite_rules = 0
  /\ queue = [fd \in Fds |-> <<>>] /\ revents = {} /\ request = {}
  /\ worker = {}
  /\ pidfile \in {Standalone, FALSE}
  /\ why = "none"

-----------------------------------------------------------------------------
(***************************************************************************)
(* The environment                                                          *)
(***************************************************************************)

\* A second signal of a kind that is pending is merged with the first.  The
\* administrator edits the file of rules before sending a SIGHUP.
Kill(s) ==
  /\ pc # "exit"
  /\ sent[s] < (IF s = "HUP" THEN MaxHups ELSE MaxTerms)
  /\ sent' = [sent EXCEPT ![s] = @ + 1]
  /\ pending' = pending \cup {s}
  /\ rulefile' = IF s = "HUP" THEN rulefile + 1 ELSE rulefile
  /\ UNCHANGED <<pc, flags, handlers, rewrite_rules, pidfile, net, why>>

\* Datagrams keep coming; one that finds the buffer full is dropped.
Arrive(pkt) ==
  /\ pc # "exit"
  /\ Len(queue[pkt.fd]) < MaxQueue
  /\ queue' = [queue EXCEPT ![pkt.fd] = Append(@, pkt)]
  /\ UNCHANGED <<pc, flags, sigs, files, revents, request, worker, why>>

-----------------------------------------------------------------------------
(***************************************************************************)
(* handle_exit, handle_reload, pollset_notify_signal                        *)
(***************************************************************************)

Running == {handlers[i].sig : i \in DOMAIN handlers}

\* The handler starts.  set_signal masks no other signal meanwhile.
Deliver(s) ==
  /\ pc # "exit"
  /\ s \in pending /\ s \notin Running
  /\ pending' = pending \ {s}
  /\ handlers' = <<[sig |-> s, set |-> FALSE]>> \o handlers
  /\ UNCHANGED <<pc, flags, sent, files, net, why>>

\* SIGHUP has handle_exit, too, when the daemon is not standalone.
SetFlag ==
  /\ handlers # <<>> /\ ~Head(handlers).set
  /\ handlers' = [handlers EXCEPT ![1].set = TRUE]
  /\ IF Head(handlers).sig = "HUP" /\ Standalone
     THEN reload_signal' = TRUE /\ UNCHANGED exit_signal
     ELSE exit_signal' = TRUE /\ UNCHANGED reload_signal
  /\ UNCHANGED <<pc, pollset_jmp, pollset_intr, pending, sent, files, net, why>>

\* pollset_notify_signal; siglongjmp leaves the handlers underneath as well.
Notify ==
  /\ handlers # <<>> /\ Head(handlers).set
  /\ IF pollset_jmp
     THEN pollset_intr' = FALSE /\ handlers' = <<>> /\ pc' = "intr"
     ELSE pollset_intr' = TRUE /\ handlers' = Tail(handlers) /\ UNCHANGED pc
  /\ UNCHANGED <<exit_signal, reload_signal, pollset_jmp, pending, sent, files, net, why>>

-----------------------------------------------------------------------------
(***************************************************************************)
(* The main loop                                                            *)
(***************************************************************************)

At(place) == pc = place /\ handlers = <<>>
Goto(place) == pc' = place /\ UNCHANGED why
Exit(cause) == pc' = "exit" /\ why' = cause

\* The sockets that have something to read.
Readable == {fd \in Fds : queue[fd] # <<>>}

\* Mutant: what has arrived is served first.
CheckExitDrains ==
  /\ At("top")
  /\ IF exit_signal /\ Readable # {}
     THEN revents' = Readable /\ Goto("next") /\ UNCHANGED pidfile
     ELSE /\ IF exit_signal THEN pidfile' = FALSE /\ Exit("signal")
                            ELSE Goto("reload") /\ UNCHANGED pidfile
          /\ UNCHANGED revents
  /\ UNCHANGED <<flags, sigs, rulefile, rewrite_rules, queue, request, worker>>

\* A pid file that cannot be removed stays, and the exit status says so.
CheckExit ==
  /\ At("top")
  /\ IF exit_signal
     THEN \/ pidfile' = FALSE /\ Exit("signal")
          \/ pidfile /\ UNCHANGED pidfile /\ Exit("error")
     ELSE Goto("reload") /\ UNCHANGED pidfile
  /\ UNCHANGED <<flags, sigs, rulefile, rewrite_rules, net>>

CheckReload ==
  /\ At("reload")
  /\ reload_signal' = FALSE
  /\ IF reload_signal THEN Goto("read") ELSE Goto("poll")
  /\ UNCHANGED <<exit_signal, pollset_jmp, pollset_intr, sigs, files, net>>

\* freerules, and read_remap_rules up to the last line of the file.
ReadRules ==
  /\ At("read")
  /\ rewrite_rules' = rulefile
  /\ Goto("loaded")
  /\ UNCHANGED <<flags, sigs, rulefile, pidfile, net>>

\* Mutant: the flag is cleared when the rules are in place.
RulesReadClears ==
  /\ At("loaded")
  /\ reload_signal' = FALSE
  /\ Goto("poll")
  /\ UNCHANGED <<exit_signal, pollset_jmp, pollset_intr, sigs, files, net>>

\* The return of read_remap_rules: what is written to the file by now waits for a SIGHUP.
RulesRead ==
  /\ At("loaded")
  /\ Goto("poll")
  /\ UNCHANGED <<flags, sigs, files, net>>

\* read_remap_rules cannot open the file, or parserulefile refuses it.
ReadRulesFails ==
  /\ At("read")
  /\ Exit("rules")
  /\ UNCHANGED <<flags, sigs, files, net>>

-----------------------------------------------------------------------------
(***************************************************************************)
(* pollset_poll                                                             *)
(***************************************************************************)

\* The first test of pollset_intr, and sigsetjmp.
PollEnter ==
  /\ At("poll")
  /\ IF pollset_intr THEN Goto("intr") ELSE Goto("arm")
  /\ UNCHANGED <<flags, sigs, files, net>>

PollArm ==
  /\ At("arm")
  /\ pollset_jmp' = TRUE
  /\ Goto("armed")
  /\ UNCHANGED <<exit_signal, reload_signal, pollset_intr, sigs, files, net>>

\* Mutant: pollset_intr is tested only once.
PollRecheckNot ==
  /\ At("armed")
  /\ Goto("blocked")
  /\ UNCHANGED <<flags, sigs, files, net>>

\* The second test of pollset_intr.
PollRecheck ==
  /\ At("armed")
  /\ IF pollset_intr THEN Goto("intr") ELSE Goto("blocked")
  /\ UNCHANGED <<flags, sigs, files, net>>

\* ppoll returns because sockets are readable.
PollReady ==
  /\ At("blocked")
  /\ Readable # {}
  /\ revents' = Readable
  /\ Goto("polled")
  /\ UNCHANGED <<flags, sigs, files, queue, request, worker>>

\* ppoll returns 0.
PollTimeout ==
  /\ At("blocked")
  /\ HasTimeout /\ Readable = {}
  /\ revents' = {}
  /\ Goto("polled")
  /\ UNCHANGED <<flags, sigs, files, queue, request, worker>>

\* Mutant: pollset_jmp stays set.
PolledArmed ==
  /\ At("polled")
  /\ IF revents = {} THEN Exit("timeout") ELSE Goto("next")
  /\ UNCHANGED <<flags, sigs, files, net>>

\* The return of pollset_poll, and the tests of its result.
Polled ==
  /\ At("polled")
  /\ pollset_jmp' = FALSE
  /\ IF revents = {} THEN Exit("timeout") ELSE Goto("next")
  /\ UNCHANGED <<exit_signal, reload_signal, pollset_intr, sigs, files, net>>

\* The label intr: pollset_intr is reset, then pollset_jmp.
PollIntr ==
  /\ At("intr")
  /\ pollset_intr' = FALSE
  /\ Goto("disarm")
  /\ UNCHANGED <<exit_signal, reload_signal, pollset_jmp, sigs, files, net>>

PollDisarm ==
  /\ At("disarm")
  /\ pollset_jmp' = FALSE
  /\ Goto("top")
  /\ UNCHANGED <<exit_signal, reload_signal, pollset_intr, sigs, files, net>>

-----------------------------------------------------------------------------
(***************************************************************************)
(* Reading a request and forking its worker                                 *)
(***************************************************************************)

\* Mutant: pollset_next looks at every socket of the set.
PollsetNextAny == {fd \in Fds : \A other \in Fds : fd <= other}

\* pollset_next: the set is sorted; the search starts at its first member each time
\* round the loop.
PollsetNext == {fd \in revents : \A other \in revents : fd <= other}

\* myrecvfrom reads a datagram.
Recv ==
  /\ At("next")
  /\ \E fd \in PollsetNext :
       /\ queue[fd] # <<>>
       /\ queue' = [queue EXCEPT ![fd] = Tail(@)]
       /\ request' = {Head(queue[fd])}
  /\ Goto("recv")
  /\ UNCHANGED <<flags, sigs, files, revents, worker>>

\* EWOULDBLOCK: the kernel drops a datagram it finds corrupt.
RecvNothing ==
  /\ At("next")
  /\ \E fd \in PollsetNext :
       queue' = [queue EXCEPT ![fd] = IF @ = <<>> THEN @ ELSE Tail(@)]
  /\ Goto("top")
  /\ UNCHANGED <<flags, sigs, files, revents, request, worker>>

\* Any other error of poll or recvmsg.
ListenError ==
  /\ At("next") \/ At("polled")
  /\ Exit("error")
  /\ UNCHANGED <<flags, sigs, files, net>>

IsRequest(pkt) == pkt.op \in {"RRQ", "WRQ"}

\* address_is_local: a socket can be bound to the address, and it is no multicast or
\* broadcast address.
AddressIsLocal(a) == a \in Local

\* myaddr as myrecvfrom leaves it.
Captured(pkt) == IF AddressIsLocal(pkt.dst) THEN pkt.dst ELSE Unspecified

\* The address the worker answers from.  The test for an IPv6 address looks at
\* the sender's, which is never unspecified.
OwnAddress(pkt) ==
  IF Standalone /\ pkt.fd \notin Inet6 /\ Captured(pkt) = Unspecified
  THEN BoundTo[pkt.fd]
  ELSE Captured(pkt)

Ignore ==
  /\ At("recv")
  /\ \E pkt \in request : ~IsRequest(pkt)
  /\ request' = {}
  /\ Goto("top")
  /\ UNCHANGED <<flags, sigs, files, queue, revents, worker>>

Fork ==
  /\ At("recv")
  /\ \E pkt \in request :
       /\ IsRequest(pkt)
       /\ worker' = {[req |-> pkt, addr |-> OwnAddress(pkt)]}
  /\ request' = {}
  /\ Goto("top")
  /\ UNCHANGED <<flags, sigs, files, queue, revents>>

ForkFails ==
  /\ At("recv")
  /\ \E pkt \in request : IsRequest(pkt)
  /\ request' = {}
  /\ Exit("error")
  /\ UNCHANGED <<flags, sigs, files, queue, revents, worker>>

Ended == pc = "exit" /\ UNCHANGED listenerVars

-----------------------------------------------------------------------------
Poll == PollEnter \/ PollArm \/ PollRecheck \/ PollReady \/ Polled \/ PollIntr
          \/ PollDisarm
Main == CheckExit \/ CheckReload \/ ReadRules \/ RulesRead \/ Poll \/ Recv \/ Ignore \/ Fork
Failure == ReadRulesFails \/ RecvNothing \/ ListenError \/ ForkFails
Handler == SetFlag \/ Notify \/ \E s \in Signals : Deliver(s)
Environment == (\E s \in Signals : Kill(s)) \/ (\E pkt \in Packets : Arrive(pkt))
                 \/ PollTimeout

ListenerNext == Main \/ Failure \/ Handler \/ Environment \/ Ended

\* The kernel runs the process and delivers its signals.  The inactivity timeout
\* need not ever expire: nothing below is due to the daemon's ending by itself.
ListenerSpec ==
  /\ ListenerInit /\ [][ListenerNext]_listenerVars
  /\ WF_listenerVars(Main \/ Failure) /\ WF_listenerVars(Handler)

-----------------------------------------------------------------------------
(***************************************************************************)
(* Properties                                                               *)
(***************************************************************************)

\* The type of every variable.  Only an RRQ or a WRQ gets a worker.
ListenerTypeOK ==
  /\ pc \in Places
  /\ exit_signal \in BOOLEAN /\ reload_signal \in BOOLEAN
  /\ pollset_jmp \in BOOLEAN /\ pollset_intr \in BOOLEAN /\ pidfile \in BOOLEAN
  /\ handlers \in Seq(Frames)
  /\ pending \subseteq Signals /\ sent \in [Signals -> Nat]
  /\ rulefile \in Nat /\ rewrite_rules \in 0..rulefile
  /\ queue \in [Fds -> Seq(Packets)] /\ request \subseteq Packets
  /\ revents \subseteq Fds
  /\ \A w \in worker : w.req \in Packets /\ w.req.op \in {"RRQ", "WRQ"}
  /\ why \in {"none", "signal", "timeout", "rules", "error"}

\* The jump buffer of pollset_poll is used only while its frame is live: a
\* handler that finds pollset_jmp set interrupted pollset_poll after sigsetjmp
\* (common/pollset.c:21-23, 177-180).
JumpTargetLive == pollset_jmp => pc \in (InPoll \ {"arm"}) \cup {"exit"}

\* No wakeup is lost: when the process sleeps in ppoll and no handler runs, there is
\* no signal whose flag is set and was not acted upon (common/pollset.c:174-182).
NoSleepOnSignal ==
  (pc = "blocked" /\ handlers = <<>>) => ~exit_signal /\ ~reload_signal

\* A flag that is set will be looked at before the next sleep: the main program is
\* on its way to test it, or will find pollset_intr set, or a handler that has set
\* it has yet to call pollset_notify_signal.
Noticed(places) ==
  \/ pollset_intr
  \/ pc \in places \cup {"top", "intr", "disarm", "polled", "next", "recv", "exit"}
  \/ \E i \in DOMAIN handlers : handlers[i].set

\* The inductive invariant: pollset_jmp says exactly where the jump buffer is in use,
\* ppoll is not entered with pollset_intr set, and no flag goes unnoticed.
ListenerInv ==
  /\ ListenerTypeOK
  /\ pollset_jmp => pc \in (InPoll \ {"arm"}) \cup {"exit"}
  /\ pc \in {"armed", "blocked", "polled"} => pollset_jmp
  /\ pc = "blocked" => ~pollset_intr
  /\ exit_signal => Noticed({})
  /\ reload_signal => Noticed({"reload"})

\* A change of the rules is not forgotten: if the rules in use are older than the file
\* was at the last SIGHUP, that signal is still to be delivered, or its handler runs, or
\* its flag is set, or the file is about to be read, or the process is to end
\* (tftpd/tftpd.c:1085-1089, 1114-1122).  A handler that jumps drops the ones it
\* interrupted, and a SIGHUP may come while the file is read for an earlier one.
ReloadNotLost ==
  Standalone /\ rewrite_rules # rulefile =>
    \/ reload_signal \/ exit_signal
    \/ "HUP" \in pending \cup Running
    \/ pc \in {"read", "exit"}

\* After a SIGHUP the rules are those of the file at that time, or later ones; and a
\* SIGTERM ends the process, unless a SIGHUP comes in between
\* (tftpd/tftpd.c:1085-1089); what a SIGHUP can do to it is in TermNotLost.
SignalsHeeded ==
  /\ \A v \in 1..MaxHups :
       (Standalone /\ "HUP" \in pending /\ rulefile = v) ~> (rewrite_rules >= v \/ pc = "exit")
  /\ ("TERM" \in pending /\ sent["HUP"] = 0) ~> (pc = "exit" \/ sent["HUP"] > 0)

\* The oldest datagram of a socket is read again and again, or there is none.
Drained(fd) ==
  \/ []<>(queue[fd] = <<>> \/ pc = "exit")
  \/ []<><<Len(queue'[fd]) < Len(queue[fd])>>_listenerVars

\* From some time on nothing arrives at the sockets that come before this one.
LowerQuiet(fd) ==
  <>[][\A low \in Fds : low < fd => Len(queue'[low]) <= Len(queue[low])]_listenerVars

\* A datagram does not wait for ever, whatever signals come in and whatever arrives at
\* its own socket and at those with a higher descriptor, provided that those with a lower
\* one, where pollset_next begins, fall quiet (common/pollset.c:139-160,
\* tftpd/tftpd.c:1136-1138).
RequestsTaken == \A fd \in Fds : LowerQuiet(fd) => Drained(fd)

-----------------------------------------------------------------------------
(***************************************************************************)
(* What the documentation and comments say, or a user would expect, and the  *)
(* code does not do                                                          *)
(***************************************************************************)

\* A SIGTERM is waiting, or its handler runs, or its flag is set: it does not get
\* lost ("the handler simply sets a flag", tftpd/tftpd.c:1085-1089).
TermNotLost ==
  sent["TERM"] > 0 => exit_signal \/ "TERM" \in pending \cup Running

\* A worker answers from the address its request was sent to; when that is not known or
\* is no address of this host, from the one that the socket is bound to ("if so we
\* should use it", tftpd/tftpd.c:1190-1191).  It does not on an IPv6 socket.
AnswersFromBound ==
  Standalone =>
    \A w \in worker :
      w.addr = IF w.req.dst \in Local THEN w.req.dst ELSE BoundTo[w.req.fd]

\* The pid file is gone after a normal termination: by a signal, or when no request
\* came for dopt.waittime (tftpd/tftpd.8.in:285-286).
PidfileRemoved == (pc = "exit" /\ why \in {"signal", "timeout"}) => ~pidfile

\* No socket is starved by the others (common/pollset.c:139, tftpd/tftpd.c:1136).
NoSocketStarves == \A fd \in Fds : Drained(fd)
=============================================================================

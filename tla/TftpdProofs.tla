---------------------------- MODULE TftpdProofs -----------------------------
(***************************************************************************)
(* The process of the server, for every value of the constants: the         *)
(* listener and its signal handlers, the privileges of the daemon and its   *)
(* workers, and what becomes of the name in a request.                      *)
(***************************************************************************)
EXTENDS Listener, Privileges, Normalize, Remap, WellFoundedInduction, TLAPS

(***************************************************************************)
(* The listener and its signal handlers                                     *)
(***************************************************************************)

\* What the steps of the handlers do to the stack of running handlers.
LEMMA FrameSet ==
  ASSUME NEW h \in Seq(Frames), h # <<>>
  PROVE  /\ [h EXCEPT ![1].set = TRUE] \in Seq(Frames)
         /\ DOMAIN [h EXCEPT ![1].set = TRUE] = DOMAIN h
         /\ 1 \in DOMAIN h
         /\ [h EXCEPT ![1].set = TRUE][1].set
<1>1. Len(h) \in Nat /\ DOMAIN h = 1..Len(h) /\ Len(h) # 0
  OBVIOUS
<1>2. 1 \in 1..Len(h) /\ h[1] \in Frames
  BY <1>1
<1> DEFINE e == [h[1] EXCEPT !.set = TRUE]
<1>3. e \in Frames /\ e.set = TRUE
  BY <1>2, Zenon DEF Frames
<1>4. [h EXCEPT ![1].set = TRUE] = [h EXCEPT ![1] = e]
  OBVIOUS
<1> HIDE DEF e
<1>5. [h EXCEPT ![1] = e] \in Seq(Frames)
  BY <1>2, <1>3
<1>6. DOMAIN [h EXCEPT ![1] = e] = DOMAIN h /\ [h EXCEPT ![1] = e][1] = e
  BY <1>1, <1>2
<1> QED BY <1>1, <1>2, <1>3, <1>4, <1>5, <1>6, Zenon

\* A handler that interrupts leaves the frames below it as they are.
LEMMA FramePushed ==
  ASSUME NEW h \in Seq(Frames), NEW f \in Frames
  PROVE  /\ <<f>> \o h \in Seq(Frames)
         /\ \A i \in DOMAIN h : i + 1 \in DOMAIN (<<f>> \o h) /\ (<<f>> \o h)[i + 1] = h[i]
<1> DEFINE F == Frames
<1> HIDE DEF F
<1>1. h \in Seq(F) /\ f \in F
  BY DEF F
<1>2. <<f>> \o h \in Seq(F)
  BY <1>1
<1>3. \A i \in DOMAIN h : i + 1 \in DOMAIN (<<f>> \o h) /\ (<<f>> \o h)[i + 1] = h[i]
  BY <1>1
<1> QED BY <1>2, <1>3 DEF F

\* The interrupting handler is the first frame, and the others follow.
LEMMA FrameBelow ==
  ASSUME NEW h \in Seq(Frames), NEW f \in Frames
  PROVE  LET g == <<f>> \o h
         IN  /\ \A i \in DOMAIN h : i + 1 \in DOMAIN g /\ g[i + 1] = h[i]
             /\ 1 \in DOMAIN g /\ g[1] = f
             /\ \A i \in DOMAIN g : i # 1 => i - 1 \in DOMAIN h /\ g[i] = h[i - 1]
<1> DEFINE F == Frames
<1> HIDE DEF F
<1>1. h \in Seq(F) /\ f \in F
  BY DEF F
<1> QED BY <1>1

\* A handler that returns leaves the frames below it.
LEMMA FramePopped ==
  ASSUME NEW h \in Seq(Frames), h # <<>> PROVE Tail(h) \in Seq(Frames)
<1> DEFINE F == Frames
<1> HIDE DEF F
<1>1. h \in Seq(F)
  BY DEF F
<1>2. Tail(h) \in Seq(F)
  BY <1>1
<1> QED BY <1>2 DEF F

\* Every step keeps every variable of the listener in its type.
LEMMA TypeStep == ListenerTypeOK /\ [ListenerNext]_listenerVars => ListenerTypeOK'
<1> SUFFICES ASSUME ListenerTypeOK, [ListenerNext]_listenerVars PROVE ListenerTypeOK'
  OBVIOUS
<1> USE ListenerAssumption DEF ListenerTypeOK, Places, InPoll, Signals
<1>1. ASSUME NEW s \in Signals, Kill(s) PROVE ListenerTypeOK'
  BY <1>1 DEF Kill, flags, net
<1>2. ASSUME NEW pkt \in Packets, Arrive(pkt) PROVE ListenerTypeOK'
  <2>1. pkt.fd \in Fds /\ queue[pkt.fd] \in Seq(Packets)
    BY <1>2
  <2>2. Append(queue[pkt.fd], pkt) \in Seq(Packets)
    BY <1>2, <2>1
  <2>3. queue' \in [Fds -> Seq(Packets)]
    BY <1>2, <2>1, <2>2, Zenon DEF Arrive
  <2> QED BY <1>2, <2>3, Zenon DEF Arrive, flags, sigs, files
<1>3. ASSUME NEW s \in Signals, Deliver(s) PROVE ListenerTypeOK'
  <2>1. [sig |-> s, set |-> FALSE] \in Frames
    BY DEF Frames
  <2>2. handlers' \in Seq(Frames)
    BY <1>3, <2>1, FramePushed DEF Deliver
  <2> QED BY <1>3, <2>2 DEF Deliver, flags, files, net
<1>4. CASE SetFlag
  <2>1. handlers' \in Seq(Frames)
    <3>1. handlers \in Seq(Frames) /\ handlers # <<>>
      BY <1>4, Zenon DEF SetFlag
    <3> QED
      BY <1>4, <3>1, FrameSet, Zenon DEF SetFlag
  <2>2. exit_signal' \in BOOLEAN /\ reload_signal' \in BOOLEAN
    BY <1>4, Zenon DEF SetFlag
  <2>3. UNCHANGED <<pc, pollset_jmp, pollset_intr, pending, sent, files, net, why>>
    BY <1>4, Zenon DEF SetFlag
  <2> QED BY <2>1, <2>2, <2>3, Zenon DEF files, net
<1>5. CASE Notify
  <2>1. handlers' \in Seq(Frames)
    <3>1. handlers' = Tail(handlers) \/ handlers' = <<>>
      BY <1>5, Zenon DEF Notify
    <3>2. handlers # <<>>
      BY <1>5, Zenon DEF Notify
    <3>3. <<>> \in Seq(Frames)
      OBVIOUS
    <3> QED BY <3>1, <3>2, <3>3, FramePopped, Zenon
  <2> QED BY <1>5, <2>1, Zenon DEF Notify, files, net
<1>6. CASE CheckExit
  BY <1>6, Zenon DEF CheckExit, At, Goto, Exit, flags, sigs, net
<1>7. CASE CheckReload
  BY <1>7, Zenon DEF CheckReload, At, Goto, sigs, files, net
<1>8. CASE ReadRules
  BY <1>8 DEF ReadRules, At, Goto, flags, sigs, net
<1>9. CASE RulesRead \/ PollEnter \/ PollArm \/ PollRecheck
  BY <1>9, Zenon DEF RulesRead, PollEnter, PollArm, PollRecheck, At, Goto, flags, sigs, files, net
<1>10. CASE PollReady \/ PollTimeout
  <2>1. CASE PollReady
    BY <2>1, Zenon DEF PollReady, Readable, At, Goto, flags, sigs, files
  <2>2. CASE PollTimeout
    BY <2>2, Zenon DEF PollTimeout, At, Goto, flags, sigs, files
  <2> QED
    BY <1>10, <2>1, <2>2, Zenon
<1>11. CASE Polled \/ PollIntr \/ PollDisarm
  BY <1>11, Zenon DEF Polled, PollIntr, PollDisarm, At, Goto, Exit, sigs, files, net
<1>12. CASE Recv \/ RecvNothing
  <2>1. \A fd \in Fds : queue[fd] # <<>> =>
          Head(queue[fd]) \in Packets /\ Tail(queue[fd]) \in Seq(Packets)
    <3> SUFFICES ASSUME NEW fd \in Fds, queue[fd] # <<>>
                 PROVE  Head(queue[fd]) \in Packets /\ Tail(queue[fd]) \in Seq(Packets)
      OBVIOUS
    <3>1. PICK held \in Seq(Packets) : held = queue[fd]
      OBVIOUS
    <3> QED BY <3>1
  <2>2. PollsetNext \subseteq Fds
    BY Zenon DEF PollsetNext
  <2>3. CASE Recv
    <3>0. PICK fd \in Fds : /\ queue[fd] # <<>> /\ request' = {Head(queue[fd])}
                            /\ queue' = [queue EXCEPT ![fd] = Tail(queue[fd])]
      BY <2>2, <2>3 DEF Recv
    <3>1. queue' \in [Fds -> Seq(Packets)] /\ request' \subseteq Packets
      BY <2>1, <3>0
    <3> QED BY <2>3, <3>1, Zenon DEF Recv, At, Goto, flags, sigs, files
  <2>4. CASE RecvNothing
    <3>0. PICK fd \in Fds :
            queue' = [queue EXCEPT ![fd] = IF queue[fd] = <<>> THEN queue[fd] ELSE Tail(queue[fd])]
      BY <2>2, <2>4 DEF RecvNothing
    <3>1. queue' \in [Fds -> Seq(Packets)]
      BY <2>1, <3>0
    <3> QED BY <2>4, <3>1, Zenon DEF RecvNothing, At, Goto, flags, sigs, files
  <2> QED BY <1>12, <2>3, <2>4
<1>13. CASE Ignore \/ ForkFails
  BY <1>13, Zenon DEF Ignore, ForkFails, At, Goto, Exit, flags, sigs, files
<1>14. CASE Fork
  BY <1>14 DEF Fork, IsRequest, At, Goto, flags, sigs, files
<1>15. CASE ReadRulesFails \/ ListenError
  BY <1>15, Zenon DEF ReadRulesFails, ListenError, At, Exit, flags, sigs, files, net
<1>16. CASE UNCHANGED listenerVars
  BY <1>16 DEF listenerVars, flags, sigs, files, net
<1> QED
  BY <1>1, <1>2, <1>3, <1>4, <1>5, <1>6, <1>7, <1>8, <1>9, <1>10, <1>11, <1>12,
     <1>13, <1>14, <1>15, <1>16
  DEF ListenerNext, Main, Poll, Failure, Handler, Environment, Ended

\* One step of the program, of a handler or of the environment keeps the invariant.
LEMMA SignalStep == ListenerInv /\ [ListenerNext]_listenerVars => ListenerInv'
<1> SUFFICES ASSUME ListenerInv, [ListenerNext]_listenerVars PROVE ListenerInv'
  OBVIOUS
<1>0. ListenerTypeOK /\ ListenerTypeOK'
  BY TypeStep DEF ListenerInv
<1>t. /\ pc \in Places /\ exit_signal \in BOOLEAN /\ reload_signal \in BOOLEAN
      /\ pollset_jmp \in BOOLEAN /\ pollset_intr \in BOOLEAN /\ handlers \in Seq(Frames)
  BY <1>0 DEF ListenerTypeOK
<1> DEFINE Rest ==
      /\ pollset_jmp => pc \in (InPoll \ {"arm"}) \cup {"exit"}
      /\ pc \in {"armed", "blocked", "polled"} => pollset_jmp
      /\ pc = "blocked" => ~pollset_intr
      /\ exit_signal => Noticed({})
      /\ reload_signal => Noticed({"reload"})
<1>r. Rest
  BY DEF ListenerInv
<1> SUFFICES Rest'
  BY <1>0 DEF ListenerInv
<1> USE <1>t, <1>r DEF Places, InPoll, Noticed
<1>1. CASE UNCHANGED <<pc, flags, handlers>>
  BY <1>1 DEF flags
<1>2. ASSUME NEW s \in Signals, Deliver(s) PROVE Rest'
  <2>1. [sig |-> s, set |-> FALSE] \in Frames
    BY DEF Frames
  <2>2. \A i \in DOMAIN handlers : i + 1 \in DOMAIN handlers' /\ handlers'[i + 1] = handlers[i]
    BY <1>2, <2>1, FramePushed DEF Deliver
  <2>3. UNCHANGED <<pc, exit_signal, reload_signal, pollset_jmp, pollset_intr>>
    BY <1>2 DEF Deliver, flags
  <2>4. (\E i \in DOMAIN handlers : handlers[i].set) => \E i \in DOMAIN handlers' : handlers'[i].set
    BY <2>2
  <2> QED BY <2>3, <2>4
<1>3. CASE SetFlag
  <2>1. \E i \in DOMAIN handlers' : handlers'[i].set
    BY <1>3, FrameSet DEF SetFlag
  <2>2. UNCHANGED <<pc, pollset_jmp, pollset_intr>>
    BY <1>3 DEF SetFlag
  <2> QED BY <2>1, <2>2
<1>4. CASE Notify
  BY <1>4 DEF Notify
<1>5. CASE CheckExit
  <2>1. CASE exit_signal
    BY <1>5, <2>1 DEF CheckExit, At, Exit, flags, sigs
  <2>2. CASE ~exit_signal
    BY <1>5, <2>2 DEF CheckExit, At, Goto, flags, sigs
  <2> QED BY <2>1, <2>2
<1>6. CASE CheckReload
  BY <1>6 DEF CheckReload, At, Goto, sigs
<1>7. CASE ReadRules
  BY <1>7 DEF ReadRules, At, Goto, flags, sigs
<1>8. CASE RulesRead \/ PollEnter
  BY <1>8 DEF RulesRead, PollEnter, At, Goto, flags, sigs
<1>9. CASE PollArm
  BY <1>9 DEF PollArm, At, Goto, sigs
<1>10. CASE PollRecheck
  BY <1>10 DEF PollRecheck, At, Goto, flags, sigs
<1>11. CASE PollReady \/ PollTimeout
  BY <1>11 DEF PollReady, PollTimeout, At, Goto, flags, sigs
<1>12. CASE Polled
  BY <1>12 DEF Polled, At, Goto, Exit, sigs
<1>13. CASE PollIntr \/ PollDisarm
  BY <1>13 DEF PollIntr, PollDisarm, At, Goto, sigs
<1>14. CASE Recv \/ RecvNothing \/ Ignore \/ Fork
  BY <1>14 DEF Recv, RecvNothing, Ignore, Fork, At, Goto, flags, sigs
<1>15. CASE ReadRulesFails \/ ListenError \/ ForkFails
  BY <1>15 DEF ReadRulesFails, ListenError, ForkFails, At, Exit, flags, sigs
<1>16. ASSUME NEW s \in Signals, Kill(s) PROVE Rest'
  BY <1>1, <1>16 DEF Kill
<1>17. ASSUME NEW pkt \in Packets, Arrive(pkt) PROVE Rest'
  BY <1>1, <1>17 DEF Arrive, sigs
<1>18. CASE UNCHANGED listenerVars
  BY <1>1, <1>18 DEF listenerVars, sigs
<1> QED
  BY <1>2, <1>3, <1>4, <1>5, <1>6, <1>7, <1>8, <1>9, <1>10, <1>11, <1>12, <1>13, <1>14,
     <1>15, <1>16, <1>17, <1>18
  DEF ListenerNext, Main, Poll, Failure, Handler, Environment, Ended

\* The invariant holds from the start of the listen loop on.
THEOREM ListenerInvariance == ListenerSpec => []ListenerInv
<1>1. ListenerInit => ListenerInv
  <2> SUFFICES ASSUME ListenerInit PROVE ListenerInv
    OBVIOUS
  <2>1. handlers \in Seq(Frames)
    BY DEF ListenerInit
  <2>2. sent \in [Signals -> Nat]
    BY DEF ListenerInit
  <2>3. pidfile \in BOOLEAN
    BY ListenerAssumption, Zenon DEF ListenerInit
  <2>a. /\ exit_signal \in BOOLEAN /\ reload_signal \in BOOLEAN
        /\ pollset_jmp \in BOOLEAN /\ pollset_intr \in BOOLEAN
    BY Zenon DEF ListenerInit
  <2>b. rulefile \in Nat /\ rewrite_rules \in 0..rulefile
    BY DEF ListenerInit
  <2>c. /\ queue \in [Fds -> Seq(Packets)] /\ request \subseteq Packets
        /\ revents \subseteq Fds /\ pending \subseteq Signals
        /\ \A w \in worker : w.req \in Packets /\ w.req.op \in {"RRQ", "WRQ"}
    BY DEF ListenerInit
  <2>4. ListenerTypeOK
    BY <2>1, <2>2, <2>3, <2>a, <2>b, <2>c DEF ListenerInit, ListenerTypeOK, Places
  <2> QED BY <2>4 DEF ListenerInit, ListenerInv
<1>2. ListenerInv /\ [ListenerNext]_listenerVars => ListenerInv'
  BY SignalStep
<1> QED BY <1>1, <1>2, PTL DEF ListenerSpec

\* pollset_notify_signal never jumps into a pollset_poll that has returned or has not
\* called sigsetjmp yet.
THEOREM JumpsAreLive == ListenerSpec => []JumpTargetLive
<1>1. ListenerInv => JumpTargetLive
  BY DEF ListenerInv, JumpTargetLive
<1> QED BY <1>1, ListenerInvariance, PTL

\* The listener never sleeps in ppoll while a signal flag waits to be acted upon.
THEOREM NoLostWakeup == ListenerSpec => []NoSleepOnSignal
<1>1. ListenerInv => NoSleepOnSignal
  BY DEF ListenerInv, NoSleepOnSignal, Noticed
<1> QED BY <1>1, ListenerInvariance, PTL

\* A handler that has set its flag still finds it set: main does not run meanwhile.
FlagInv ==
  \A i \in DOMAIN handlers : handlers[i].set =>
    IF handlers[i].sig = "HUP" /\ Standalone THEN reload_signal ELSE exit_signal

\* A step that leaves alone the signals and the rules, and does not come from the place
\* where the rules are read.
RulesAlone ==
  /\ UNCHANGED <<exit_signal, reload_signal, handlers, pending, rulefile, rewrite_rules>>
  /\ pc \in {"read", "exit"} => pc' = pc \/ pc' = "exit"

\* Which steps those are.
LEMMA AloneShape ==
  [ListenerNext]_listenerVars =>
    \/ RulesAlone
    \/ SetFlag \/ Notify \/ CheckExit \/ CheckReload \/ ReadRules
    \/ \E s \in Signals : Kill(s) \/ Deliver(s)
<1> SUFFICES ASSUME [ListenerNext]_listenerVars
             PROVE  \/ RulesAlone
                    \/ SetFlag \/ Notify \/ CheckExit \/ CheckReload \/ ReadRules
                    \/ \E s \in Signals : Kill(s) \/ Deliver(s)
  OBVIOUS
<1> USE DEF RulesAlone, At, Goto, Exit, flags, sigs, files
<1>1. CASE RulesRead \/ PollEnter \/ PollArm \/ PollRecheck
  BY <1>1 DEF RulesRead, PollEnter, PollArm, PollRecheck
<1>2. CASE PollReady \/ PollTimeout \/ Polled \/ PollIntr \/ PollDisarm
  BY <1>2 DEF PollReady, PollTimeout, Polled, PollIntr, PollDisarm
<1>3. CASE Recv \/ RecvNothing \/ ListenError
  BY <1>3 DEF Recv, RecvNothing, ListenError
<1>4. CASE Ignore \/ Fork \/ ForkFails \/ ReadRulesFails
  BY <1>4 DEF Ignore, Fork, ForkFails, ReadRulesFails
<1>5. CASE \E pkt \in Packets : Arrive(pkt)
  BY <1>5 DEF Arrive
<1>6. CASE UNCHANGED listenerVars
  BY <1>6 DEF listenerVars
<1> QED
  BY <1>1, <1>2, <1>3, <1>4, <1>5, <1>6
  DEF ListenerNext, Main, Poll, Failure, Handler, Environment, Ended

\* No step forgets a change of the rules.
LEMMA ReloadStep ==
  ListenerInv /\ FlagInv /\ ReloadNotLost /\ [ListenerNext]_listenerVars =>
    FlagInv' /\ ReloadNotLost'
<1> SUFFICES ASSUME ListenerInv, FlagInv, ReloadNotLost, [ListenerNext]_listenerVars
             PROVE  FlagInv' /\ ReloadNotLost'
  OBVIOUS
<1>0. /\ handlers \in Seq(Frames) /\ exit_signal \in BOOLEAN /\ reload_signal \in BOOLEAN
      /\ Standalone \in BOOLEAN
  BY ListenerAssumption DEF ListenerInv, ListenerTypeOK
<1>1. CASE RulesAlone
  BY <1>1 DEF RulesAlone, FlagInv, ReloadNotLost, Running
<1>2. ASSUME NEW s \in Signals, Kill(s) PROVE FlagInv' /\ ReloadNotLost'
  BY <1>2 DEF Kill, flags, FlagInv, ReloadNotLost, Running
<1>3. ASSUME NEW s \in Signals, Deliver(s) PROVE FlagInv' /\ ReloadNotLost'
  <2> DEFINE f == [sig |-> s, set |-> FALSE]
  <2>1. f \in Frames /\ f.sig = s /\ ~f.set
    BY DEF Frames
  <2>2. handlers' = <<f>> \o handlers
    BY <1>3 DEF Deliver
  <2> HIDE DEF f
  <2>3. /\ \A i \in DOMAIN handlers : i + 1 \in DOMAIN handlers' /\ handlers'[i + 1] = handlers[i]
        /\ 1 \in DOMAIN handlers' /\ handlers'[1] = f
        /\ \A i \in DOMAIN handlers' : i # 1 => i - 1 \in DOMAIN handlers /\ handlers'[i] = handlers[i - 1]
    BY <1>0, <2>1, <2>2, FrameBelow
  <2>4. Running' = Running \cup {s}
    BY <2>1, <2>3 DEF Running
  <2>5. UNCHANGED <<pc, exit_signal, reload_signal, rulefile, rewrite_rules>>
        /\ pending' = pending \ {s}
    BY <1>3 DEF Deliver, flags, files
  <2>6. FlagInv'
    BY <2>1, <2>3, <2>5 DEF FlagInv
  <2>7. ReloadNotLost'
    BY <2>4, <2>5 DEF ReloadNotLost
  <2> QED BY <2>6, <2>7
<1>4. CASE SetFlag
  <2>1. 1 \in DOMAIN handlers /\ handlers[1] \in Frames /\ Head(handlers) = handlers[1]
    BY <1>0, <1>4 DEF SetFlag
  <2>2. handlers' = [handlers EXCEPT ![1].set = TRUE]
    BY <1>4 DEF SetFlag
  <2>3. /\ DOMAIN handlers' = DOMAIN handlers
        /\ \A i \in DOMAIN handlers : handlers'[i].sig = handlers[i].sig
        /\ \A i \in DOMAIN handlers : i # 1 => handlers'[i] = handlers[i]
    BY <1>0, <2>1, <2>2 DEF Frames
  <2>4. IF handlers[1].sig = "HUP" /\ Standalone
        THEN reload_signal' /\ exit_signal' = exit_signal
        ELSE exit_signal' /\ reload_signal' = reload_signal
    BY <1>4, <2>1 DEF SetFlag
  <2>5. UNCHANGED <<pc, pending, rulefile, rewrite_rules>>
    BY <1>4 DEF SetFlag, files
  <2>6. FlagInv'
    BY <2>3, <2>4 DEF FlagInv
  <2>7. Running' = Running
    BY <2>3 DEF Running
  <2>8. ReloadNotLost'
    BY <2>4, <2>5, <2>7 DEF ReloadNotLost
  <2> QED BY <2>6, <2>8
<1>5. CASE Notify
  <2>1. 1 \in DOMAIN handlers /\ handlers[1] \in Frames /\ handlers[1].set
    BY <1>0, <1>5 DEF Notify
  <2>2. UNCHANGED <<exit_signal, reload_signal>>
    BY <1>5 DEF Notify
  <2>3. Standalone => (reload_signal' \/ exit_signal')
    BY <2>1, <2>2 DEF FlagInv
  <2>4. handlers' = Tail(handlers) \/ handlers' = <<>>
    BY <1>5 DEF Notify
  <2>5. \A i \in DOMAIN handlers' : i + 1 \in DOMAIN handlers /\ handlers'[i] = handlers[i + 1]
    BY <1>0, <2>1, <2>4
  <2>6. FlagInv'
    BY <2>2, <2>5 DEF FlagInv
  <2> QED BY <2>3, <2>6 DEF ReloadNotLost
<1>6. CASE CheckExit
  BY <1>6 DEF CheckExit, At, Goto, Exit, flags, sigs, FlagInv, ReloadNotLost, Running
<1>7. CASE CheckReload
  BY <1>7 DEF CheckReload, At, Goto, sigs, files, FlagInv, ReloadNotLost, Running
<1>8. CASE ReadRules
  BY <1>8 DEF ReadRules, At, Goto, flags, sigs, FlagInv, ReloadNotLost, Running
<1> QED BY <1>1, <1>2, <1>3, <1>4, <1>5, <1>6, <1>7, <1>8, AloneShape

\* However the handlers nest, jump and interrupt main, a SIGHUP's change of the rules is
\* still to be read, has been read, or the daemon is to end.
THEOREM ReloadsKept == ListenerSpec => []ReloadNotLost
<1>1. ListenerInit => FlagInv /\ ReloadNotLost
  BY DEF ListenerInit, FlagInv, ReloadNotLost
<1>2. ListenerInv /\ FlagInv /\ ReloadNotLost /\ [ListenerNext]_listenerVars =>
        FlagInv' /\ ReloadNotLost'
  BY ReloadStep
<1> QED BY <1>1, <1>2, ListenerInvariance, PTL DEF ListenerSpec

(***************************************************************************)
(* Privileges                                                               *)
(***************************************************************************)

\* The privileges the server was started with.
Owned == {v \in Privs : Cap[v] \in conf.caps}

\* Where main is from its options to the wait for requests.
UpToListening == {"options", "initgroups", "grouped", "sockets", "bind", "bound", "listening"}

\* What the static masks of capset_privs say, and that the kernel agrees with them.
MaskInv ==
  /\ known = (place # "main" /\ conf.readable)
  /\ place = "main" => dropped = {}
  /\ place = "main" \/ (~conf.readable /\ place \notin {"user", "serve", "exit"}) =>
       capE = conf.caps /\ capP = conf.caps
  /\ known =>
       /\ Privs \ Owned \subseteq dropped
       /\ permitted = Owned \cap (effective \cup (Privs \ dropped))
       /\ effective \subseteq permitted
       /\ place # "exit" => \/ capE = Caps(effective) /\ capP = Caps(permitted)
                            \/ place = "user" /\ capE = {} /\ capP = {}

\* Where a privilege is still to be used, it has not been dropped, and where it is used
\* it is asserted.
PrivsKept ==
  /\ conf.standalone /\ place \in {"options", "initgroups", "grouped", "sockets"} =>
       ("LISTEN" \in Owned => "LISTEN" \notin dropped)
  /\ conf.privports /\ place \in UpToListening =>
       ("PORTRANGE" \in Owned => "PORTRANGE" \notin dropped)
  /\ conf.secure /\ place \in UpToListening \cup {"port", "jail"} =>
       ("CHROOT" \in Owned => "CHROOT" \notin dropped)
  /\ uid # conf.pw /\ place \in UpToListening \cup {"port", "jail", "chroot", "setid"} =>
       ("SETUID" \in Owned => "SETUID" \notin dropped)
  /\ place = "bind" => ("LISTEN" \in Owned => "LISTEN" \in effective)
  /\ place = "port" /\ conf.privports => ("PORTRANGE" \in Owned => "PORTRANGE" \in effective)
  /\ place = "chroot" => ("CHROOT" \in Owned => "CHROOT" \in effective)
  /\ place \in {"setgid", "setuid"} /\ uid # conf.pw =>
       ("SETUID" \in Owned => "SETUID" \in effective)
  /\ place \in {"user", "serve"} => ("SETUID" \in Owned => uid = conf.pw)

\* Where a privilege has no use any more, it is not asserted, or has been dropped.
PrivsGone ==
  /\ place \in {"options", "sockets", "listening", "serve"} => effective = {}
  /\ place \in {"setgid", "setuid", "user", "serve"} => dropped = Privs
  /\ place \in {"bind", "bound"} => "LISTEN" \in dropped
  /\ ~conf.standalone /\ place \in {"initgroups", "grouped"} => "LISTEN" \in dropped
  /\ ~conf.privports /\ place \in UpToListening \ {"options"} => "PORTRANGE" \in dropped
  /\ ~conf.secure /\ place \in UpToListening \ {"options"} => "CHROOT" \in dropped
  /\ uid = conf.pw /\ place \in UpToListening \ {"options"} => "SETUID" \in dropped
  /\ gid = conf.pw /\ place \in {"sockets", "bind", "bound", "listening"} =>
       "SETGID" \in dropped
  /\ place = "listening" => "LISTEN" \in dropped

\* What is asserted, and what has been dropped, where the program is.
DropInv ==
  /\ place \in {"sockets", "bind", "bound"} => conf.standalone
  /\ place \in {"jail", "chroot"} => conf.secure
  /\ known => PrivsKept /\ PrivsGone

PrivInv == PrivTypeOK /\ MaskInv /\ DropInv

\* How the server may be started.
LEMMA ConfTypes ==
  ASSUME PrivTypeOK
  PROVE  /\ conf.pw \in Ids /\ conf.uid \in Ids /\ conf.gid \in Ids
         /\ conf.groups \subseteq Ids /\ conf.caps \subseteq Capabilities
BY ConfAssumption DEF PrivTypeOK, AllConfs

\* The capabilities behind the privileges.
LEMMA CapFacts ==
  /\ Cap["LISTEN"] = "NET_BIND" /\ Cap["PORTRANGE"] = "NET_BIND"
  /\ Cap["CHROOT"] = "SYS_CHROOT" /\ Cap["SETUID"] = "SETUID" /\ Cap["SETGID"] = "SETGID"
BY DEF Cap, Privs

\* What a set of privileges asserts.
LEMMA CapsFacts ==
  ASSUME NEW S \in SUBSET Privs
  PROVE  /\ Caps(S) \subseteq Capabilities
         /\ "NET_BIND" \in Caps(S) <=> "LISTEN" \in S \/ "PORTRANGE" \in S
         /\ "SYS_CHROOT" \in Caps(S) <=> "CHROOT" \in S
         /\ "SETUID" \in Caps(S) <=> "SETUID" \in S
         /\ "SETGID" \in Caps(S) <=> "SETGID" \in S
         /\ S = {} => Caps(S) = {}
BY CapFacts DEF Caps, Capabilities, Privs

\* A server that is allowed to look finds what it was started with.
LEMMA FoundIsOwned ==
  ASSUME PrivTypeOK, capP = conf.caps
  PROVE  Found = Owned /\ Caps(Owned) = capP
<1>1. Found = Owned
  BY DEF Found, Owned
<1>2. Caps(Owned) \subseteq capP
  BY DEF Caps, Owned
<1>3. ASSUME NEW c \in capP PROVE c \in Caps(Owned)
  <2>1. PICK v \in Privs : c = Cap[v]
    BY <1>3 DEF PrivTypeOK, Capabilities
  <2> QED
    BY <1>3, <2>1 DEF Caps, Owned
<1> QED
  BY <1>1, <1>2, <1>3

\* What a call of capset_privs does to the masks and the kernel's sets.
LEMMA CapsetMasks ==
  ASSUME PrivInv, NEW now \in SUBSET Privs, NEW drop \in SUBSET Privs,
         CapsetPrivs(now, drop), UNCHANGED <<conf, ids>>,
         place \notin {"serve", "exit"}, place' \notin {"main", "user"},
         place = "user" => place' = "serve" /\ now = {}
  PROVE  /\ PrivTypeOK' /\ MaskInv' /\ Owned' = Owned
         /\ conf.readable =>
              /\ known' /\ dropped' = dropped \cup drop \cup (Privs \ Owned)
              /\ effective' = now \cap IF known THEN permitted ELSE Owned
<1>0. Owned' = Owned /\ conf' = conf /\ UNCHANGED <<uid, gid, groups>>
  BY DEF Owned, ids
<1>1. CASE ~conf.readable
  <2>1. known = FALSE /\ known' = FALSE /\ UNCHANGED <<effective, permitted, capE, capP>>
        /\ dropped' = dropped \cup drop
    BY <1>1, Zenon DEF CapsetPrivs, PrivInv, MaskInv
  <2>2. place' \notin {"user", "serve", "exit"} => capE = conf.caps /\ capP = conf.caps
    BY <1>1 DEF PrivInv, MaskInv
  <2>3. PrivTypeOK'
    BY <1>0, <2>1, Zenon DEF PrivInv, PrivTypeOK
  <2> QED
    BY <1>0, <1>1, <2>1, <2>2, <2>3, Zenon DEF MaskInv
<1>2. CASE conf.readable
  <2> DEFINE have   == IF known THEN permitted ELSE Owned
             gone   == dropped \cup drop \cup (Privs \ Owned)
             wanted == now \cap have
             keep   == Kept(have, wanted, gone)
  <2>1. /\ dropped' = gone /\ known' = TRUE /\ effective' = wanted /\ permitted' = keep
        /\ IF known /\ wanted = effective /\ keep = permitted
           THEN UNCHANGED <<capE, capP>> ELSE SetProc(wanted, keep)
    <3>1. CASE known
      BY <1>2, <3>1, Zenon DEF CapsetPrivs, PrivInv, MaskInv
    <3>2. CASE ~known
      <4>1. capP = conf.caps
        BY <1>2, <3>2, Zenon DEF PrivInv, MaskInv
      <4>2. Found = Owned
        BY <4>1, FoundIsOwned DEF PrivInv
      <4> QED
        BY <1>2, <3>2, <4>2 DEF CapsetPrivs
    <3> QED
      BY <3>1, <3>2, Zenon
  <2>2. /\ have \subseteq Owned /\ Owned \subseteq Privs
        /\ known => permitted = Owned \cap (effective \cup (Privs \ dropped))
    BY DEF PrivInv, MaskInv, Owned
  <2>3. keep = Owned \cap (wanted \cup (Privs \ gone))
    BY <2>2 DEF Kept
  <2>4. wanted \subseteq keep /\ keep \subseteq Privs /\ gone \subseteq Privs
    BY <2>2, <2>3 DEF PrivInv, PrivTypeOK
  <2>5. capE' = Caps(wanted) /\ capP' = Caps(keep)
    <3>1. CASE known /\ wanted = effective /\ keep = permitted
      <4>1. CASE place = "user"
        <5>1. effective = {} /\ permitted = {}
          BY <3>1, <4>1, <2>3 DEF PrivInv, DropInv, PrivsKept, PrivsGone
        <5> QED
          BY <2>1, <3>1, <4>1, <5>1, CapsFacts, Zenon DEF PrivInv, MaskInv
      <4>2. CASE place # "user"
        BY <2>1, <3>1, <4>2 DEF PrivInv, MaskInv
      <4> QED
        BY <4>1, <4>2
    <3>2. CASE ~(known /\ wanted = effective /\ keep = permitted)
      BY <2>1, <3>2 DEF SetProc
    <3> QED
      BY <3>1, <3>2
  <2>6. Caps(wanted) \subseteq Caps(keep) /\ Caps(keep) \subseteq Capabilities
    BY <2>4 DEF Caps, Capabilities
  <2>7. PrivTypeOK'
    BY <1>0, <2>1, <2>4, <2>5, <2>6 DEF PrivInv, PrivTypeOK
  <2>8. MaskInv'
    BY <1>0, <1>2, <2>1, <2>3, <2>4, <2>5, Zenon DEF MaskInv
  <2> QED
    BY <1>0, <2>1, <2>7, <2>8
<1> QED
  BY <1>1, <1>2

\* The calls that main makes before it waits for requests keep the invariant.
LEMMA MainCallsInv ==
  ASSUME PrivInv, \/ Start \/ MapTest \/ BeforeInitgroups \/ AfterInitgroups
                  \/ BeforeListen \/ AfterListen
  PROVE  PrivInv'
<1> USE DEF Call
<1>1. CASE Start
  <2>1. PrivTypeOK' /\ MaskInv' /\ Owned' = Owned
        /\ (conf.readable => dropped' = dropped \cup (Privs \ Owned) /\ effective' = {})
    BY <1>1, CapsetMasks DEF Start
  <2> QED
    BY <1>1, <2>1, Zenon
       DEF Start, PrivInv, MaskInv, DropInv, PrivsKept, PrivsGone, UpToListening, ids
<1>2. CASE MapTest
  <2>1. PrivTypeOK' /\ MaskInv'
    BY <1>2, CapsetMasks DEF MapTest
  <2> QED
    BY <1>2, <2>1 DEF MapTest, PrivInv, DropInv, PrivsKept, PrivsGone, UpToListening
<1>3. CASE BeforeInitgroups
  <2> DEFINE drop == (IF conf.standalone THEN {} ELSE {"LISTEN"})
                       \cup (IF conf.privports THEN {} ELSE {"PORTRANGE"})
                       \cup (IF conf.secure THEN {} ELSE {"CHROOT"})
                       \cup (IF CanDropSetuid THEN {"SETUID"} ELSE {})
  <2>0. drop \subseteq Privs /\ CapsetPrivs({"SETGID"}, drop) /\ UNCHANGED <<conf, ids>>
        /\ place = "options" /\ place' = "initgroups"
    BY <1>3 DEF BeforeInitgroups, Privs
  <2> HIDE DEF drop
  <2>1. PrivTypeOK' /\ MaskInv' /\ Owned' = Owned
        /\ (known => /\ dropped' = dropped \cup drop \cup (Privs \ Owned)
                     /\ effective' = {"SETGID"} \cap permitted)
    BY <2>0, CapsetMasks, Zenon DEF PrivInv, MaskInv, Privs
  <2> QED
    BY <2>0, <2>1, Zenon
       DEF drop, PrivInv, MaskInv, DropInv, PrivsKept, PrivsGone, UpToListening, ids, CanDropSetuid
<1>4. CASE AfterInitgroups
  <2>1. PrivTypeOK' /\ MaskInv' /\ Owned' = Owned
        /\ (known => /\ dropped' = dropped \cup (IF CanDropSetgid THEN {"SETGID"} ELSE {})
                                             \cup (Privs \ Owned)
                     /\ effective' = {} \cap permitted)
    BY <1>4, CapsetMasks, Zenon DEF AfterInitgroups, PrivInv, MaskInv, Privs
  <2> QED
    BY <1>4, <2>1, Zenon
       DEF AfterInitgroups, PrivInv, MaskInv, DropInv, PrivsKept, PrivsGone, UpToListening, ids,
                              CanDropSetgid
<1>5. CASE BeforeListen
  <2>1. PrivTypeOK' /\ MaskInv' /\ Owned' = Owned
        /\ (known => /\ dropped' = dropped \cup {"LISTEN"} \cup (Privs \ Owned)
                     /\ effective' = {"LISTEN"} \cap permitted)
    BY <1>5, CapsetMasks, Zenon DEF BeforeListen, PrivInv, MaskInv, Privs
  <2> QED
    <3>1. /\ place = "sockets" /\ place' = "bind" /\ UNCHANGED <<conf, uid, gid>>
          /\ known' = known
      BY <1>5, <2>1, Zenon DEF BeforeListen, Call, PrivInv, MaskInv, ids
    <3>2. conf.standalone
      BY <3>1 DEF PrivInv, DropInv, PrivsKept, PrivsGone
    <3>3. CASE ~known
      BY <2>1, <3>1, <3>2, <3>3 DEF PrivInv, DropInv, PrivsKept, PrivsGone
    <3>4. CASE known
      <4>1. /\ dropped' = dropped \cup {"LISTEN"} \cup (Privs \ Owned)
            /\ effective' = {"LISTEN"} \cap permitted
        BY <2>1, <3>4, Zenon
      <4>2. permitted = Owned \cap (effective \cup (Privs \ dropped))
        BY <3>4, Zenon DEF PrivInv, MaskInv
      <4>3. "LISTEN" \in Owned => "LISTEN" \notin dropped
        BY <3>1, <3>2, <3>4 DEF PrivInv, DropInv, PrivsKept, PrivsGone
      <4>4. "LISTEN" \in Owned => "LISTEN" \in effective'
        BY <4>1, <4>2, <4>3 DEF Privs
      <4>5. DropInv'
        <5>1. DropInv /\ Owned' = Owned
          BY <2>1, Zenon DEF PrivInv
        <5>2. /\ "LISTEN" \in dropped' /\ dropped \subseteq dropped'
              /\ \A x \in {"PORTRANGE", "CHROOT", "SETUID"} :
                   x \in Owned /\ x \notin dropped => x \notin dropped'
          BY <4>1
        <5> QED
          BY <3>1, <3>2, <3>4, <4>4, <5>1, <5>2 DEF DropInv, PrivsKept, PrivsGone, UpToListening
      <4> QED
        BY <2>1, <4>5 DEF PrivInv
    <3> QED
      BY <3>3, <3>4
<1>6. CASE AfterListen
  <2>1. PrivTypeOK' /\ MaskInv' /\ Owned' = Owned
        /\ (known => /\ dropped' = dropped \cup {} \cup (Privs \ Owned)
                     /\ effective' = {} \cap permitted)
    BY <1>6, CapsetMasks, Zenon DEF AfterListen, PrivInv, MaskInv, Privs
  <2> QED
    BY <1>6, <2>1, Zenon
       DEF AfterListen, PrivInv, MaskInv, DropInv, PrivsKept, PrivsGone, UpToListening, ids
<1> QED
  BY <1>1, <1>2, <1>3, <1>4, <1>5, <1>6

\* The calls that a worker makes keep the invariant.
LEMMA WorkerCallsInv ==
  ASSUME PrivInv, BeforeSocketBind \/ BeforeChroot \/ BeforeSetid \/ AfterSetid
  PROVE  PrivInv'
<1> USE DEF Call
<1>1. CASE BeforeSocketBind
  <2>1. PrivTypeOK' /\ MaskInv' /\ Owned' = Owned
        /\ (known => /\ dropped' = dropped \cup {"PORTRANGE"} \cup (Privs \ Owned)
                     /\ effective' = {"PORTRANGE"} \cap permitted)
    BY <1>1, CapsetMasks, Zenon
       DEF BeforeSocketBind, PrivInv, MaskInv, DropInv, PrivsKept, PrivsGone, Privs
  <2> QED
    BY <1>1, <2>1, Zenon
       DEF BeforeSocketBind, PrivInv, MaskInv, DropInv, PrivsKept, PrivsGone, UpToListening, ids, Privs
<1>2. CASE BeforeChroot
  <2>1. PrivTypeOK' /\ MaskInv' /\ Owned' = Owned
        /\ (known => /\ dropped' = dropped \cup {"CHROOT"} \cup (Privs \ Owned)
                     /\ effective' = {"CHROOT"} \cap permitted)
    BY <1>2, CapsetMasks, Zenon
       DEF BeforeChroot, PrivInv, MaskInv, DropInv, PrivsKept, PrivsGone, Privs
  <2> QED
    BY <1>2, <2>1, Zenon
       DEF BeforeChroot, PrivInv, MaskInv, DropInv, PrivsKept, PrivsGone, UpToListening, ids, Privs
<1>3. CASE BeforeSetid
  <2>1. PrivTypeOK' /\ MaskInv' /\ Owned' = Owned
        /\ (known => /\ dropped' = dropped \cup Privs \cup (Privs \ Owned)
                     /\ effective' = {"SETUID", "SETGID"} \cap permitted)
    BY <1>3, CapsetMasks, Zenon
       DEF BeforeSetid, PrivInv, MaskInv, DropInv, PrivsKept, PrivsGone, Privs
  <2>2. known => dropped' = Privs
    BY <2>1 DEF PrivInv, PrivTypeOK
  <2> QED
    BY <1>3, <2>1, <2>2, Zenon
       DEF BeforeSetid, PrivInv, MaskInv, DropInv, PrivsKept, PrivsGone, UpToListening, ids, Privs
<1>4. CASE AfterSetid
  <2>1. PrivTypeOK' /\ MaskInv' /\ Owned' = Owned
        /\ (known => /\ dropped' = dropped \cup {} \cup (Privs \ Owned)
                     /\ effective' = {} \cap permitted)
    BY <1>4, CapsetMasks, Zenon
       DEF AfterSetid, PrivInv, MaskInv, DropInv, PrivsKept, PrivsGone, Privs
  <2> QED
    BY <1>4, <2>1, Zenon
       DEF AfterSetid, PrivInv, MaskInv, DropInv, PrivsKept, PrivsGone, UpToListening, ids, Privs
<1> QED
  BY <1>1, <1>2, <1>3, <1>4

\* The operations between the calls keep the invariant.
LEMMA OperationsInv ==
  ASSUME PrivInv, \/ Initgroups \/ Listen \/ PickPortBind \/ Chroot
                  \/ Setresgid \/ Setresuid \/ Fail \/ UNCHANGED privVars
  PROVE  PrivInv'
<1>1. CASE Listen \/ PickPortBind \/ Chroot \/ Fail \/ UNCHANGED privVars
  <2>1. UNCHANGED <<conf, known, effective, permitted, dropped, capE, capP, uid, gid, groups>>
    BY <1>1 DEF Listen, PickPortBind, Chroot, Fail, privVars, masks, kernel, ids
  <2>2. Owned' = Owned /\ PrivTypeOK'
    BY <2>1 DEF Owned, PrivInv, PrivTypeOK
  <2>3. \/ place' \in {"exit", place}
        \/ place = "bind" /\ place' = "bound"
        \/ place = "port" /\ place' = "jail" /\ conf.secure
        \/ place = "port" /\ place' = "setid"
        \/ place = "chroot" /\ place' = "setid"
    BY <1>1 DEF Listen, PickPortBind, Chroot, Fail, privVars
  <2>4. place \in {"main", "exit"} => place' = place
    BY <1>1 DEF Listen, PickPortBind, Chroot, Fail, privVars
  <2>5. MaskInv'
    BY <2>1, <2>2, <2>3, <2>4 DEF PrivInv, MaskInv
  <2>6. DropInv'
    <3>1. CASE place' = "exit"
      BY <3>1 DEF DropInv, PrivsKept, PrivsGone, UpToListening
    <3>5. CASE place' = place
      <4>1. /\ conf' = conf /\ known' = known /\ effective' = effective
            /\ dropped' = dropped /\ uid' = uid /\ gid' = gid /\ Owned' = Owned
        BY <2>1, <2>2, Zenon
      <4>2. DropInv
        BY Zenon DEF PrivInv
      <4> QED
        <5>1. PrivsKept => PrivsKept'
          BY <3>5, <4>1 DEF PrivsKept
        <5>2. PrivsGone => PrivsGone'
          BY <3>5, <4>1, Zenon DEF PrivsGone
        <5> QED
          BY <3>5, <4>1, <4>2, <5>1, <5>2, Zenon DEF DropInv
    <3>2. CASE place = "bind" /\ place' = "bound"
      BY <2>1, <2>2, <3>2, Zenon DEF PrivInv, DropInv, PrivsKept, PrivsGone, UpToListening
    <3>3. CASE place = "port" /\ place' = "jail" /\ conf.secure
      BY <2>1, <2>2, <3>3, Zenon DEF PrivInv, DropInv, PrivsKept, PrivsGone, UpToListening
    <3>4. CASE (place = "port" \/ place = "chroot") /\ place' = "setid"
      BY <2>1, <2>2, <3>4, Zenon DEF PrivInv, DropInv, PrivsKept, PrivsGone, UpToListening
    <3> QED
      BY <2>3, <3>1, <3>2, <3>3, <3>4, <3>5, Zenon
  <2> QED
    BY <2>2, <2>5, <2>6 DEF PrivInv
<1>2. CASE Initgroups
  <2>1. PrivTypeOK'
    BY <1>2, ConfTypes, Zenon DEF Initgroups, PrivInv, PrivTypeOK, masks
  <2>2. /\ place = "initgroups" /\ place' = "grouped"
        /\ UNCHANGED <<conf, known, effective, permitted, dropped, capE, capP, uid>>
    BY <1>2, Zenon DEF Initgroups, masks
  <2>3. Owned' = Owned
    BY <2>2, Zenon DEF Owned
  <2>4. MaskInv'
    BY <2>2, <2>3, Zenon DEF PrivInv, MaskInv
  <2>5. DropInv'
    BY <2>2, <2>3, Zenon DEF PrivInv, DropInv, PrivsKept, PrivsGone, UpToListening
  <2> QED
    BY <2>1, <2>4, <2>5, Zenon DEF PrivInv
<1>3. CASE Setresgid
  <2>1. PrivTypeOK'
    BY <1>3, ConfTypes DEF Setresgid, PrivInv, PrivTypeOK, masks
  <2> QED
    BY <1>3, <2>1, Zenon
       DEF Setresgid, PrivInv, MaskInv, DropInv, PrivsKept, PrivsGone, UpToListening, Owned, masks
<1>4. CASE Setresuid
  <2>1. PrivTypeOK'
    BY <1>4, ConfTypes DEF Setresuid, PrivInv, PrivTypeOK, masks
  <2>2. known /\ "SETUID" \in Owned => uid' = conf.pw
    BY <1>4, CapsFacts
       DEF Setresuid, PrivInv, PrivTypeOK, MaskInv, DropInv, PrivsKept, PrivsGone
  <2>3. Owned' = Owned /\ UNCHANGED <<conf, known, effective, permitted, dropped>>
        /\ place = "setuid" /\ place' = "user"
    BY <1>4, Zenon DEF Setresuid, Owned, masks
  <2>4. UNCHANGED <<capE, capP>> \/ (capE' = {} /\ capP' = {})
    BY <1>4 DEF Setresuid
  <2>5. MaskInv'
    BY <2>3, <2>4 DEF PrivInv, MaskInv
  <2>6. DropInv'
    BY <2>2, <2>3 DEF PrivInv, DropInv, PrivsKept, PrivsGone, UpToListening
  <2> QED
    BY <2>1, <2>5, <2>6 DEF PrivInv
<1> QED
  BY <1>1, <1>2, <1>3, <1>4

\* The masks and the kernel's sets of capabilities.
THEOREM PrivInvariance == PrivSpec => []PrivInv
<1>1. ASSUME PrivInit PROVE PrivInv
  <2>1. conf.uid \in Ids /\ conf.gid \in Ids /\ conf.groups \subseteq Ids
        /\ conf.caps \subseteq Capabilities
    BY <1>1, ConfAssumption DEF PrivInit, AllConfs
  <2> QED
    BY <1>1, <2>1, Zenon
       DEF PrivInit, PrivInv, PrivTypeOK, MaskInv, DropInv, PrivsKept, PrivsGone, UpToListening
<1>2. PrivInv /\ [PrivNext]_privVars => PrivInv'
  BY MainCallsInv, WorkerCallsInv, OperationsInv DEF PrivNext
<1> QED
  BY <1>1, <1>2, PTL DEF PrivSpec

\* The privilege to change groups is asserted for initgroups, and kept after it by a
\* process that is not in its group.
OutsideGroup == gid # conf.pw /\ conf.pw \notin groups
BeforeGrouped == {"options", "initgroups", "grouped"}
AfterGrouped == {"sockets", "bind", "bound", "listening", "port", "jail", "chroot", "setid"}
GroupInv ==
  known /\ "SETGID" \in Owned =>
    /\ place \in BeforeGrouped => "SETGID" \notin dropped
    /\ place = "initgroups" => "SETGID" \in effective
    /\ place \in AfterGrouped /\ OutsideGroup => "SETGID" \notin dropped
    /\ place = "setgid" /\ OutsideGroup => "SETGID" \in effective

\* A call of capset_privs that does not drop the privilege keeps it, and asserts it if
\* it is told to.
LEMMA GroupCall ==
  ASSUME PrivInv, GroupInv, NEW from, NEW to, NEW now \in SUBSET Privs,
         NEW drop \in SUBSET Privs, Call(from, to, now, drop),
         from \in {"main"} \cup BeforeGrouped \cup AfterGrouped,
         to \notin {"main", "user"}
  PROVE  /\ place = from /\ place' = to /\ Owned' = Owned /\ UNCHANGED <<conf, gid, groups>>
         /\ known' => /\ "SETGID" \in dropped' =>
                            "SETGID" \in dropped \cup drop \cup (Privs \ Owned)
                      /\ "SETGID" \in now \cap Owned /\ (known => "SETGID" \notin dropped) =>
                            "SETGID" \in effective'
<1>1. /\ place = from /\ place' = to /\ CapsetPrivs(now, drop) /\ UNCHANGED <<conf, ids>>
      /\ place \notin {"serve", "exit", "user"} /\ place' \notin {"main", "user"}
  BY DEF Call, BeforeGrouped, AfterGrouped
<1>2. /\ PrivTypeOK' /\ MaskInv' /\ Owned' = Owned
      /\ conf.readable =>
           /\ known' /\ dropped' = dropped \cup drop \cup (Privs \ Owned)
           /\ effective' = now \cap IF known THEN permitted ELSE Owned
  BY <1>1, CapsetMasks
<1>3. known' => conf.readable
  BY <1>1, <1>2 DEF MaskInv
<1>4. known => permitted = Owned \cap (effective \cup (Privs \ dropped))
  BY DEF PrivInv, MaskInv
<1>5. "SETGID" \in Privs
  BY DEF Privs
<1> QED
  BY <1>1, <1>2, <1>3, <1>4, <1>5 DEF ids

\* Every step keeps it.
LEMMA GroupStep ==
  ASSUME PrivInv, GroupInv, [PrivNext]_privVars
  PROVE  GroupInv'
<1> USE DEF BeforeGrouped, AfterGrouped
<1>0. /\ {} \in SUBSET Privs /\ Privs \in SUBSET Privs /\ {"SETGID"} \in SUBSET Privs
      /\ \A v \in Privs : {v} \in SUBSET Privs
      /\ {"SETUID", "SETGID"} \in SUBSET Privs /\ "SETGID" \in Privs
  BY DEF Privs
<1>1. CASE Start
  <2>1. Call("main", "options", {}, {})
    BY <1>1 DEF Start
  <2>2. place = "main" /\ dropped = {}
    BY <2>1 DEF Call, PrivInv, MaskInv
  <2>3. place' = "options" /\ Owned' = Owned /\ (known' /\ "SETGID" \in Owned => "SETGID" \notin dropped')
    BY <1>0, <2>1, <2>2, GroupCall
  <2> QED
    BY <2>3 DEF GroupInv
<1>2. CASE MapTest
  BY <1>2 DEF MapTest, Call, GroupInv
<1>3. CASE BeforeInitgroups
  <2> DEFINE drop == (IF conf.standalone THEN {} ELSE {"LISTEN"})
                       \cup (IF conf.privports THEN {} ELSE {"PORTRANGE"})
                       \cup (IF conf.secure THEN {} ELSE {"CHROOT"})
                       \cup (IF CanDropSetuid THEN {"SETUID"} ELSE {})
  <2>1. /\ drop \in SUBSET Privs /\ "SETGID" \notin drop
        /\ Call("options", "initgroups", {"SETGID"}, drop)
    BY <1>3 DEF BeforeInitgroups, Privs
  <2> HIDE DEF drop
  <2>2. /\ place = "options" /\ place' = "initgroups" /\ Owned' = Owned
        /\ known' => /\ "SETGID" \in dropped' => "SETGID" \in dropped \cup drop \cup (Privs \ Owned)
                     /\ "SETGID" \in Owned /\ (known => "SETGID" \notin dropped) =>
                           "SETGID" \in effective'
    BY <1>0, <2>1, GroupCall
  <2> QED
    <3>1. known' /\ "SETGID" \in Owned => "SETGID" \notin dropped
      <4>1. known' => known
        BY <1>3, <2>2, MainCallsInv DEF PrivInv, MaskInv, BeforeInitgroups, Call
      <4> QED
        BY <2>2, <4>1 DEF GroupInv
    <3> QED
      BY <2>1, <2>2, <3>1 DEF GroupInv
<1>4. CASE AfterInitgroups
  <2> DEFINE drop == IF CanDropSetgid THEN {"SETGID"} ELSE {}
             to == IF conf.standalone THEN "sockets" ELSE "listening"
  <2>1. drop \in SUBSET Privs /\ Call("grouped", to, {}, drop)
    BY <1>0, <1>4 DEF AfterInitgroups
  <2>2. ("SETGID" \in drop => ~OutsideGroup) /\ to \in {"sockets", "listening"}
    BY DEF CanDropSetgid, OutsideGroup
  <2> HIDE DEF drop, to
  <2>3. /\ place = "grouped" /\ place' = to /\ Owned' = Owned /\ UNCHANGED <<conf, gid, groups>>
        /\ known' /\ "SETGID" \in dropped' => "SETGID" \in dropped \cup drop \cup (Privs \ Owned)
    BY <1>0, <2>1, <2>2, GroupCall
  <2>4. known' => known
    BY <2>1, <2>3, MainCallsInv, <1>4 DEF PrivInv, MaskInv
  <2> QED
    BY <2>2, <2>3, <2>4 DEF GroupInv, OutsideGroup
<1>5. ASSUME NEW from \in AfterGrouped, NEW to \in AfterGrouped, NEW now \in SUBSET Privs,
             NEW drop \in SUBSET Privs, Call(from, to, now, drop), "SETGID" \notin drop, PrivInv'
      PROVE  GroupInv'
  <2>1. /\ place = from /\ place' = to /\ Owned' = Owned /\ UNCHANGED <<conf, gid, groups>>
        /\ known' /\ "SETGID" \in dropped' => "SETGID" \in dropped \cup drop \cup (Privs \ Owned)
    BY <1>5, GroupCall
  <2>2. known' => known
    BY <1>5, <2>1 DEF PrivInv, MaskInv
  <2> QED
    BY <1>5, <2>1, <2>2 DEF GroupInv, OutsideGroup
<1>6. CASE BeforeListen \/ AfterListen \/ BeforeSocketBind \/ BeforeChroot
  <2>1. PrivInv'
    BY <1>6, MainCallsInv, WorkerCallsInv
  <2>2. /\ {"LISTEN"} \in SUBSET Privs /\ "SETGID" \notin {"LISTEN"}
        /\ {"PORTRANGE"} \in SUBSET Privs /\ "SETGID" \notin {"PORTRANGE"}
        /\ {"CHROOT"} \in SUBSET Privs /\ "SETGID" \notin {"CHROOT"}
    BY DEF Privs
  <2>3. CASE BeforeListen
    BY <1>5, <2>1, <2>2, <2>3 DEF BeforeListen
  <2>4. CASE AfterListen
    BY <1>0, <1>5, <2>1, <2>4 DEF AfterListen
  <2>5. CASE BeforeSocketBind
    BY <1>5, <2>1, <2>2, <2>5 DEF BeforeSocketBind
  <2>6. CASE BeforeChroot
    BY <1>5, <2>1, <2>2, <2>6 DEF BeforeChroot
  <2> QED
    BY <1>6, <2>3, <2>4, <2>5, <2>6
<1>7. CASE BeforeSetid
  <2>1. Call("setid", "setgid", {"SETUID", "SETGID"}, Privs)
    BY <1>7 DEF BeforeSetid
  <2>2. /\ place = "setid" /\ place' = "setgid" /\ Owned' = Owned /\ UNCHANGED <<conf, gid, groups>>
        /\ known' /\ "SETGID" \in Owned /\ (known => "SETGID" \notin dropped) =>
             "SETGID" \in effective'
    BY <1>0, <2>1, GroupCall
  <2> QED
    BY <1>0, <2>2 DEF GroupInv, OutsideGroup
<1>8. CASE AfterSetid
  BY <1>8 DEF AfterSetid, Call, GroupInv
<1>9. CASE Initgroups
  <2>1. /\ place = "initgroups" /\ place' = "grouped"
        /\ UNCHANGED <<conf, known, effective, permitted, dropped>>
    BY <1>9 DEF Initgroups, masks
  <2> QED
    BY <2>1 DEF GroupInv, Owned
<1>10. CASE Setresgid \/ Setresuid \/ Fail
  BY <1>10 DEF Setresgid, Setresuid, Fail, GroupInv
<1>11. CASE Listen \/ PickPortBind \/ Chroot
  <2>1. /\ UNCHANGED <<conf, known, effective, permitted, dropped, gid, groups>>
        /\ place \in AfterGrouped /\ place' \in AfterGrouped \cup {"exit"}
    BY <1>11 DEF Listen, PickPortBind, Chroot, masks, kernel, ids
  <2> QED
    BY <2>1 DEF GroupInv, Owned, OutsideGroup
<1>12. CASE UNCHANGED privVars
  BY <1>12 DEF privVars, masks, kernel, ids, GroupInv, Owned, OutsideGroup
<1> QED
  BY <1>1, <1>2, <1>3, <1>4, <1>6, <1>7, <1>8, <1>9, <1>10, <1>11, <1>12 DEF PrivNext

\* Whichever capabilities, user and options the process starts with: at each of the six
\* operations that need a capability, the one that the process was given is effective,
\* unless it is that of setresgid in a process that is in its group already.
THEOREM KeptUntilUsed == PrivSpec => []NotDroppedEarly
<1>1. ASSUME PrivInv, GroupInv, place \in DOMAIN NeededAt
      PROVE  (NeededAt[place] \cap conf.caps) \ capE \subseteq DroppedEarly
  <2>1. /\ "NET_BIND" \in conf.caps => "LISTEN" \in Owned /\ "PORTRANGE" \in Owned
        /\ "SYS_CHROOT" \in conf.caps => "CHROOT" \in Owned
        /\ "SETUID" \in conf.caps => "SETUID" \in Owned
        /\ "SETGID" \in conf.caps => "SETGID" \in Owned
    BY CapFacts DEF Owned, Privs
  <2>2. effective \in SUBSET Privs
    BY <1>1 DEF PrivInv, PrivTypeOK
  <2>3. known => capE = Caps(effective) /\ conf.readable
    BY <1>1 DEF PrivInv, MaskInv, NeededAt
  <2>4. ~known => capE = conf.caps
    BY <1>1, Zenon DEF PrivInv, MaskInv, NeededAt
  <2>5. CASE place = "bind"
    BY <1>1, <2>1, <2>2, <2>3, <2>4, <2>5, CapsFacts
       DEF NeededAt, PrivInv, DropInv, PrivsKept, PrivsGone
  <2>6. CASE place = "port"
    BY <1>1, <2>1, <2>2, <2>3, <2>4, <2>6, CapsFacts
       DEF NeededAt, PrivInv, DropInv, PrivsKept, PrivsGone
  <2>7. CASE place = "chroot"
    BY <1>1, <2>1, <2>2, <2>3, <2>4, <2>7, CapsFacts
       DEF NeededAt, PrivInv, DropInv, PrivsKept, PrivsGone
  <2>8. CASE place = "setuid"
    BY <1>1, <2>1, <2>2, <2>3, <2>4, <2>8, CapsFacts
       DEF NeededAt, PrivInv, DropInv, PrivsKept, PrivsGone
  <2>9. CASE place = "initgroups"
    BY <1>1, <2>1, <2>2, <2>3, <2>4, <2>9, CapsFacts DEF NeededAt, GroupInv
  <2>10. CASE place = "setgid"
    BY <1>1, <2>1, <2>2, <2>3, <2>4, <2>10, CapsFacts
       DEF NeededAt, GroupInv, OutsideGroup, DroppedEarly
  <2> QED
    BY <1>1, <2>5, <2>6, <2>7, <2>8, <2>9, <2>10 DEF NeededAt
<1>2. PrivInv /\ GroupInv => NotDroppedEarly
  BY <1>1 DEF NotDroppedEarly
<1>3. PrivInit => GroupInv
  BY DEF PrivInit, GroupInv
<1> QED
  BY <1>2, <1>3, GroupStep, PrivInvariance, PTL DEF PrivSpec

\* With a readable capability state, a daemon that listens has given up the privileges
\* that no later step needs and holds none effective, and a worker that serves a request
\* has none left, whichever capabilities, user and options the process started with.
THEOREM LeastPrivilege == PrivSpec => []OnlyWhatIsNeeded
<1>1. ASSUME PrivInv PROVE OnlyWhatIsNeeded
  <2>1. CASE place = "listening" /\ conf.readable
    <3>1. capE = Caps(effective) /\ capP = Caps(permitted)
          /\ effective = {} /\ permitted \cap dropped = {} /\ "LISTEN" \in dropped
      BY <1>1, <2>1, Zenon DEF PrivInv, MaskInv, DropInv, PrivsKept, PrivsGone
    <3>2. permitted \in SUBSET Privs /\ effective \in SUBSET Privs
      BY <1>1 DEF PrivInv, PrivTypeOK
    <3>3. capE = {}
      BY <3>1, <3>2, CapsFacts
    <3>4. /\ "NET_BIND" \in capP => "LISTEN" \in permitted \/ "PORTRANGE" \in permitted
          /\ "SYS_CHROOT" \in capP => "CHROOT" \in permitted
          /\ "SETUID" \in capP => "SETUID" \in permitted
          /\ "SETGID" \in capP => "SETGID" \in permitted
      BY <3>1, <3>2, CapsFacts
    <3> QED
      BY <1>1, <2>1, <3>1, <3>3, <3>4, Zenon
         DEF PrivInv, MaskInv, DropInv, PrivsKept, PrivsGone, UpToListening, OnlyWhatIsNeeded
  <2>2. CASE place = "serve" /\ conf.readable
    <3>1. capE = Caps(effective) /\ capP = Caps(permitted) /\ effective = {} /\ permitted = {}
      BY <1>1, <2>2, Zenon DEF PrivInv, MaskInv, DropInv, PrivsKept, PrivsGone
    <3>2. capE = {} /\ capP = {}
      BY <3>1, CapsFacts
    <3>3. "SETUID" \in conf.caps => "SETUID" \in Owned
      BY CapFacts DEF Owned, Privs
    <3> QED
      BY <1>1, <2>2, <3>2, <3>3, Zenon
         DEF PrivInv, MaskInv, DropInv, PrivsKept, PrivsGone, OnlyWhatIsNeeded
  <2> QED
    BY <2>1, <2>2 DEF OnlyWhatIsNeeded
<1> QED
  BY <1>1, PrivInvariance, PTL

(***************************************************************************)
(* normalize_path                                                           *)
(***************************************************************************)

\* A set of naturals that is not empty has a least element.
LEMMA LeastExists ==
  ASSUME NEW S, S \subseteq Nat, S # {} PROVE \E m \in S : \A k \in S : m <= k
<1>1. PICK m \in S : \A k \in S : ~(<<k, m>> \in OpToRel(<, Nat))
  BY NatLessThanWellFounded, WFMin, Zenon
<1>2. \A k \in S : ~(k < m)
  BY <1>1, Zenon DEF OpToRel
<1>3. \A k \in S : m <= k
  BY <1>2
<1> QED BY <1>3

\* A set of numbers up to n that is not empty has a greatest element.
LEMMA GreatestExists ==
  ASSUME NEW n \in Nat, NEW S, S \subseteq 1..n, S # {} PROVE \E m \in S : \A k \in S : k <= m
<1> DEFINE T == {n - k : k \in S}
<1>a. \A k \in S : n - k \in Nat
  OBVIOUS
<1>b. T \subseteq Nat
  BY <1>a
<1>c. T # {}
  BY Zenon
<1>1. T \subseteq Nat /\ T # {}
  BY <1>b, <1>c
<1> HIDE DEF T
<1>2. PICK t \in T : \A k \in T : t <= k
  BY <1>1, LeastExists, Zenon
<1>3. PICK m \in S : t = n - m
  BY <1>2 DEF T
<1>4. \A k \in S : t <= n - k
  BY <1>2 DEF T
<1>5. \A k \in S : k <= m
  BY <1>3, <1>4
<1> QED BY <1>5

\* The scan over slashes stops, at the terminator at the latest.
LEMMA SlashesEnd ==
  ASSUME buf \in Seq(Chars \cup {Nul}), p \in 1..Len(buf), buf[Len(buf)] = Nul
  PROVE  AfterSlashes \in p..Len(buf)
<1> DEFINE S == {i \in p..Len(buf) : buf[i] # Slash}
<1>1. S \subseteq Nat /\ Len(buf) \in S
  BY NormalizeAssumption DEF Chars
<1> HIDE DEF S
<1>2. PICK m \in S : \A k \in S : m <= k
  BY <1>1, LeastExists, Zenon
<1>3. m \in p..Len(buf) /\ buf[m] # Slash
  BY <1>2 DEF S
<1>4. \A j \in p..(m - 1) : buf[j] = Slash
  BY <1>2, <1>3 DEF S
<1>5. \E i \in p..Len(buf) : buf[i] # Slash /\ \A j \in p..(i - 1) : buf[j] = Slash
  BY <1>3, <1>4
<1> QED BY <1>5 DEF AfterSlashes

\* ".." never moves q back before the first character.
LEMMA DroppedInRange ==
  ASSUME q \in Nat, 1 <= q PROVE Dropped \in 1..q
<1>1. CASE q > 2
  <2> DEFINE S == {j \in 1..(q - 1) : j = 1 \/ buf[j - 1] = Slash}
  <2>1. S \subseteq 1..(q - 1) /\ 1 \in S /\ q - 1 \in Nat
    BY <1>1
  <2> HIDE DEF S
  <2>2. PICK m \in S : \A k \in S : k <= m
    BY <2>1, GreatestExists, Zenon
  <2>3. m \in 1..(q - 1) /\ (m = 1 \/ buf[m - 1] = Slash)
    BY <2>2 DEF S
  <2>4. \A k \in (m + 1)..(q - 1) : buf[k - 1] # Slash
    BY <2>2, <2>3 DEF S
  <2>5. \E j \in 1..(q - 1) :
          (j = 1 \/ buf[j - 1] = Slash) /\ \A k \in (j + 1)..(q - 1) : buf[k - 1] # Slash
    BY <2>3, <2>4
  <2>6. Dropped \in 1..(q - 1)
    BY <1>1, <2>5 DEF Dropped
  <2> QED BY <2>6
<1>2. CASE ~(q > 2)
  BY <1>2 DEF Dropped
<1> QED BY <1>1, <1>2

\* The inductive invariant: before AddRoot the pointers are at the start of a buffer
\* that has its terminator.
NormInv ==
  /\ NormTypeOK /\ InPlace
  /\ npc = "root" => p = 1 /\ q = 1 /\ Len(buf) >= 1 /\ buf[Len(buf)] = Nul

\* For file names of any length: the loop of normalize_path reads and writes inside its
\* buffer, and overwrites no character that it has yet to read.
THEOREM NormalizeInPlace == NormSpec => [](NormTypeOK /\ InPlace)
<1>1. NormInit => NormInv
  <2> SUFFICES ASSUME NormInit PROVE NormInv
    OBVIOUS
  <2>1. PICK n \in 0..MaxLen : name \in [1..n -> Chars]
    BY DEF NormInit, Names
  <2>2. name \in Seq(Chars \cup {Nul})
    BY <2>1, NormalizeAssumption
  <2>3. buf \in Seq(Chars \cup {Nul}) /\ Len(buf) = Len(name) + 1 /\ buf[Len(buf)] = Nul
    BY <2>2 DEF NormInit
  <2>4. Len(name) \in Nat
    BY <2>2
  <2> QED BY <2>3, <2>4 DEF NormInit, NormInv, NormTypeOK, InPlace
<1>2. NormInv /\ [NormNext]_normVars => NormInv'
  <2> SUFFICES ASSUME NormInv, [NormNext]_normVars PROVE NormInv'
    OBVIOUS
  <2> USE NormalizeAssumption DEF NormInv, NormTypeOK, InPlace
  <2>1. CASE AddRoot
    <3>1. <<Slash>> \o buf \in Seq(Chars \cup {Nul})
      BY DEF Chars
    <3>2. Len(<<Slash>> \o buf) = Len(buf) + 1
          /\ (<<Slash>> \o buf)[Len(buf) + 1] = buf[Len(buf)]
      BY <2>1 DEF AddRoot
    <3>3. buf' = <<Slash>> \o buf \/ buf' = buf
      BY <2>1 DEF AddRoot
    <3>a. buf \in Seq(Chars \cup {Nul}) /\ Len(buf) \in Nat /\ Len(buf) >= 1 /\ buf[Len(buf)] = Nul
      BY <2>1 DEF AddRoot
    <3> DEFINE Good(b) == b \in Seq(Chars \cup {Nul}) /\ Len(b) >= 1 /\ b[Len(b)] = Nul
    <3>b. Good(buf)
      BY <3>a
    <3>c. Good(<<Slash>> \o buf)
      BY <3>a, <3>1, <3>2
    <3> HIDE DEF Good
    <3>d. Good(buf')
      BY <3>b, <3>c, <3>3, Zenon
    <3>4. buf' \in Seq(Chars \cup {Nul}) /\ Len(buf') >= 1 /\ buf'[Len(buf')] = Nul
      BY <3>d DEF Good
    <3> QED BY <2>1, <3>4 DEF AddRoot
  <2>2. CASE Copy
    <3>1. p \in 1..Len(buf) /\ q \in 1..Len(buf) /\ buf[Len(buf)] = Nul /\ Len(buf) \in Nat
      BY <2>2 DEF Copy
    <3>2. buf' = [buf EXCEPT ![q] = buf[p]] /\ buf[p] \in Chars \cup {Nul}
      BY <2>2, <3>1 DEF Copy
    <3>3. buf' \in Seq(Chars \cup {Nul}) /\ Len(buf') = Len(buf)
      BY <3>1, <3>2
    <3>4. CASE buf[p] = Nul
      BY <2>2, <3>1, <3>3, <3>4 DEF Copy
    <3>5. CASE buf[p] # Nul
      <4>1. p < Len(buf) /\ q < Len(buf)
        BY <3>1, <3>5
      <4>2. buf'[Len(buf')] = Nul
        BY <3>1, <3>2, <3>3, <4>1
      <4> QED BY <2>2, <3>1, <3>3, <3>5, <4>1, <4>2 DEF Copy
    <3> QED BY <3>4, <3>5
  <2>3. CASE SkipComponent
    <3>1. p \in 1..Len(buf) /\ buf[Len(buf)] = Nul /\ Len(buf) \in Nat
      BY <2>3 DEF SkipComponent
    <3> DEFINE i == AfterSlashes
    <3>2. i \in p..Len(buf)
      BY <3>1, SlashesEnd
    <3>3. Dropped \in 1..q
      BY DroppedInRange
    <3> HIDE DEF i
    <3>4. IsDot(i) => i + 1 <= Len(buf)
      BY <3>1, <3>2 DEF IsDot, Chars
    <3>5. IsDotDot(i) => i + 2 <= Len(buf)
      BY <3>1, <3>2 DEF IsDotDot, Chars
    <3>6. /\ p' = IF IsDot(i) THEN i + 1 ELSE IF IsDotDot(i) THEN i + 2 ELSE i
          /\ q' = q \/ q' = Dropped
          /\ npc' \in {"slash", "copy"}
          /\ UNCHANGED <<normalize, name, buf>>
      BY <2>3 DEF SkipComponent, i
    <3>7. p' \in p..Len(buf)
      BY <3>1, <3>2, <3>4, <3>5, <3>6
    <3>8. q' \in 1..q
      BY <3>3, <3>6
    <3> QED BY <3>1, <3>6, <3>7, <3>8
  <2>4. CASE UNCHANGED normVars
    BY <2>4 DEF normVars
  <2> QED BY <2>1, <2>2, <2>3, <2>4 DEF NormNext
<1>3. NormInv => NormTypeOK /\ InPlace
  BY DEF NormInv
<1> QED BY <1>1, <1>2, <1>3, PTL DEF NormSpec

-----------------------------------------------------------------------------
(***************************************************************************)
(* rewrite_string                                                           *)
(***************************************************************************)

\* The strings the interpreter holds at each point, and the counter.  After the
\* match newstr has become current and stands for nothing.
RemapInv ==
  /\ live \subseteq Strings /\ ~fault
  /\ rpc \in {"rule", "rewrite", "again", "file", "act", "done"}
  /\ rpc # "done" => current \in live /\ errmsg = NULL /\ result = "none"
  /\ rpc \in {"rewrite", "again", "file"} => newstr \in live
  /\ rpc = "rule" => newstr \in live \cup {NULL}
  /\ rpc = "act" => newstr = NULL
  /\ rpc = "done" => (result = "name" => current \in live) /\ errmsg \in live \cup {NULL}
  /\ deadman \in Nat /\ execs \in Nat /\ deadman + execs = MapSteps
  /\ result = "dead" => deadman = 0

\* xmalloc returns a string that nobody holds.
LEMMA AllocatedIsNew ==
  ASSUME RemapInv, Room
  PROVE  Allocated \in Strings /\ Allocated \notin live /\ Allocated # NULL
<1>1. \E s \in Strings : s \notin live
  BY DEF RemapInv, Room
<1>2. Allocated \in Strings /\ Allocated \notin live
  BY <1>1 DEF Allocated
<1> QED
  BY <1>2, RemapAssumption DEF Strings, NULL

\* Every step of rewrite_string keeps the account of strings and steps.
LEMMA RemapStepInv ==
  ASSUME RemapInv, [RemapNext]_remapVars
  PROVE  RemapInv'
<1> USE DEF Free, KeepHeap
<1>0. NULL \notin Strings
  BY RemapAssumption DEF Strings, NULL
<1>1. CASE Finish \/ SkipRule \/ ExitRule \/ GoOn
  <2>1. CASE Finish
    BY <2>1 DEF Finish, RemapInv
  <2>2. CASE SkipRule
    BY <2>2 DEF SkipRule, RemapInv
  <2>3. CASE ExitRule
    BY <2>3 DEF ExitRule, RemapInv
  <2>4. CASE GoOn
    BY <2>4 DEF GoOn, Goes, RemapInv
  <2> QED
    BY <1>1, <2>1, <2>2, <2>3, <2>4
<1>2. CASE Dead
  <2>1. deadman = 0 /\ result' = "dead" /\ rpc' = "done" /\ rpc \in {"rule", "again"}
        /\ UNCHANGED <<deadman, execs, errmsg, current, newstr>>
        /\ live' \subseteq live /\ (fault' <=> fault \/ ~({current, newstr} \ {NULL} \subseteq live))
    BY <1>2, Zenon DEF Dead, Executable, Expired, Quit
  <2> QED
    BY <2>1 DEF RemapInv
<1>3. CASE NoMatch \/ Match
  <2>1. deadman # 0 /\ deadman' = deadman - 1 /\ execs' = execs + 1 /\ newstr' = current
        /\ rpc = "rule" /\ rpc' \in {"rule", "rewrite", "file"}
        /\ UNCHANGED <<current, errmsg, result, live, fault>>
    BY <1>3, Zenon DEF NoMatch, Match, Executable, Expired
  <2>2. deadman' \in Nat /\ execs' \in Nat /\ deadman' + execs' = MapSteps
    BY <2>1, RemapAssumption DEF RemapInv
  <2> QED
    BY <2>1, <2>2 DEF RemapInv
<1>4. CASE Repeat
  <2>1. deadman # 0 /\ deadman' = deadman - 1 /\ execs' = execs + 1 /\ UNCHANGED newstr
        /\ rpc = "again" /\ rpc' = "rewrite"
        /\ UNCHANGED <<current, errmsg, result, live, fault>>
    BY <1>4 DEF Repeat, Expired
  <2>2. deadman' \in Nat /\ execs' \in Nat /\ deadman' + execs' = MapSteps
    BY <2>1, RemapAssumption DEF RemapInv
  <2> QED
    BY <2>1, <2>2 DEF RemapInv
<1>5. CASE Rewrite
  <2>1. Allocated \in Strings /\ Allocated \notin live /\ Allocated # NULL
    BY <1>5, AllocatedIsNew DEF Rewrite
  <2>2. rpc' \in {"file", "again"}
    BY <1>5 DEF Rewrite
  <2> QED
    BY <1>5, <2>1, <2>2, Zenon DEF Rewrite, RemapInv
<1>6. CASE RewriteFails
  BY <1>6, Zenon DEF RewriteFails, RemapInv
<1>7. CASE NoFile \/ Accept
  BY <1>7, Zenon DEF NoFile, Undone, Accept, RemapInv
<1>8. CASE Abort
  <2>1. Allocated \in Strings /\ Allocated \notin live /\ Allocated # NULL
    BY <1>8, AllocatedIsNew DEF Abort
  <2> QED
    BY <1>8, <2>1, Zenon DEF Abort, Expanded, RemapInv
<1>9. CASE Restart \/ Jump
  <2>1. Allocated \in Strings /\ Allocated \notin live /\ Allocated # NULL
    BY <1>9, AllocatedIsNew, Zenon DEF Restart, Jump
  <2>2. PICK s \in {NULL, Allocated} : newstr' = s /\ live' = live \cup ({s} \ {NULL})
    BY <1>9 DEF Restart, Jump, Expanded, Expand
  <2>3. rpc = "act" /\ rpc' = "rule" /\ UNCHANGED <<deadman, current, errmsg, execs, result, fault>>
    BY <1>9 DEF Restart, Jump, Goes, Expand
  <2> QED
    BY <2>1, <2>2, <2>3 DEF RemapInv
<1>10. CASE JumpFails
  BY <1>10, Zenon DEF JumpFails, Goes, Quit, RemapInv
<1>11. CASE UNCHANGED remapVars
  BY <1>11 DEF remapVars, RemapInv
<1> QED
  BY <1>1, <1>2, <1>3, <1>4, <1>5, <1>6, <1>7, <1>8, <1>9, <1>10, <1>11
     DEF RemapNext, Step, Done

\* The account is right in every reachable state.
THEOREM HeapAccount == RemapSpec => []RemapInv
<1>1. RemapInit => RemapInv
  <2> SUFFICES ASSUME RemapInit PROVE RemapInv
    OBVIOUS
  <2>1. 1 \in Strings /\ MapSteps \in Nat
    BY RemapAssumption DEF Strings
  <2> QED
    BY <2>1 DEF RemapInit, RemapInv
<1>2. RemapInv /\ [RemapNext]_remapVars => RemapInv'
  BY RemapStepInv
<1> QED
  BY <1>1, <1>2, PTL DEF RemapSpec

\* No string is freed twice or used after it was freed, for every file of rules.
THEOREM StringsSafe == RemapSpec => []HeapSafe
<1>1. RemapInv => HeapSafe
  BY DEF RemapInv, HeapSafe
<1> QED
  BY <1>1, HeapAccount, PTL

\* A mapping fails for its length exactly when it has executed map_steps rules.
THEOREM StepsCounted == RemapSpec => []StepsExact
<1>1. RemapInv => StepsExact
  BY RemapAssumption DEF RemapInv, StepsExact
<1> QED
  BY <1>1, HeapAccount, PTL
=============================================================================

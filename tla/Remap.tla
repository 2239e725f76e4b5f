-------------------------------- MODULE Remap --------------------------------
(***************************************************************************)
(* rewrite_string of tftpd/remap.c: the interpreter of the remapping rules. *)
(* A string is its place in the heap; whether an expression matches and     *)
(* what a pattern expands to are left open, so that every set of rules that *)
(* parseline accepts is run on every name at once.                          *)
(*                                                                          *)
(* External: regcomp and regexec, malloc and free.                          *)
(***************************************************************************)
EXTENDS Integers, Sequences

CONSTANTS
  NRules,     \* lines in the file of rules, one of them a label
  MapSteps,   \* dopt.map_steps
  MaxStrings  \* bound: strings that are allocated at once

NULL == 0
Strings == 1..MaxStrings

ASSUME RemapAssumption ==
  NRules \in Nat \ {0} /\ MapSteps \in Nat \ {0} /\ MaxStrings \in Nat \ {0}

\* The flags that decide where the interpreter goes; "gg" stands for RULE_SEDG.
Flags == {"r", "g", "gg", "e", "E", "s", "a", "j"}

\* The table badcombos, as far as it is about these flags.
BadCombos == {{"r", "a"}, {"r", "j"}, {"a", "j"}, {"a", "s"}, {"e", "j"}, {"e", "a"},
              {"e", "s"}, {"e", "E"}, {"E", "j"}, {"E", "a"}, {"E", "s"}}

\* The flags of a rule that parseline accepts; g means nothing without r.
Accepted == {f \in SUBSET Flags :
               /\ \A c \in BadCombos : ~(c \subseteq f)
               /\ "gg" \in f => "g" \in f
               /\ "g" \in f => "r" \in f}

\* A rule, a label, or a rule for another kind of request.
Lines == [kind : {"rule"}, flags : Accepted]
           \cup {[kind |-> "label", flags |-> {}], [kind |-> "other", flags |-> {}]}

VARIABLES
  rules, ruleptr, deadman,
  current, newstr,   \* strings, or NULL
  live,              \* strings that are allocated
  errmsg,            \* the message of an abort, or NULL
  execs,             \* rules executed, repetitions included
  fault,             \* a string was freed twice
  rpc, result

remapVars == <<rules, ruleptr, deadman, current, newstr, live, errmsg, execs, fault, rpc, result>>

RemapInit ==
  /\ rules \in [1..NRules -> Lines]
  /\ ruleptr = 1
  /\ deadman = MapSteps
  /\ current = 1 /\ newstr = 1 /\ live = {1}
  /\ errmsg = NULL /\ execs = 0 /\ fault = FALSE
  /\ rpc = "rule" /\ result = "none"

Has(f) == f \in rules[ruleptr].flags
NextRule == ruleptr + 1

\* What xmalloc returns, and what is left after xfree of every string in S.
Room == live # Strings    \* the bound
Allocated == CHOOSE s \in Strings : s \notin live
Free(S) == live' = live \ S /\ fault' = (fault \/ ~(S \ {NULL} \subseteq live))
KeepHeap == UNCHANGED <<live, fault>>

\* The labels dead and quit.
Quit(why, new) ==
  /\ Free(IF new = current THEN {current} ELSE {current, new})
  /\ rpc' = "done" /\ result' = why
  /\ UNCHANGED <<ruleptr, current, newstr>>

-----------------------------------------------------------------------------
\* The end of the rules.
Finish ==
  /\ rpc = "rule" /\ ruleptr > NRules
  /\ rpc' = "done" /\ result' = "name"
  /\ KeepHeap
  /\ UNCHANGED <<rules, ruleptr, deadman, current, newstr, errmsg, execs>>

\* bad_flags.
SkipRule ==
  /\ rpc = "rule" /\ ruleptr <= NRules
  /\ rules[ruleptr].kind # "rule"
  /\ ruleptr' = NextRule
  /\ KeepHeap
  /\ UNCHANGED <<rules, deadman, current, newstr, errmsg, execs, rpc, result>>

\* Mutant: the counter is decremented before it is tested.
ExpiredEarly == deadman = 1

\* The test of deadman, which is decremented after it.
Expired == deadman = 0

Executable == rpc = "rule" /\ ruleptr <= NRules /\ rules[ruleptr].kind = "rule"

Dead ==
  /\ Executable \/ rpc = "again"
  /\ Expired
  /\ Quit("dead", newstr)
  /\ UNCHANGED <<rules, deadman, errmsg, execs>>

\* The rule does not match.
NoMatch ==
  /\ Executable /\ ~Expired
  /\ deadman' = deadman - 1 /\ execs' = execs + 1
  /\ newstr' = current
  /\ ruleptr' = NextRule
  /\ KeepHeap
  /\ UNCHANGED <<rules, current, errmsg, rpc, result>>

Match ==
  /\ Executable /\ ~Expired
  /\ deadman' = deadman - 1 /\ execs' = execs + 1
  /\ newstr' = current
  /\ rpc' = IF Has("r") THEN "rewrite" ELSE "file"
  /\ KeepHeap
  /\ UNCHANGED <<rules, ruleptr, current, errmsg, result>>

-----------------------------------------------------------------------------
(***************************************************************************)
(* The loop of a rewrite                                                    *)
(***************************************************************************)

\* A replacement; the whole string was matched, or the expression matches no more, or
\* it is tried once more.
Rewrite ==
  /\ rpc = "rewrite" /\ Room
  /\ newstr' = Allocated
  /\ live' = (live \ (IF newstr # current THEN {newstr} ELSE {})) \cup {Allocated}
  /\ fault' = (fault \/ newstr \notin live)
  /\ rpc' \in IF Has("g") THEN {"file", "again"} ELSE {"file"}
  /\ UNCHANGED <<rules, ruleptr, deadman, current, errmsg, execs, result>>

\* genmatchstring fails on a character that cannot be converted.
RewriteFails ==
  /\ rpc = "rewrite"
  /\ Free({newstr})
  /\ rpc' = "done" /\ result' = "error"
  /\ UNCHANGED <<rules, ruleptr, deadman, current, newstr, errmsg, execs>>

\* Mutant: repeating a replacement is not counted.
RepeatFree ==
  /\ rpc = "again" /\ ~Expired
  /\ rpc' = "rewrite"
  /\ KeepHeap
  /\ UNCHANGED <<rules, ruleptr, deadman, current, newstr, errmsg, execs, result>>

\* The expression matches again.
Repeat ==
  /\ rpc = "again" /\ ~Expired
  /\ deadman' = deadman - 1 /\ execs' = execs + 1
  /\ rpc' = "rewrite"
  /\ KeepHeap
  /\ UNCHANGED <<rules, ruleptr, current, newstr, errmsg, result>>

-----------------------------------------------------------------------------
(***************************************************************************)
(* After the match                                                          *)
(***************************************************************************)

\* Mutant: the string that was undone is still taken for the new one.
UndoneKept == newstr

\* newstr after the rewrite was undone.
Undone == current

\* f_validate refuses the name: the rewrite is undone.
NoFile ==
  /\ rpc = "file" /\ Has("E")
  /\ Free(IF newstr # current THEN {newstr} ELSE {})
  /\ newstr' = Undone
  /\ ruleptr' = NextRule
  /\ rpc' = "rule"
  /\ UNCHANGED <<rules, deadman, current, errmsg, execs, result>>

Accept ==
  /\ rpc = "file"
  /\ Free(IF newstr # current THEN {current} ELSE {})
  /\ current' = newstr
  /\ newstr' = NULL
  /\ rpc' = "act"
  /\ UNCHANGED <<rules, ruleptr, deadman, errmsg, execs, result>>

\* The message of an abort or the label of a jump; it may come out empty.
Expanded == {NULL, Allocated}
Expand(s) == live' = live \cup ({s} \ {NULL}) /\ UNCHANGED fault

Abort ==
  /\ rpc = "act" /\ Has("a") /\ Room
  /\ \E s \in Expanded :
       /\ errmsg' = s
       /\ live' = (live \cup ({s} \ {NULL})) \ {current}
  /\ fault' = (fault \/ current \notin live)
  /\ rpc' = "done" /\ result' = "abort"
  /\ UNCHANGED <<rules, ruleptr, deadman, current, newstr, execs>>

ExitRule ==
  /\ rpc = "act" /\ ~Has("a") /\ (Has("e") \/ Has("E"))
  /\ rpc' = "done" /\ result' = "name"
  /\ KeepHeap
  /\ UNCHANGED <<rules, ruleptr, deadman, current, newstr, errmsg, execs>>

Goes == rpc = "act" /\ ~Has("a") /\ ~Has("e") /\ ~Has("E")

\* With j as well, the label is expanded and then not used.
Restart ==
  /\ Goes /\ Has("s") /\ Room
  /\ \E s \in IF Has("j") THEN Expanded ELSE {NULL} : newstr' = s /\ Expand(s)
  /\ ruleptr' = 1 /\ rpc' = "rule"
  /\ UNCHANGED <<rules, deadman, current, errmsg, execs, result>>

\* To the first line with this label.
Jump ==
  /\ Goes /\ ~Has("s") /\ Has("j") /\ Room
  /\ newstr' = Allocated /\ Expand(Allocated)
  /\ \E i \in 1..NRules : rules[i].kind = "label" /\ ruleptr' = i
  /\ rpc' = "rule"
  /\ UNCHANGED <<rules, deadman, current, errmsg, execs, result>>

\* The rule has no label, or no line has it.
JumpFails ==
  /\ Goes /\ ~Has("s") /\ Has("j")
  /\ Quit("error", NULL)
  /\ UNCHANGED <<rules, deadman, errmsg, execs>>

GoOn ==
  /\ Goes /\ ~Has("s") /\ ~Has("j")
  /\ ruleptr' = NextRule /\ rpc' = "rule"
  /\ KeepHeap
  /\ UNCHANGED <<rules, deadman, current, newstr, errmsg, execs, result>>

Done == rpc = "done" /\ UNCHANGED remapVars

Step ==
  \/ Finish \/ SkipRule \/ Dead \/ NoMatch \/ Match
  \/ Rewrite \/ RewriteFails \/ Repeat
  \/ NoFile \/ Accept \/ Abort \/ ExitRule \/ Restart \/ Jump \/ JumpFails \/ GoOn

RemapNext == Step \/ Done
RemapSpec == RemapInit /\ [][RemapNext]_remapVars /\ WF_remapVars(Step)

-----------------------------------------------------------------------------
\* The type of every variable.
RemapTypeOK ==
  /\ ruleptr \in 1..(NRules + 1) /\ deadman \in 0..MapSteps
  /\ current \in Strings /\ newstr \in Strings \cup {NULL} /\ errmsg \in Strings \cup {NULL}
  /\ live \subseteq Strings
  /\ rpc \in {"rule", "rewrite", "again", "file", "act", "done"}
  /\ result \in {"none", "name", "abort", "dead", "error"}

\* No string is freed twice or used after it was freed, whatever the rules undo,
\* repeat, restart or give up, and neither a name that is returned nor the message
\* of an abort was freed (tftpd/remap.c:589-804).
HeapSafe ==
  /\ ~fault
  /\ rpc # "done" => current \in live
  /\ rpc \in {"rewrite", "again", "file"} => newstr \in live
  /\ rpc = "rule" => newstr \in live \cup {NULL}
  /\ rpc = "done" => (result = "name" => current \in live) /\ errmsg \in live \cup {NULL}

\* The deadman counter fails a mapping exactly when map_steps rules were executed
\* (tftpd/tftpd.8.in:315-316).
StepsExact == execs <= MapSteps /\ (result = "dead" => execs = MapSteps)

\* Every mapping ends, whatever loops the rules form.
Terminates == <>(rpc = "done")

\* "s cannot be used with a, e, E, or j" (tftpd/tftpd.8.in:719).
RestartAlone ==
  \A i \in 1..NRules : "s" \in rules[i].flags => rules[i].flags \cap {"a", "e", "E", "j"} = {}
=============================================================================

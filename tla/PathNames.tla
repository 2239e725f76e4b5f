----------------------------- MODULE PathNames ------------------------------
(***************************************************************************)
(* What becomes of the file name of a request: rewrite_access normalizes it *)
(* (module Normalize; remapping rules are in module Remap), and             *)
(* validate_access of tftpd/tftpd.c parses it into components, compares     *)
(* them with the directories of the command line and puts the path together *)
(* that is opened (parse_path, compare_paths and build_path of              *)
(* tftpd/path.c).                                                           *)
(***************************************************************************)
EXTENDS Normalize, SequencesExt

CONSTANTS
  Control,    \* characters below 32
  Del,        \* the character 127
  Dirs,       \* dopt.dirs: sequences of components
  Prefix,     \* dopt.path_prefix, without trailing slashes
  NULL, Pending, Refused   \* not paths

ASSUME PathAssumption ==
  Control \cup {Del} \subseteq Others /\ Del \notin Control

VARIABLES
  validate,   \* dopt.validate
  opened      \* Pending, Refused, or the path that is opened

pathVars == <<normVars, validate, opened>>

\* is_valid_char, on Unix.
IsValidChar(c) == c \notin Control

-----------------------------------------------------------------------------
(***************************************************************************)
(* parse_path                                                               *)
(***************************************************************************)

\* ndirs, the room in the array of components: the first character of every span.
CountDirs(path) ==
  Cardinality({i \in DOMAIN path : path[i] # Slash /\ (i = 1 \/ path[i - 1] = Slash)})

\* Mutant: a component that begins with two dots is taken for "..".
DropPrefix(last) ==
  IF last = <<Dot>> THEN 1 ELSE IF Len(last) > 1 /\ last[1] = Dot /\ last[2] = Dot THEN 2 ELSE 0

\* How many components the last one takes off the list.
Drop(last) ==
  CASE last = <<Dot>> -> 1
    [] last = <<Dot, Dot>> -> 2
    [] OTHER -> 0

\* adjust_tail; NULL stands for its -1 and for the failure that follows.
AdjustTail(dirs, strict) ==
  LET drop == Drop(Last(dirs)) IN
    IF Len(dirs) < drop \/ (drop > 0 /\ strict) THEN NULL
    ELSE SubSeq(dirs, 1, Len(dirs) - drop)

\* One turn of the loop over the characters.
ParseChar(st, c, strict) ==
  CASE st.dirs = NULL -> st
    [] c = Slash ->
         [dirs |-> IF st.was_slash THEN st.dirs ELSE AdjustTail(st.dirs, strict),
          was_slash |-> TRUE, most |-> st.most]
    [] c # Slash /\ st.was_slash ->
         [dirs |-> Append(st.dirs, <<c>>), was_slash |-> FALSE,
          most |-> Max({st.most, Len(st.dirs) + 1})]
    [] OTHER ->
         [st EXCEPT !.dirs[Len(st.dirs)] = Append(@, c)]

ParseLoop(path, strict) ==
  FoldLeft(LAMBDA st, c : ParseChar(st, c, strict),
           [dirs |-> <<>>, was_slash |-> TRUE, most |-> 0], path)

parse_path(path, strict) ==
  IF strict /\ (path = <<>> \/ path[1] # Slash) THEN NULL
  ELSE IF \E i \in DOMAIN path : ~IsValidChar(path[i]) THEN NULL
  ELSE LET st == ParseLoop(path, strict) IN
         IF st.dirs = NULL \/ st.was_slash THEN st.dirs
         ELSE AdjustTail(st.dirs, strict)

-----------------------------------------------------------------------------
(***************************************************************************)
(* build_path, compare_paths and validate_access                            *)
(***************************************************************************)

build_path(prefix, dirs) == prefix \o FlattenSeq([i \in DOMAIN dirs |-> <<Slash>> \o dirs[i]])

\* Mutant: the shorter of the two decides.
ComparePathsEither(a, b) ==
  IF \E i \in DOMAIN a \cap DOMAIN b : a[i] # b[i] THEN 0 ELSE 3

\* 0: they differ; 1: a is a prefix of b; 2: b is a prefix of a; 3: they are equal.
compare_paths(a, b) ==
  IF \E i \in DOMAIN a \cap DOMAIN b : a[i] # b[i] THEN 0
  ELSE IF Len(a) < Len(b) THEN 1
  ELSE IF Len(b) < Len(a) THEN 2 ELSE 3

\* The buffer up to its terminator.
Result == SubSeq(buf, 1, (CHOOSE i \in DOMAIN buf :
                            buf[i] = Nul /\ \A j \in 1..(i - 1) : buf[j] # Nul) - 1)

validate_access ==
  /\ npc = "done" /\ opened = Pending
  /\ opened' = IF ~validate THEN Result
               ELSE LET dirs == parse_path(Result, TRUE) IN
                      IF dirs = NULL \/ \A d \in Dirs : compare_paths(dirs, d) \notin {2, 3}
                      THEN Refused
                      ELSE build_path(Prefix, dirs)
  /\ UNCHANGED <<normVars, validate>>

Finished == opened # Pending /\ UNCHANGED pathVars

Init == NormInit /\ validate \in BOOLEAN /\ opened = Pending
Next == (NormNext /\ UNCHANGED <<validate, opened>>) \/ validate_access \/ Finished
Spec == Init /\ [][Next]_pathVars /\ WF_pathVars(Next)

-----------------------------------------------------------------------------
(***************************************************************************)
(* What the names mean                                                      *)
(***************************************************************************)

\* The components of a path: its longest spans without a slash, in their order.
Spans(path) ==
  {s \in (DOMAIN path) \X (DOMAIN path) :
     /\ s[1] <= s[2]
     /\ \A i \in s[1]..s[2] : path[i] # Slash
     /\ s[1] = 1 \/ path[s[1] - 1] = Slash
     /\ s[2] = Len(path) \/ path[s[2] + 1] = Slash}
Components(path) ==
  LET spans == SetToSortSeq(Spans(path), LAMBDA s, t : s[1] < t[1])
  IN  [i \in DOMAIN spans |-> SubSeq(path, spans[i][1], spans[i][2])]

\* The depth after the first i components, when ".." at the root stays there.
Depth(comps) ==
  LET depth[i \in 0..Len(comps)] ==
        IF i = 0 THEN 0
        ELSE CASE comps[i] = <<Dot>> -> depth[i - 1]
               [] comps[i] = <<Dot, Dot>> -> Max({0, depth[i - 1] - 1})
               [] OTHER -> depth[i - 1] + 1
  IN  depth

\* A component remains when the path does not go back above it later.
Remaining(comps) ==
  {i \in DOMAIN comps :
     /\ comps[i] \notin {<<Dot>>, <<Dot, Dot>>}
     /\ \A j \in i..Len(comps) : Depth(comps)[j] >= Depth(comps)[i]}
Resolved(comps) ==
  LET kept == SetToSortSeq(Remaining(comps), <) IN [i \in DOMAIN kept |-> comps[kept[i]]]

\* A path that goes above the root.
Escapes(comps) ==
  \E i \in DOMAIN comps : comps[i] = <<Dot, Dot>> /\ Depth(comps)[i - 1] = 0

-----------------------------------------------------------------------------
(***************************************************************************)
(* Properties                                                               *)
(***************************************************************************)

\* The type of every variable.
TypeOK ==
  NormTypeOK /\ validate \in BOOLEAN /\ (opened \notin {Pending, Refused} => opened \in Seq(Chars))

\* normalize_path leaves a slash, then the components that remain when ".." takes
\* away its predecessor, if there is one (tftpd/tftpd.8.in:366-372).
NormalForm ==
  (npc = "done" /\ normalize = "path") =>
    /\ Result[1] = Slash
    /\ Components(Result) = Resolved(Components(name))
    /\ \A i \in 2..Len(Result) : ~(Result[i - 1] = Slash /\ Result[i] = Slash)

\* parse_path returns the path with "." and ".." taken out, NULL when it goes above the
\* root (tftpd/path.c:133-168); in strict mode, when it has any of them
\* (tftpd/path.c:170-174).  It never needs more room than the array it allocates has
\* (tftpd/path.c:188-208).
ParseMeaning ==
  (npc = "done" /\ opened = Pending) =>
    LET path == Result
        comps == Components(path)
        bad == \E i \in DOMAIN path : path[i] \in Control
        dots == \E i \in DOMAIN comps : comps[i] \in {<<Dot>>, <<Dot, Dot>>}
        rooted == path # <<>> /\ path[1] = Slash
    IN  /\ parse_path(path, FALSE) = IF bad \/ Escapes(comps) THEN NULL ELSE Resolved(comps)
        /\ parse_path(path, TRUE) = IF bad \/ ~rooted \/ dots THEN NULL ELSE comps
        /\ \A strict \in BOOLEAN : ParseLoop(path, strict).most <= CountDirs(path)

\* With validation, a path that is opened is the prefix and a canonical path below one
\* of the directories of the command line (tftpd/tftpd.c:2050-2069); and after
\* --normalize=path only a name with control characters, or one that does not lead
\* below any of the directories, is refused.
OpenedBelowDirs ==
  validate =>
    /\ opened \notin {Pending, Refused} =>
         LET rest == SubSeq(opened, Len(Prefix) + 1, Len(opened)) IN
           /\ SubSeq(opened, 1, Len(Prefix)) = Prefix
           /\ parse_path(rest, TRUE) = Components(rest)
           /\ \E d \in Dirs : IsPrefix(d, Components(rest))
    /\ normalize = "path" /\ opened = Refused =>
         \/ \E i \in DOMAIN name : name[i] \in Control
         \/ \A d \in Dirs : ~IsPrefix(d, Resolved(Components(name)))

\* No control character gets into a path that is opened: "On Unix, disallow ASCII
\* control characters (< 32, 127)" (tftpd/path.c:26-27).
NoControlOpened ==
  (validate /\ opened \notin {Pending, Refused}) =>
    \A i \in DOMAIN opened : opened[i] \notin Control \cup {Del}
=============================================================================

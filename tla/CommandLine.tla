----------------------------- MODULE CommandLine -----------------------------
(***************************************************************************)
(* The command line, which two loops take apart one after the other:       *)
(* Initialize (threads/system.cc) for the flags of the kernel, and main    *)
(* (threads/main.cc) for what to run.  Each steps over the words it does   *)
(* not know one at a time, so each passes the operands of the other's      *)
(* options as if they were options.  What is compiled in depends on the    *)
(* build: THREADS in threads/, the others as the Makefiles add them up.    *)
(***************************************************************************)
EXTENDS Integers, Sequences, SequencesExt

CONSTANTS Builds,     \* the sets of symbols that the Makefiles define
          Groups,     \* the options with their operands, as sequences of words
          LastGroups, \* more of them, for the end of the line: operands may be missing
          MaxGroups   \* bound: the options on a command line

VARIABLES
  build,
  groups,     \* what the user meant: the options in order
  argv,       \* the words, without the name of the command
  phase,      \* "Initialize", "tests", "main", "finished", "stopped" (in a call
              \* that does not return) or "aborted" (an ASSERT)
  arg,        \* the index of *argv
  flags,      \* what Initialize has set, with the operands
  testnum,    \* threadtest.cc
  ran         \* what main has called, with the operands

commandVars == <<build, groups, argv, phase, arg, flags, testnum, ran>>

\* The C library's conversions of a word (atof of a whole number), which give 0
\* for one that does not begin with a digit.
atoi(w) == CASE w = "1" -> 1 [] w = "2" -> 2 [] w = "3" -> 3 [] OTHER -> 0

\* The seed is the one that the C library starts with.
NoFlags == [debugArgs |-> "", seed |-> 1, randomYield |-> FALSE, roundingSlice |-> FALSE,
            debugUserProg |-> FALSE, format |-> FALSE, rely |-> 1, netname |-> 0]

CommandInit ==
  /\ build \in Builds
  /\ groups \in UNION {[1 .. n -> Groups \cup LastGroups] : n \in 0 .. MaxGroups}
  /\ \A k \in 1 .. Len(groups) - 1 : groups[k] \in Groups
  /\ argv = FlattenSeq(groups)
  /\ phase = "Initialize" /\ arg = 1
  /\ flags = NoFlags /\ testnum = 1 /\ ran = << >>

argc == Len(argv) - arg + 1

\* The operands of the option at arg.
Operands(n) == SubSeq(argv, arg + 1, arg + n)

-----------------------------------------------------------------------------
(* Initialize                                                              *)

\* argCount - 1 for a word, if there are enough words.
InitializeTakes(w) ==
  IF \/ w = "-d" /\ argc > 1
     \/ w \in {"-rs", "-rd"}
     \/ w \in {"-l", "-m"} /\ "NETWORK" \in build
  THEN 1 ELSE 0

\* The flags after a word and the word behind it.
Flagged(f, w, next) ==
  CASE w = "-d" -> [f EXCEPT !.debugArgs = next]
    [] w = "-rs" -> [f EXCEPT !.seed = atoi(next), !.randomYield = TRUE]
    [] w = "-rd" -> [f EXCEPT !.roundingSlice = TRUE]
    [] w = "-s" /\ "USER_PROGRAM" \in build -> [f EXCEPT !.debugUserProg = TRUE]
    [] w = "-f" /\ "FILESYS_NEEDED" \in build -> [f EXCEPT !.format = TRUE]
    [] w = "-l" /\ "NETWORK" \in build -> [f EXCEPT !.rely = atoi(next)]
    [] w = "-m" /\ "NETWORK" \in build -> [f EXCEPT !.netname = atoi(next)]
    [] OTHER -> f

Initialize ==
  LET w == argv[arg]
      n == InitializeTakes(w)
  IN  /\ phase = "Initialize" /\ argc > 0
      /\ IF argc > n
         THEN /\ flags' = Flagged(flags, w, IF argc = 1 THEN "+" ELSE argv[arg + 1])
              /\ arg' = arg + 1 + n
              /\ UNCHANGED phase
         ELSE phase' = "aborted" /\ UNCHANGED <<flags, arg>>
      /\ UNCHANGED <<build, groups, argv, testnum, ran>>

\* The devices of the build are made, and main begins with the first word again.
Initialized ==
  /\ phase = "Initialize" /\ argc = 0
  /\ phase' = IF "THREADS" \in build THEN "tests" ELSE "main"
  /\ arg' = 1
  /\ UNCHANGED <<build, groups, argv, flags, testnum, ran>>

-----------------------------------------------------------------------------
(* main                                                                    *)

\* The loop of the THREADS build, which looks at the second character only: of
\* the words here that of -q alone is a q.  After it argc is 0 and the second
\* loop has no rounds.
TestNumber ==
  /\ phase = "tests" /\ argc > 0
  /\ IF argv[arg] = "-q"
     THEN testnum' = atoi(argv[arg + 1]) /\ arg' = arg + 2
     ELSE testnum' = 1 /\ arg' = arg + 1
  /\ UNCHANGED <<build, groups, argv, phase, flags, ran>>

RunsThreadTest ==
  /\ phase = "tests" /\ argc = 0
  /\ phase' = "finished"
  /\ ran' = <<<<"ThreadTest", testnum>>>>
  /\ UNCHANGED <<build, groups, argv, arg, flags, testnum>>

PrintTakesTwo(w) ==  \* mutant: the ASSERT of -p is that of -cp
  CASE w = "-x" /\ "USER_PROGRAM" \in build -> 1
    [] w = "-c" /\ "USER_PROGRAM" \in build /\ argc > 1 -> 2
    [] w \in {"-cp", "-p"} /\ "FILESYS" \in build -> 2
    [] w = "-r" /\ "FILESYS" \in build -> 1
    [] w = "-o" /\ "NETWORK" \in build -> 1
    [] OTHER -> 0
\* The number of words behind w that main takes as its operands.
MainTakes(w) ==
  CASE w = "-x" /\ "USER_PROGRAM" \in build -> 1
    [] w = "-c" /\ "USER_PROGRAM" \in build /\ argc > 1 -> 2
    [] w = "-cp" /\ "FILESYS" \in build -> 2
    [] w \in {"-p", "-r"} /\ "FILESYS" \in build -> 1
    [] w = "-o" /\ "NETWORK" \in build -> 1
    [] OTHER -> 0

\* The words that make main call something.
Called ==
       {"-z"}
  \cup (IF "USER_PROGRAM" \in build THEN {"-x", "-c"} ELSE {})
  \cup (IF "FILESYS" \in build THEN {"-cp", "-p", "-r", "-l", "-D", "-t", "-pt"} ELSE {})
  \cup (IF "NETWORK" \in build THEN {"-o"} ELSE {})

\* ConsoleTest is followed by Halt, and MailTest ends with it.  A user program
\* is not returned from if its file is found, and an ASSERT may fail in the
\* calls of the file system; the copyright is only printed.
PhasesAfter(w) ==
  IF w \in {"-c", "-o"} THEN {"stopped"} ELSE IF w = "-z" THEN {"main"} ELSE {"main", "stopped"}

MainStep ==
  LET w == argv[arg]
      n == MainTakes(w)
  IN  /\ phase = "main" /\ argc > 0
      /\ CASE argc <= n ->
                phase' = "aborted" /\ UNCHANGED <<ran, arg>>
           [] argc > n /\ w \in Called ->
                /\ ran' = Append(ran, <<w>> \o Operands(n))
                /\ arg' = arg + 1 + n
                /\ phase' \in PhasesAfter(w)
           [] OTHER ->
                arg' = arg + 1 /\ UNCHANGED <<ran, phase>>
      /\ UNCHANGED <<build, groups, argv, flags, testnum>>

\* currentThread->Finish()
MainEnds ==
  /\ phase = "main" /\ argc = 0
  /\ phase' = "finished"
  /\ UNCHANGED <<build, groups, argv, arg, flags, testnum, ran>>

CommandNext == Initialize \/ Initialized \/ TestNumber \/ RunsThreadTest \/ MainStep \/ MainEnds

-----------------------------------------------------------------------------
(* The usage at the head of main.cc (lines 11 to 43)                       *)

UsageOperands(w) ==
  CASE w \in {"-d", "-rs", "-x", "-p", "-r", "-n", "-m", "-o"} -> 1
    [] w \in {"-c", "-cp"} -> 2
    [] w \in {"-s", "-f", "-l", "-D", "-t", "-z"} -> 0
    [] OTHER -> -1

\* "flags are ignored until the relevant assignment".
Relevant(g) ==
  /\ g[1] \in {"-s", "-x", "-c"} => "USER_PROGRAM" \in build
  /\ g[1] \in {"-f", "-cp", "-p", "-r", "-l", "-D", "-t"} => "FILESYS" \in build
  /\ g[1] \in {"-n", "-m", "-o"} => "NETWORK" \in build

UsageFlag(f, g) ==
  CASE ~Relevant(g) -> f
    [] g[1] = "-d" -> [f EXCEPT !.debugArgs = g[2]]
    [] g[1] = "-rs" -> [f EXCEPT !.seed = atoi(g[2]), !.randomYield = TRUE]
    [] g[1] = "-s" -> [f EXCEPT !.debugUserProg = TRUE]
    [] g[1] = "-f" -> [f EXCEPT !.format = TRUE]
    [] g[1] = "-m" -> [f EXCEPT !.netname = atoi(g[2])]
    [] OTHER -> f

UsageCalls ==
  LET called(g) == Relevant(g) /\ g[1] \notin {"-d", "-rs", "-s", "-f", "-m"}
  IN  SelectSeq(groups, called)

\* Three things the usage says are not so.  The network's reliability is not
\* -n but -l, which in that build takes an operand and lists the directory as
\* well; and -z does nothing in the build for threads, where the first loop of
\* main uses the words up.
FollowsUsage ==
  \A k \in DOMAIN groups :
    /\ Len(groups[k]) = 1 + UsageOperands(groups[k][1])
    /\ groups[k][1] # "-n"
    /\ groups[k][1] = "-l" => "NETWORK" \notin build
    /\ groups[k][1] = "-z" => "THREADS" \notin build

\* The two loops, in Initialize and in main, understand a command line that
\* follows the usage of main.cc as the usage says, although each passes over
\* the other's options and their operands word by word: no ASSERT on the
\* number of words fails; the flags are those of all the options and of no
\* operand; main makes the calls in order, each with its operands, until one
\* does not return.  Only the format flag is read in a build that has no file
\* system of its own, where the stub ignores it.
OptionsUnderstood ==
  FollowsUsage =>
    /\ phase # "aborted"
    /\ phase # "Initialize" =>
         LET meant == FoldLeft(UsageFlag, NoFlags, groups)
         IN  \A f \in DOMAIN meant :
               flags[f] = meant[f] \/ (f = "format" /\ "FILESYS" \notin build)
    /\ IsPrefix(ran, UsageCalls) \/ "THREADS" \in build
    /\ phase = "finished" => ran = UsageCalls \/ "THREADS" \in build

=============================================================================

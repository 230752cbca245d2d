------------------------------- MODULE Shell -------------------------------
(***************************************************************************)
(* Command_interrupter/shell.c: the loop that reads a line, splits it,     *)
(* does a built-in command itself and runs any other in a child process.   *)
(* A token of a line is a word, with or without an ampersand at its end;   *)
(* "&" by itself is the empty word with one.  main's inputnum, arg and pid *)
(* are declared inside the loop and not initialised there: they keep what  *)
(* an earlier line left in their place on the stack.                       *)
(***************************************************************************)
EXTENDS Integers, Sequences, FiniteSets, SequencesExt

CONSTANTS
  Command,     (* the lines that may be typed: sequences of tokens          *)
  Program,     (* the words that are names of programs                      *)
  File,        (* the names of the files that the commands use              *)
  Top,         (* the last index of arg[50] that the lines can reach        *)
  OPEN_MAX,    (* the descriptors that are free at the start                *)
  NPROC        (* the children the shell may have, ended ones included      *)

Pid == 1..NPROC

(* Words and names of files, the model's own ones included.  The provers do *)
(* not know that a literal is a STRING, so those are listed.                *)
Text == STRING \cup {"NULL", "garbage", "", "tty", "closed"}
Token == [word : Text, amp : BOOLEAN]
Word(w) == [word |-> w, amp |-> FALSE]

(* What an entry of arg may hold that is no token.                          *)
NULL == Word("NULL")
Garbage == Word("garbage")

(* A line with its NULL fits into arg, and nobody types a null pointer.     *)
ASSUME ShellAssumption ==
  /\ OPEN_MAX \in Nat /\ NPROC \in Nat \ {0}
  /\ Top \in Nat /\ Top >= 3
  /\ File \subseteq Text
  /\ \A c \in Command :
       /\ c \in Seq(Token) /\ Len(c) < Top
       /\ \A k \in DOMAIN c : c[k].word \notin {NULL.word, Garbage.word}

NoChild == [state |-> "none", line |-> <<>>, argv |-> <<>>, in |-> "", out |-> ""]

VARIABLES
  pc,          (* "prompt", "typed", "parsed", "wait", "exited", "crashed"  *)
  line,        (* the line being executed                                   *)
  arg, inputnum, pid,
  background,
  child,       (* the children not reaped yet                               *)
  exists,      (* the files there are                                       *)
  fds          (* free descriptors                                          *)

split == <<arg, inputnum, background>>
vars == <<pc, line, split, pid, child, exists, fds>>

Init ==
  /\ pc = "prompt" /\ line = <<>>
  /\ arg \in {[k \in 0..Top |-> x] : x \in {NULL, Garbage}}
  /\ inputnum \in 0..3 /\ background = FALSE
  /\ pid = 0
  /\ child = [p \in Pid |-> NoChild]
  /\ exists \in {File, {}}
  /\ fds = OPEN_MAX

To(where) == pc' = where /\ line' = IF where = "prompt" THEN <<>> ELSE line

----------------------------------------------------------------------------
(* The definitions named Wrong... are mistakes that the runs must notice:   *)
(* PROJECT.json puts each in the place of the definition that follows it.   *)

(* An empty line has no first token: strcmp(NULL, "cd").                    *)
ReadLine ==
  /\ pc = "prompt"
  /\ \E c \in Command :
       /\ line' = c
       /\ pc' = IF c = <<>> THEN "crashed" ELSE "typed"
  /\ UNCHANGED <<split, pid, child, exists, fds>>

Name == line[1].word
Operand(k) == k \in DOMAIN line
BuiltIn == {"cd", "pwd", "ls", "mkdir", "rmdir", "cp", "exit"}
Plain(t) == Word(t.word)
IsBuiltIn == ~ line[1].amp /\ Name \in BuiltIn

(* Every built-in but cp first appends its name to test.txt, and uses what  *)
(* fopen returns unseen; mkdir and rmdir write their operand the same way.  *)
Logged ==
  /\ pc = "typed" /\ IsBuiltIn /\ Name # "cp"
  /\ To(IF fds = 0 \/ (Name \in {"mkdir", "rmdir"} /\ ~ Operand(2))
          THEN "crashed"
          ELSE IF Name = "exit" THEN "exited" ELSE "prompt")
  /\ UNCHANGED <<split, pid, child, exists, fds>>

(* close(inputFd) is the body of the test for a failed write, so the        *)
(* descriptor stays open after every copy that works.                       *)
Copy ==
  /\ pc = "typed" /\ IsBuiltIn /\ Name = "cp"
  /\ To("prompt")
  /\ \E empty \in BOOLEAN :
       LET source == Operand(2) /\ line[2].word \in exists /\ fds > 0
           left == IF source THEN fds - 1 ELSE fds
           target == Operand(3) /\ left > 0
       IN  /\ fds' = IF source /\ ~ target /\ ~ empty THEN fds ELSE left
           /\ exists' = IF target THEN exists \cup {line[3].word} ELSE exists
  /\ UNCHANGED <<split, pid, child>>

(* An ampersand counts at the end of the first token, or of one after the   *)
(* second.  The arguments after it are not terminated.                      *)
Parse ==
  /\ pc = "typed" /\ ~ IsBuiltIn
  /\ To("parsed")
  /\ LET amps == {k \in 3..Len(line) : line[k].amp}
         stop == IF amps = {} THEN Len(line) ELSE Min(amps)
     IN  IF line[1].amp
         THEN /\ arg' = [arg EXCEPT ![0] = Plain(line[1]), ![1] = NULL]
              /\ background' = TRUE
              /\ UNCHANGED inputnum
         ELSE /\ arg' = [k \in 0..Top |->
                           IF k < stop THEN (IF k + 1 \in amps THEN Plain(line[k + 1])
                                             ELSE line[k + 1])
                           ELSE IF k = stop /\ amps = {} THEN NULL ELSE arg[k]]
              /\ inputnum' = IF amps # {} THEN stop - 1
                             ELSE IF stop = 1 THEN 2 ELSE stop
              /\ background' = (amps # {})
  /\ UNCHANGED <<pid, child, exists, fds>>

----------------------------------------------------------------------------
(* The positions that the scans for "|", "<" and ">" compare.               *)
Scanned == 0..(inputnum - 2)

Found(signs) == \E k \in Scanned : arg[k] \in {Word(s) : s \in signs}

(* A scan meets the terminating NULL before the "|" it looks for.           *)
ScanFails ==
  \E k \in Scanned :
    /\ arg[k] = NULL
    /\ \A l \in 0..k : arg[l] # Word("|")

Crash ==
  /\ pc = "parsed" /\ ScanFails
  /\ To("crashed")
  /\ UNCHANGED <<split, pid, child, exists, fds>>

(* The index of the first entry of a that ends the arguments.               *)
End(a) == CHOOSE k \in 0..Top :
            /\ a[k] \in {NULL, Garbage}
            /\ \A l \in 0..(k - 1) : a[l] \notin {NULL, Garbage}

(* fork() does not store what it returns.                                   *)
WrongFork(a, in, out) ==
  LET free == {p \in Pid : child[p].state = "none"}
      new == [state |-> IF a[End(a)] = NULL THEN "forked" ELSE "faulty",
              line |-> line, argv |-> [k \in 1..End(a) |-> a[k - 1]],
              in |-> in, out |-> out]
  IN  IF free = {} THEN UNCHANGED <<child, pid>>
      ELSE /\ child' = [child EXCEPT ![Min(free)] = new]
           /\ UNCHANGED pid

(* fork() for the arguments a, and what the child has to do before execvp.  *)
(* It fails when the shell has all the children it may have.                *)
Fork(a, in, out) ==
  LET free == {p \in Pid : child[p].state = "none"}
      new == [state |-> IF a[End(a)] = NULL THEN "forked" ELSE "faulty",
              line |-> line, argv |-> [k \in 1..End(a) |-> a[k - 1]],
              in |-> in, out |-> out]
  IN  IF free = {} THEN pid' = -1 /\ UNCHANGED child
      ELSE /\ pid' = Min(free)
           /\ child' = [child EXCEPT ![Min(free)] = new]

Piped == inputnum > 2 /\ Found({"|"})

(* The arguments are copied to their stages, the one behind the last that   *)
(* the first scan compared included: strcmp(NULL, "|").  A stage of more    *)
(* than its 20 arguments runs into the next one of p, which is filled       *)
(* later; nothing reads p.  No stage is ever started, for (i = yespipes;    *)
(* i < 0; i--): waitpid() gets the pid that an earlier line left.           *)
Pipeline ==
  /\ pc = "parsed" /\ ~ ScanFails
  /\ Piped
  /\ To(IF \E k \in 0..(inputnum - 1) : arg[k] = NULL THEN "crashed" ELSE "wait")
  /\ UNCHANGED <<split, pid, child, exists, fds>>

(* The arguments from the one at position n on become NULL.                 *)
Cut(n) == [k \in 0..Top |-> IF k \in n..(inputnum - 1) THEN NULL ELSE arg[k]]

Sign(k) == IF inputnum >= k THEN arg[inputnum - k] ELSE NULL
File_(k) == arg[inputnum - k].word

(* Only the sign before the last token counts, and one two tokens earlier.  *)
Alone(other) == inputnum < 4 \/ (Sign(4) # Word(other) /\ inputnum > 4)

(* The output file opened last is the one before it in the line.            *)
WrongRedirection ==
  IF Sign(2) = Word(">") /\ Alone("<")
    THEN {[from |-> 2, in |-> "tty", out |-> File_(1)]}
  ELSE IF Sign(2) = Word(">") /\ Sign(4) = Word("<")
    THEN {[from |-> 4, in |-> File_(1), out |-> File_(3)]}
  ELSE IF Sign(2) = Word("<") /\ Alone(">")
    THEN {[from |-> 2, in |-> File_(1), out |-> "tty"]}
  ELSE IF Sign(2) = Word("<") /\ Sign(4) = Word(">")
    THEN {[from |-> 4, in |-> File_(1), out |-> File_(1)]}
  ELSE {}

(* Which files the child opens, and from where the arguments end; empty     *)
(* when none of the four branches is taken.  The last one opens the same    *)
(* name twice.                                                              *)
Redirection ==
  IF Sign(2) = Word(">") /\ Alone("<")
    THEN {[from |-> 2, in |-> "tty", out |-> File_(1)]}
  ELSE IF Sign(2) = Word(">") /\ Sign(4) = Word("<")
    THEN {[from |-> 4, in |-> File_(3), out |-> File_(1)]}
  ELSE IF Sign(2) = Word("<") /\ Alone(">")
    THEN {[from |-> 2, in |-> File_(1), out |-> "tty"]}
  ELSE IF Sign(2) = Word("<") /\ Sign(4) = Word(">")
    THEN {[from |-> 4, in |-> File_(1), out |-> File_(1)]}
  ELSE {}

(* The waitpid() after the branches instead of in them.                     *)
WrongRedirected ==
  /\ pc = "parsed" /\ ~ ScanFails /\ ~ Piped
  /\ Found({"<", ">"})
  /\ \/ Redirection = {} /\ UNCHANGED <<pid, child>>
     \/ \E r \in Redirection : Fork(Cut(inputnum - r.from), r.in, r.out)
  /\ To("wait")
  /\ UNCHANGED <<split, exists, fds>>

(* The shell waits whatever background says.                                *)
Redirected ==
  /\ pc = "parsed" /\ ~ ScanFails /\ ~ Piped
  /\ Found({"<", ">"})
  /\ \/ /\ Redirection = {}
        /\ To("prompt")
        /\ UNCHANGED <<pid, child>>
     \/ \E r \in Redirection :
          /\ Fork(Cut(inputnum - r.from), r.in, r.out)
          /\ To("wait")
  /\ UNCHANGED <<split, exists, fds>>

Simple ==
  /\ pc = "parsed" /\ ~ ScanFails /\ ~ Piped
  /\ ~ Found({"<", ">"})
  /\ Fork(arg, "tty", "tty")
  /\ To(IF background THEN "prompt" ELSE "wait")
  /\ background' = FALSE
  /\ UNCHANGED <<arg, inputnum, exists, fds>>

(* waitpid() returns at once when there is nobody to wait for; pid is 0     *)
(* before the first fork and -1 after one that failed, for any child.       *)
Wait ==
  /\ pc = "wait"
  /\ \/ \E p \in Pid :
          /\ pid < 1 \/ p = pid
          /\ child[p].state = "zombie"
          /\ child' = [child EXCEPT ![p] = NoChild]
     \/ /\ \A p \in Pid : (pid < 1 \/ p = pid) => child[p].state = "none"
        /\ UNCHANGED child
  /\ To("prompt")
  /\ UNCHANGED <<split, pid, exists, fds>>

----------------------------------------------------------------------------
(* A child whose program cannot be run goes on as a second shell.           *)
WrongAfterExec(c) ==
  IF c.argv # <<>> /\ c.argv[1].word \in Program /\ ~ c.argv[1].amp
    THEN "running" ELSE "shell"

(* execvp(), or exit(127).                                                  *)
AfterExec(c) ==
  IF c.argv # <<>> /\ c.argv[1].word \in Program /\ ~ c.argv[1].amp
    THEN "running" ELSE "zombie"

Ended(c) == [NoChild EXCEPT !.state = "zombie", !.line = c.line]

(* The child opens its files, input first, and executes the program.  What  *)
(* it could not open is closed.  close(0) frees a descriptor for the output.*)
ChildExec(p) ==
  LET c == child[p]
      in == IF c.in = "tty" \/ (c.in \in exists /\ fds > 0) THEN c.in ELSE "closed"
      opens == c.out # "tty" /\ (fds > 0 \/ c.in # "tty")
  IN  /\ c.state \in {"forked", "faulty"}
      /\ child' = [child EXCEPT ![p] =
                     IF c.state = "faulty" \/ AfterExec(c) = "zombie" THEN Ended(c)
                     ELSE [c EXCEPT !.state = AfterExec(c),
                                    !.in = in,
                                    !.out = IF opens \/ c.out = "tty" THEN c.out
                                            ELSE "closed"]]
      /\ exists' = IF opens THEN exists \cup {c.out} ELSE exists
      /\ UNCHANGED <<pc, line, split, pid, fds>>

ChildEnds(p) ==
  /\ child[p].state = "running"
  /\ child' = [child EXCEPT ![p] = Ended(child[p])]
  /\ UNCHANGED <<pc, line, split, pid, exists, fds>>

ShellStep ==
  Logged \/ Copy \/ Parse \/ Crash \/ Pipeline \/ Redirected \/ Simple \/ Wait

Next ==
  \/ ReadLine \/ ShellStep
  \/ \E p \in Pid : ChildExec(p) \/ ChildEnds(p)

Spec == Init /\ [][Next]_vars

(* The line asks for a process in the background.                           *)
Ampersand(l) == \E k \in DOMAIN l : l[k].amp

(* Foreground programs end; a program typed with an ampersand may run for   *)
(* ever, and the user need not type anything.                               *)
FairSpec ==
  /\ Spec
  /\ WF_vars(ShellStep)
  /\ \A p \in Pid : /\ WF_vars(ChildExec(p))
                    /\ WF_vars(~ Ampersand(child[p].line) /\ ChildEnds(p))

----------------------------------------------------------------------------
Alive(p) == child[p].state # "none"

Child == [state : {"none", "forked", "faulty", "running", "zombie"},
          line : Command \cup {<<>>}, argv : Seq(Token),
          in : Text, out : Text]

TypeOK ==
  /\ pc \in {"prompt", "typed", "parsed", "wait", "exited", "crashed"}
  /\ line \in Command \cup {<<>>}
  /\ arg \in [0..Top -> Token]
  /\ arg[Top] \in {NULL, Garbage}
  /\ inputnum \in 0..Top
  /\ background \in BOOLEAN
  /\ pid \in Pid \cup {-1, 0}
  /\ child \in [Pid -> Child]
  /\ exists \subseteq Text
  /\ fds \in 0..OPEN_MAX

(* "The parent process should wait for the file to finish execution and     *)
(* then go on to read the next command": only lines with an ampersand leave *)
(* a child, running or unreaped, behind at the prompt, and only those fill  *)
(* the process table until fork fails.                                      *)
PromptMeansDone ==
  (pc # "wait" \/ pid = -1) =>
    \A p \in Pid : Alive(p) => Ampersand(child[p].line)

(* The shell waits for the child of the line it executes; for an older one, *)
(* left in pid, only when the line is a pipeline.                           *)
WaitsForItsOwn ==
  (pc = "wait" /\ pid > 0 /\ Alive(pid)) =>
    \/ child[pid].line = line
    \/ /\ \E k \in DOMAIN line : line[k].word = "|"
       /\ Ampersand(child[pid].line)

(* The positions of a sign in a line, and the word after the only one.      *)
At(l, s) == {k \in DOMAIN l : l[k] = Word(s)}
After(l, s) == IF At(l, s) = {} THEN "tty" ELSE l[Min(At(l, s)) + 1].word

(* The redirections of l stand at its end, one of each at most, and "<"     *)
(* before ">".                                                              *)
Signs(l) == At(l, "<") \cup At(l, ">")
Usual(l) ==
  \A k \in Signs(l) :
    /\ k > 1
    /\ \/ k = Len(l) - 1
       \/ k = Len(l) - 3 /\ l[k] = Word("<") /\ l[Len(l) - 1] = Word(">")

(* Such a line, without ampersand, runs with the arguments before its       *)
(* redirections and reads and writes the files they name, or a closed       *)
(* descriptor, whatever the lines before it left in arg and inputnum.       *)
RunsAsTyped ==
  \A p \in Pid :
    LET c == child[p]
    IN  (c.state \in {"forked", "running"} /\ ~ Ampersand(c.line) /\ Usual(c.line)) =>
          /\ c.argv = IF Signs(c.line) = {} THEN c.line
                      ELSE SubSeq(c.line, 1, Min(Signs(c.line)) - 1)
          /\ c.in \in {After(c.line, "<"), "closed"}
          /\ c.out \in {After(c.line, ">"), "closed"}

(* The prompt comes back unless the shell waits for a program that was      *)
(* typed with an ampersand and does not end.                                *)
PromptComesBack ==
  pc = "wait" ~>
    (pc = "prompt" \/ \E p \in Pid : /\ pid < 1 \/ p = pid
                                     /\ child[p].state = "running"
                                     /\ Ampersand(child[p].line))
=============================================================================

-------------------------------- MODULE Exec --------------------------------
(***************************************************************************)
(* From a path to a program on its stack (syscall/impls.rs: execve;        *)
(* process/binfmt.rs; arch/x86_64/userspace.rs): links are followed, the   *)
(* first bytes of the file are shown to the handlers of the formats, a     *)
(* script is replaced by its interpreter, and the arguments are laid out   *)
(* on the stack of the program that is found at the end.  Nothing of the   *)
(* task changes before the whole succeeds; Process, Descriptors and        *)
(* UserMemory model what it changes then.                                  *)
(*                                                                         *)
(* A word (an argument, a variable of the environment, a path) is a        *)
(* sequence; its length stands for its length in bytes.                    *)
(***************************************************************************)
EXTENDS Vfs

CONSTANTS
  MAX_INTERPRETER_REDIRECTS,   \* 4 in the code
  PageBytes,                   \* 4096
  StackPages,                  \* 8: the pages of the stack that take the arguments
  Load, Redirect, Failed

-----------------------------------------------------------------------------
(* binfmt.rs                                                                 *)

\* The node that open finds, relative to the working directory `from'.  Links
\* are not followed.
opened(from, request) ==
  LET place == lookup_path(IF request.abs THEN request.path ELSE from \o request.path)
  IN  IF place = NotFound THEN NotFound ELSE Node(place)

\* Mutant of ShebangHandler: the name of the script is passed on as well.
KeepsName(request, node) ==
  [path |-> node.to, abs |-> node.abs,
   argv |-> <<node.to>> \o node.arg \o <<request.path>> \o request.argv]

\* The interpreter, at most one argument of its line, the script, and what
\* followed the name of the script.
ShebangHandler(request, node) ==
  [path |-> node.to, abs |-> node.abs,
   argv |-> <<node.to>> \o node.arg \o <<request.path>>
            \o SubSeq(request.argv, 2, Len(request.argv))]

\* The plan of a program: what else its headers ask for.  They must lie in the
\* first 2048 bytes, which is what is read.
ElfHandler(node) ==
  IF node.flaw = "headers" THEN Failed
  ELSE [interpreter |-> node.flaw = "interpreter", behind |-> node.flaw = "segments"]

\* What execve is to do next: a redirection, a program to load, or nothing.
Inspected(request, node) ==
  IF node = NotFound \/ node.type # "file" \/ node.holds = "data" THEN [do |-> Failed]
  ELSE IF node.holds = "script" THEN [do |-> Redirect, what |-> ShebangHandler(request, node)]
  ELSE IF ElfHandler(node) = Failed THEN [do |-> Failed]
  ELSE [do |-> Load, what |-> ElfHandler(node)]

probe_path(from, request) == Inspected(request, opened(from, request))

-----------------------------------------------------------------------------
(* The stack of a new program: strings from the top down, then, below them   *)
(* and aligned, a table of 8-byte slots.                                     *)

StackTop == PageBytes * StackPages

\* One more string below the others: where it is, and what it holds.
PushString(stack, word) ==
  LET at == stack.sp - (Len(word) + 1)
  IN  [sp |-> at, at |-> <<at>> \o stack.at,
       torn |-> stack.torn \/ (at \div PageBytes # (at + Len(word) - 1) \div PageBytes
                               /\ Len(word) > 1),
       text |-> (at :> word) @@ stack.text]

\* The addresses of the strings below sp, computed again from their lengths.
Scan(sp, words) ==
  FoldLeft(LAMBDA s, word : [sp |-> s.sp - (Len(word) + 1),
                             at |-> <<s.sp - (Len(word) + 1)>> \o s.at],
           [sp |-> sp, at |-> <<>>], Reverse(words)).at

Aux == 38        \* slots: 19 pairs
Seed == 16       \* bytes of AT_RANDOM
Platform == [i \in 1 .. 6 |-> "x"]

Pushed(stack, words) == FoldLeft(PushString, stack, Reverse(words))

\* The slots from the stack pointer up: the count, the arguments, the
\* environment, the auxiliary vector, and padding.
Slots(argv, argsTop, envp) ==
  <<Len(argv)>> \o Scan(argsTop, argv) \o <<0>> \o Scan(StackTop, envp) \o <<0>>
  \o [i \in 1 .. Aux |-> "aux"]
  \o (IF (1 + Len(argv) + 1 + Len(envp) + 1) % 2 # 0 THEN <<0>> ELSE <<>>)

\* "torn" is a string that does not lie in one page: write_bytes looks up its
\* first page only.
Framed(strings, seed, table) ==
  [sp |-> 16 * (seed \div 16) - 8 * Len(table), table |-> table, text |-> strings.text,
   low |-> seed,
   torn |-> strings.torn \/ seed \div PageBytes # (seed + Seed - 1) \div PageBytes]

WithTable(env, strings, argv, envp) ==
  Framed(strings, strings.sp - Seed, Slots(argv, env.sp, envp))

build_initial_user_stack(argv, envp, name) ==
  LET env == Pushed([sp |-> StackTop, at |-> <<>>, torn |-> FALSE, text |-> <<>>], envp)
  IN  WithTable(env, Pushed(Pushed(env, argv), <<name, Platform>>), argv, envp)

-----------------------------------------------------------------------------
(* execve.                                                                   *)

\* The path behind the links or, if there is none, the path as it is.
Renamed(request, path) ==
  IF path \in {NotFound, Loop} THEN request ELSE [request EXCEPT !.path = path, !.abs = TRUE]

Canonical(request) == Renamed(request, resolve_symlink_path(request.path))

\* The loop over interpreters.  A program that asks for a loader of its own is
\* refused, and one with segments behind the end of its file.
RECURSIVE Redirected(_, _, _)
Redirected(from, request, redirects) ==
  LET action == probe_path(from, request)
  IN  IF action.do = Failed THEN Failed
      ELSE IF action.do = Load
           THEN IF action.what.interpreter \/ action.what.behind THEN Failed ELSE request
      ELSE IF redirects >= MAX_INTERPRETER_REDIRECTS THEN Failed
      ELSE Redirected(from, Canonical(action.what), redirects + 1)

\* The program at the end with its stack, or a failure.  An absolute path: a
\* relative one has been put behind the working directory.
Loaded(from, found, stack) ==
  IF stack.sp < 0 THEN Failed
  ELSE [program |-> opened(from, found), argv |-> found.argv, stack |-> stack]

Launched(from, path, envp, found) ==
  IF found = Failed THEN Failed
  ELSE Loaded(from, found, build_initial_user_stack(found.argv, envp, path))

execve_with_args(from, path, argv, envp) ==
  Launched(from, path, envp,
           Redirected(from, Canonical([path |-> path, abs |-> TRUE, argv |-> argv]), 0))
=============================================================================

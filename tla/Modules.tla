------------------------------- MODULE Modules -------------------------------
(***************************************************************************)
(* Kernel modules (module/mod.rs, module/registry.rs): registration loads  *)
(* a module after the modules it depends on, initialization may register   *)
(* further modules, and a module nobody depends on can be unloaded.        *)
(*                                                                         *)
(* load_module_recursive is cut into its calls: "stack" holds one frame    *)
(* for each call in progress, with the module and the number of the call   *)
(* it makes next, first one for each dependency, then one for each module  *)
(* its init registers.  A module submitted again after a failure may be    *)
(* another one of the same name.                                           *)
(***************************************************************************)
EXTENDS Naturals, Sequences

CONSTANTS
  Name,
  Module,      \* [name, deps, nested]: what can be submitted
  NoModule

ASSUME ModulesAssumption ==
  /\ NoModule \notin Module
  /\ \A m \in Module : m.name \in Name /\ m.deps \in Seq(Name) /\ m.nested \in Seq(Module)

VARIABLES
  known,     \* known_modules: the last module submitted under a name
  loaded,    \* loaded_modules
  loading,   \* loading_modules
  failed,    \* failed_modules
  stack,
  failing,   \* the call on top of the stack has an error to return
  hung       \* the registry's lock is waited for by its holder

vars == <<known, loaded, loading, failed, stack, failing, hung>>

IsLoaded(n) == loaded[n] # NoModule

Top == stack[Len(stack)]
Rest == SubSeq(stack, 1, Len(stack) - 1)

\* The module whose turn it is in frame f, and whether f's module needs it.
IsDependency(f) == f.next <= Len(f.mod.deps)
HasCall(f) == f.next <= Len(f.mod.deps) + Len(f.mod.nested)
Nested(f) == f.mod.nested[f.next - Len(f.mod.deps)]

\* Mutant of Return: a dependency that fails is tried again.
TryAgain(frames, ok) ==
  LET n == Len(frames)
  IN  /\ failing' = FALSE
      /\ stack' = IF n > 0 /\ (ok \/ ~IsDependency(frames[n])) THEN [frames EXCEPT ![n].next = @ + 1]
                  ELSE frames

\* A call returns to the frames below it.  The error of a dependency is
\* passed on, that of a module registered by an init is not.
Return(frames, ok) ==
  LET n == Len(frames)
      goesOn == ok \/ ~IsDependency(frames[n])
  IN  IF n = 0 THEN stack' = <<>> /\ failing' = FALSE
      ELSE /\ stack' = IF goesOn THEN [frames EXCEPT ![n].next = @ + 1] ELSE frames
           /\ failing' = ~goesOn

\* Mutant of Refused: a module that is being loaded is loaded again.
NotWhileLoading(knows, fails, n) == n \in fails \/ knows[n] = NoModule

\* It failed before, it is being loaded (the dependencies are circular), or
\* nobody submitted it.
Refused(knows, fails, n) == n \in fails \/ n \in loading \/ knows[n] = NoModule

\* The checks at the start of load_module_recursive.
Load(knows, fails, n) ==
  /\ known' = knows /\ failed' = fails
  /\ IF IsLoaded(n) THEN Return(stack, TRUE) /\ UNCHANGED loading
     ELSE IF Refused(knows, fails, n) THEN Return(stack, FALSE) /\ UNCHANGED loading
     ELSE /\ loading' = loading \cup {n}
          /\ stack' = Append(stack, [mod |-> knows[n], next |-> 1])
          /\ failing' = FALSE
  /\ UNCHANGED <<loaded, hung>>

\* register_known, and the load.  (Every module has a name and a version, so the
\* refusal of empty ones does not happen.)
Submit(m) ==
  IF IsLoaded(m.name)
  THEN Return(stack, FALSE) /\ UNCHANGED <<known, loaded, loading, failed, hung>>
  ELSE Load([known EXCEPT ![m.name] = m], failed \ {m.name}, m.name)

register_module(m) ==
  /\ ~hung /\ stack = <<>>
  /\ Submit(m)

\* The next dependency, or the next module that the init registers.
NextCall ==
  /\ stack # <<>> /\ ~failing /\ HasCall(Top)
  /\ IF IsDependency(Top) THEN Load(known, failed, Top.mod.deps[Top.next])
     ELSE Submit(Nested(Top))

\* init has returned.
InitOk ==
  /\ stack # <<>> /\ ~failing /\ ~HasCall(Top)
  /\ loading' = loading \ {Top.mod.name}
  /\ loaded' = [loaded EXCEPT ![Top.mod.name] = Top.mod]
  /\ failed' = failed \ {Top.mod.name}
  /\ Return(Rest, TRUE)
  /\ UNCHANGED <<known, hung>>

\* init, or a dependency, has failed.
GiveUp ==
  /\ stack # <<>>
  /\ loading' = loading \ {Top.mod.name}
  /\ failed' = failed \cup {Top.mod.name}
  /\ Return(Rest, FALSE)
  /\ UNCHANGED <<known, loaded, hung>>

\* An init can fail before it has made all its calls, or leave one out.
InitErr == ~failing /\ stack # <<>> /\ ~IsDependency(Top) /\ GiveUp

LeaveOut ==
  /\ stack # <<>> /\ ~failing /\ HasCall(Top) /\ ~IsDependency(Top)
  /\ Return(stack, TRUE)
  /\ UNCHANGED <<known, loaded, loading, failed, hung>>

Propagate == failing /\ GiveUp

\* Mutant of find_dependent: nobody looks for dependents.
NoDependent(n) == FALSE

find_dependent(n) ==
  \E d \in Name : IsLoaded(d) /\ \E i \in 1 .. Len(loaded[d].deps) : loaded[d].deps[i] = n

\* unload, with the lock held: cleanup of a module that registered others
\* unregisters them, and waits for that lock.
unregister_module(n, cleaned) ==
  /\ ~hung /\ stack = <<>>
  /\ IsLoaded(n) /\ ~find_dependent(n)
  /\ hung' = (loaded[n].nested # <<>>)
  /\ loaded' = IF cleaned /\ loaded[n].nested = <<>> THEN [loaded EXCEPT ![n] = NoModule] ELSE loaded
  /\ UNCHANGED <<known, loading, failed, stack, failing>>

-----------------------------------------------------------------------------
Init ==
  /\ known = [n \in Name |-> NoModule] /\ loaded = [n \in Name |-> NoModule]
  /\ loading = {} /\ failed = {} /\ stack = <<>> /\ failing = FALSE
  /\ hung = FALSE

Step == NextCall \/ LeaveOut \/ InitOk \/ InitErr \/ Propagate

Next ==
  \/ Step
  \/ \E m \in Module : register_module(m)
  \/ \E n \in Name, cleaned \in BOOLEAN : unregister_module(n, cleaned)

Spec == Init /\ [][Next]_vars

-----------------------------------------------------------------------------
(* Properties.                                                               *)

\* The variables have their types.
Frame == [mod : Module, next : Nat \ {0}]
TypeOK ==
  /\ known \in [Name -> Module \cup {NoModule}] /\ loaded \in [Name -> Module \cup {NoModule}]
  /\ loading \subseteq Name /\ failed \subseteq Name
  /\ stack \in Seq(Frame) /\ failing \in BOOLEAN /\ hung \in BOOLEAN

\* Whatever was registered in whatever order, what failed and was tried again,
\* and what was unloaded in between: everything a loaded module depends on is
\* loaded (load_module_recursive, unload).
LoadedClosed ==
  \A n \in Name : IsLoaded(n) => \A i \in 1 .. Len(loaded[n].deps) : IsLoaded(loaded[n].deps[i])

\* No init runs inside itself, and none runs for a name that is loaded, although
\* an init may submit any module, its own name included: the names on the stack
\* are distinct, are those marked as loading, and are not loaded.
LoadsOnce ==
  /\ \A i, j \in 1 .. Len(stack) : stack[i].mod.name = stack[j].mod.name => i = j
  /\ loading = {stack[i].mod.name : i \in 1 .. Len(stack)}
  /\ \A n \in loading : ~IsLoaded(n)
=============================================================================

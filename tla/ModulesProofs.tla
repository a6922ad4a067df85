---------------------------- MODULE ModulesProofs ----------------------------
(***************************************************************************)
(* Proofs about Modules, for any modules, dependencies (circular ones      *)
(* included) and nesting of registrations.                                 *)
(***************************************************************************)
EXTENDS Modules, SequenceTheorems, TLAPS

\* A module is filed under its own name.
FiledByName ==
  \A n \in Name : /\ known[n] # NoModule => known[n].name = n
                  /\ loaded[n] # NoModule => loaded[n].name = n

\* The dependencies a frame is past are loaded.
PastLoaded ==
  \A i \in 1 .. Len(stack) : \A k \in 1 .. Len(stack[i].mod.deps) :
    k < stack[i].next => IsLoaded(stack[i].mod.deps[k])

\* A frame above one that waits for a dependency loads that dependency.
Waiting ==
  \A i \in 1 .. Len(stack) - 1 :
    IsDependency(stack[i]) => stack[i + 1].mod.name = stack[i].mod.deps[stack[i].next]

IInv == TypeOK /\ FiledByName /\ LoadsOnce /\ PastLoaded /\ Waiting /\ LoadedClosed

-----------------------------------------------------------------------------
LEMMA ModuleFacts ==
  ASSUME NEW m \in Module
  PROVE  /\ m.name \in Name /\ m # NoModule
         /\ m.deps \in Seq(Name) /\ m.nested \in Seq(Module)
         /\ Len(m.deps) \in Nat /\ Len(m.nested) \in Nat
BY ModulesAssumption

\* What a call that returns does to the frames: all but the last stay, and the
\* last may go on, past a dependency only if that was loaded.
LEMMA Returned ==
  ASSUME NEW frames \in Seq(Frame), NEW ok \in BOOLEAN, Return(frames, ok)
  PROVE  /\ stack' \in Seq(Frame) /\ failing' \in BOOLEAN
         /\ Len(stack') = Len(frames)
         /\ \A i \in 1 .. Len(frames) :
              /\ stack'[i].mod = frames[i].mod
              /\ \/ stack'[i] = frames[i]
                 \/ /\ i = Len(frames) /\ stack'[i].next = frames[i].next + 1
                    /\ ok \/ ~IsDependency(frames[i])
<1>1. CASE Len(frames) = 0
  <2>1. stack' = <<>> /\ failing' = FALSE
    BY <1>1 DEF Return
  <2>2. stack' \in Seq(Frame) /\ Len(stack') = 0
    BY <2>1, EmptySeq
  <2>3. 1 .. Len(frames) = {}
    BY <1>1
  <2>4. QED
    BY Zenon, <1>1, <2>1, <2>2, <2>3
<1>2. CASE Len(frames) # 0
  <2> DEFINE n == Len(frames)
             goesOn == ok \/ ~IsDependency(frames[n])
  <2>1. n \in Nat /\ n \in 1 .. Len(frames) /\ frames[n] \in Frame
    BY <1>2
  <2>2. /\ stack' = IF goesOn THEN [frames EXCEPT ![n].next = @ + 1] ELSE frames
        /\ failing' = ~goesOn
    BY <1>2 DEF Return
  <2>3. CASE goesOn
    <3>1. stack' = [frames EXCEPT ![n] = [frames[n] EXCEPT !.next = @ + 1]]
      BY <2>2, <2>3
    <3>2. [frames[n] EXCEPT !.next = @ + 1] \in Frame
      BY <2>1 DEF Frame
    <3>3. stack' \in Seq(Frame) /\ Len(stack') = n
      BY <3>1, <3>2, <2>1, ExceptSeq
    <3>4. \A i \in 1 .. n : i # n => stack'[i] = frames[i]
      BY <3>1
    <3>5. stack'[n].mod = frames[n].mod /\ stack'[n].next = frames[n].next + 1
      BY <3>1, <2>1 DEF Frame
    <3>6. QED
      BY <3>3, <3>4, <3>5, <2>2, <2>3
  <2>4. CASE ~goesOn
    BY <2>2, <2>4
  <2>5. QED
    BY <2>3, <2>4
<1>3. QED
  BY <1>1, <1>2

\* The frames below the one on top.
LEMMA Below ==
  ASSUME TypeOK, stack # <<>>
  PROVE  /\ Len(stack) \in Nat \ {0} /\ Top \in Frame
         /\ Rest \in Seq(Frame) /\ Len(Rest) = Len(stack) - 1
         /\ \A i \in 1 .. Len(stack) - 1 : Rest[i] = stack[i]
<1>1. stack \in Seq(Frame)
  BY DEF TypeOK
<1>2. Len(stack) \in Nat \ {0}
  BY <1>1, EmptySeq
<1>3. \A i \in 1 .. Len(stack) : stack[i] \in Frame
  BY <1>1, ElementOfSeq
<1>4. \A i \in 1 .. Len(stack) - 1 : stack[i] \in Frame
  BY <1>2, <1>3
<1> DEFINE m == Len(stack) - 1
           front == SubSeq(stack, 1, m)
<1>5. /\ front \in Seq(Frame)
      /\ Len(front) = IF 1 <= m THEN m - 1 + 1 ELSE 0
      /\ \A i \in 1 .. m - 1 + 1 : front[i] = stack[1 + i - 1]
  BY <1>2, <1>4, SubSeqProperties
<1>6. m \in Nat
  BY <1>2
<1> HIDE DEF front, m
<1>7. Len(front) = m
  BY <1>5, <1>6
<1>8. \A i \in 1 .. m : front[i] = stack[i]
  BY <1>5, <1>6
<1>9. QED
  BY <1>2, <1>3, <1>5, <1>7, <1>8 DEF Rest, Top, front, m

\* A call that returns at once, to the frame on top of the stack.
LEMMA ReturnsAtOnce ==
  ASSUME IInv, NEW ok \in BOOLEAN, Return(stack, ok), UNCHANGED <<loaded, loading, hung>>,
         known' \in [Name -> Module \cup {NoModule}],
         \A n \in Name : known'[n] # NoModule => known'[n].name = n,
         failed' \subseteq Name,
         stack # <<>> /\ ok /\ IsDependency(Top) => IsLoaded(Top.mod.deps[Top.next])
  PROVE  IInv'
<1>1. /\ stack' \in Seq(Frame) /\ failing' \in BOOLEAN
      /\ Len(stack') = Len(stack)
      /\ \A i \in 1 .. Len(stack) :
           /\ stack'[i].mod = stack[i].mod
           /\ \/ stack'[i] = stack[i]
              \/ /\ i = Len(stack) /\ stack'[i].next = stack[i].next + 1
                 /\ ok \/ ~IsDependency(stack[i])
  BY Returned DEF IInv, TypeOK
<1>2. Len(stack) \in Nat /\ \A i \in 1 .. Len(stack) : stack[i] \in Frame
  BY ElementOfSeq, LenProperties DEF IInv, TypeOK
<1>3. TypeOK'
  BY <1>1 DEF IInv, TypeOK
<1>4. FiledByName'
  BY DEF IInv, FiledByName
<1>5. LoadsOnce'
  <2>1. LoadsOnce
    BY DEF IInv
  <2>2. Len(stack') = Len(stack) /\ \A i \in 1 .. Len(stack) : stack'[i].mod.name = stack[i].mod.name
    BY Zenon, <1>1
  <2>3. QED
    BY <2>1, <2>2 DEF LoadsOnce, IsLoaded
<1>6. PastLoaded'
  <2> SUFFICES ASSUME NEW i \in 1 .. Len(stack), NEW k \in 1 .. Len(stack[i].mod.deps),
                      k < stack'[i].next
               PROVE  IsLoaded(stack[i].mod.deps[k])
    BY <1>1 DEF PastLoaded, IsLoaded
  <2>1. stack[i].next \in Nat /\ Len(stack[i].mod.deps) \in Nat
    BY <1>2, ModuleFacts DEF Frame
  <2>2. CASE k < stack[i].next
    BY <2>2 DEF IInv, PastLoaded
  <2>3. CASE ~(k < stack[i].next)
    <3>1. i = Len(stack) /\ stack'[i].next = stack[i].next + 1 /\ (ok \/ ~IsDependency(stack[i]))
      BY <1>1, <2>3
    <3>2. k = stack[i].next
      BY <3>1, <2>1, <2>3
    <3>3. IsDependency(stack[i]) /\ ok
      BY <3>1, <3>2, <2>1 DEF IsDependency
    <3>4. stack # <<>> /\ stack[i] = Top
      BY <3>1, EmptySeq DEF Top, IInv, TypeOK
    <3>5. QED
      BY <3>2, <3>3, <3>4
  <2>4. QED
    BY <2>2, <2>3
<1>7. Waiting'
  <2>1. \A i \in 1 .. Len(stack) - 1 : stack'[i] = stack[i] /\ i + 1 \in 1 .. Len(stack)
    BY <1>1, <1>2
  <2>2. \A i \in 1 .. Len(stack) - 1 : stack'[i + 1].mod = stack[i + 1].mod
    BY <1>1, <2>1
  <2>3. Waiting /\ Len(stack') = Len(stack)
    BY <1>1 DEF IInv
  <2>4. QED
    BY ONLY Zenon, <2>1, <2>2, <2>3 DEF Waiting, IsDependency
<1>8. LoadedClosed'
  BY DEF IInv, LoadedClosed, IsLoaded
<1>9. QED
  BY <1>3, <1>4, <1>5, <1>6, <1>7, <1>8 DEF IInv

\* A call that begins to load a module.
LEMMA BeginsToLoad ==
  ASSUME IInv, NEW m \in Module, m.name \notin loading, ~IsLoaded(m.name),
         loading' = loading \cup {m.name}, stack' = Append(stack, [mod |-> m, next |-> 1]),
         failing' = FALSE, UNCHANGED <<loaded, hung>>,
         known' \in [Name -> Module \cup {NoModule}],
         \A n \in Name : known'[n] # NoModule => known'[n].name = n,
         failed' \subseteq Name,
         stack # <<>> /\ IsDependency(Top) => m.name = Top.mod.deps[Top.next]
  PROVE  IInv'
<1> DEFINE f == [mod |-> m, next |-> 1]
           len == Len(stack)
<1>1. f \in Frame /\ f.mod = m /\ f.next = 1
  BY DEF Frame
<1>2. stack \in Seq(Frame) /\ len \in Nat
  BY LenProperties DEF IInv, TypeOK
<1>3. /\ stack' \in Seq(Frame) /\ Len(stack') = len + 1
      /\ \A i \in 1 .. len : stack'[i] = stack[i]
      /\ stack'[len + 1] = f
  BY <1>1, <1>2, AppendProperties
<1> HIDE DEF f, len
<1>4. 1 .. Len(stack') = (1 .. len) \cup {len + 1} /\ len + 1 \notin 1 .. len
  BY <1>2, <1>3
<1>5. TypeOK'
  <2>1. TypeOK /\ m.name \in Name
    BY ModuleFacts DEF IInv
  <2>2. loading' \subseteq Name
    BY <2>1 DEF TypeOK
  <2>3. QED
    BY ONLY Zenon, <1>3, <2>1, <2>2, failing' = FALSE, UNCHANGED <<loaded, hung>>,
            known' \in [Name -> Module \cup {NoModule}], failed' \subseteq Name DEF TypeOK
<1>6. FiledByName'
  BY DEF IInv, FiledByName
<1>7. LoadsOnce'
  <2>1. \A i \in 1 .. len : stack[i].mod.name \in loading
    BY DEF IInv, LoadsOnce, len
  <2>2. \A i, j \in 1 .. Len(stack') : stack'[i].mod.name = stack'[j].mod.name => i = j
    <3> SUFFICES ASSUME NEW i \in 1 .. Len(stack'), NEW j \in 1 .. Len(stack'),
                        stack'[i].mod.name = stack'[j].mod.name
                 PROVE  i = j
      OBVIOUS
    <3>1. CASE i \in 1 .. len /\ j \in 1 .. len
      BY <3>1, <1>3 DEF IInv, LoadsOnce, len
    <3>2. CASE i = len + 1 /\ j \in 1 .. len
      BY <3>2, <2>1, <1>1, <1>3
    <3>3. CASE i \in 1 .. len /\ j = len + 1
      BY <3>3, <2>1, <1>1, <1>3
    <3>4. QED
      BY <3>1, <3>2, <3>3, <1>4
  <2>3. {stack'[i].mod.name : i \in 1 .. Len(stack')} = {stack[i].mod.name : i \in 1 .. len} \cup {m.name}
    <3>1. \A i \in 1 .. len : stack'[i].mod.name = stack[i].mod.name
      BY Zenon, <1>3
    <3>2. stack'[len + 1].mod.name = m.name
      BY <1>1, <1>3
    <3>3. QED
      <4> DEFINE A == {stack'[i].mod.name : i \in 1 .. Len(stack')}
                 B == {stack[i].mod.name : i \in 1 .. len}
      <4>1. ASSUME NEW x \in A PROVE x \in B \cup {m.name}
        <5>1. PICK i \in 1 .. Len(stack') : x = stack'[i].mod.name
          OBVIOUS
        <5>2. CASE i \in 1 .. len
          BY ONLY Zenon, <5>1, <5>2, <3>1
        <5>3. CASE i = len + 1
          BY ONLY Zenon, <5>1, <5>3, <3>2
        <5>4. QED
          BY <5>2, <5>3, <1>4
      <4>2. ASSUME NEW x \in B PROVE x \in A
        BY <3>1, <1>4
      <4>3. m.name \in A
        BY <3>2, <1>4
      <4>4. QED
        BY Zenon, <4>1, <4>2, <4>3
  <2>4. {stack[i].mod.name : i \in 1 .. len} = loading
    BY DEF IInv, LoadsOnce, len
  <2>5. \A n \in loading' : ~IsLoaded(n)'
    BY DEF IInv, LoadsOnce, IsLoaded
  <2>6. QED
    BY Zenon, <2>2, <2>3, <2>4, <2>5 DEF LoadsOnce
<1>8. PastLoaded'
  <2> SUFFICES ASSUME NEW i \in 1 .. Len(stack'), NEW k \in 1 .. Len(stack'[i].mod.deps),
                      k < stack'[i].next
               PROVE  IsLoaded(stack'[i].mod.deps[k])
    BY DEF PastLoaded, IsLoaded
  <2>1. CASE i \in 1 .. len
    BY <2>1, <1>3 DEF IInv, PastLoaded, len
  <2>2. CASE i = len + 1
    BY <2>2, <1>1, <1>3
  <2>3. QED
    BY <2>1, <2>2, <1>4
<1>9. Waiting'
  <2> SUFFICES ASSUME NEW i \in 1 .. len, IsDependency(stack[i])
               PROVE  stack'[i + 1].mod.name = stack[i].mod.deps[stack[i].next]
    BY <1>2, <1>3 DEF Waiting, IsDependency
  <2>1. CASE i = len
    <3>1. stack # <<>> /\ stack[i] = Top
      BY <2>1, <1>2, EmptySeq DEF Top, len
    <3>2. QED
      BY <3>1, <2>1, <1>1, <1>3
  <2>2. CASE i # len
    <3>1. i \in 1 .. len - 1 /\ i + 1 \in 1 .. len
      BY <2>2, <1>2
    <3>2. QED
      BY <3>1, <1>3 DEF IInv, Waiting, len
  <2>3. QED
    BY Zenon, <2>1, <2>2
<1>10. LoadedClosed'
  BY DEF IInv, LoadedClosed, IsLoaded
<1>11. QED
  BY <1>5, <1>6, <1>7, <1>8, <1>9, <1>10 DEF IInv

LEMMA LoadKeeps ==
  ASSUME IInv, NEW knows \in [Name -> Module \cup {NoModule}], NEW fails \in SUBSET Name, NEW n \in Name,
         \A k \in Name : knows[k] # NoModule => knows[k].name = k,
         Load(knows, fails, n),
         stack # <<>> /\ IsDependency(Top) => n = Top.mod.deps[Top.next]
  PROVE  IInv'
<1>1. known' = knows /\ failed' = fails /\ UNCHANGED <<loaded, hung>>
  BY DEF Load
<1>2. CASE IsLoaded(n)
  <2>1. Return(stack, TRUE) /\ UNCHANGED loading
    BY Zenon, <1>2 DEF Load
  <2>2. QED
    BY Zenon, <1>1, <1>2, <2>1, ReturnsAtOnce
<1>3. CASE ~IsLoaded(n) /\ Refused(knows, fails, n)
  <2>1. Return(stack, FALSE) /\ UNCHANGED loading
    BY Zenon, <1>3 DEF Load
  <2>2. QED
    BY Zenon, <1>1, <2>1, ReturnsAtOnce
<1>4. CASE ~IsLoaded(n) /\ ~Refused(knows, fails, n)
  <2>1. /\ loading' = loading \cup {n} /\ stack' = Append(stack, [mod |-> knows[n], next |-> 1])
        /\ failing' = FALSE
    BY <1>4 DEF Load
  <2>2. n \notin loading /\ knows[n] \in Module /\ knows[n].name = n
    BY <1>4 DEF Refused
  <2>3. QED
    BY Zenon, <1>1, <1>4, <2>1, <2>2, BeginsToLoad
<1>5. QED
  BY <1>2, <1>3, <1>4

LEMMA SubmitKeeps ==
  ASSUME IInv, NEW m \in Module, Submit(m), stack # <<>> => ~IsDependency(Top)
  PROVE  IInv'
<1>1. m.name \in Name
  BY ModuleFacts
<1>2. CASE IsLoaded(m.name)
  <2>1. Return(stack, FALSE) /\ UNCHANGED <<known, loaded, loading, failed, hung>>
    BY Zenon, <1>2 DEF Submit
  <2>2. /\ known \in [Name -> Module \cup {NoModule}] /\ failed \subseteq Name
        /\ \A n \in Name : known[n] # NoModule => known[n].name = n
    BY DEF IInv, TypeOK, FiledByName
  <2>3. QED
    BY Zenon, <2>1, <2>2, ReturnsAtOnce
<1>3. CASE ~IsLoaded(m.name)
  <2> DEFINE knows == [known EXCEPT ![m.name] = m]
             fails == failed \ {m.name}
  <2>1. Load(knows, fails, m.name)
    BY <1>3 DEF Submit
  <2>2. knows \in [Name -> Module \cup {NoModule}] /\ fails \in SUBSET Name
    BY Zenon DEF IInv, TypeOK
  <2>3. \A k \in Name : knows[k] # NoModule => knows[k].name = k
    BY DEF IInv, TypeOK, FiledByName
  <2> HIDE DEF knows, fails
  <2>4. QED
    BY <1>1, <2>1, <2>2, <2>3, LoadKeeps
<1>4. QED
  BY <1>2, <1>3

\* The call on top of the stack returns to the frame below it.
LEMMA Finishes ==
  ASSUME IInv, stack # <<>>, NEW ok \in BOOLEAN, Return(Rest, ok),
         loading' = loading \ {Top.mod.name},
         IF ok THEN loaded' = [loaded EXCEPT ![Top.mod.name] = Top.mod] ELSE UNCHANGED loaded,
         failed' \subseteq Name, UNCHANGED <<known, hung>>,
         ok => ~HasCall(Top)
  PROVE  IInv'
<1> DEFINE len == Len(stack)
           name == Top.mod.name
<1>1. /\ len \in Nat \ {0} /\ Top \in Frame /\ Top = stack[len] /\ len \in 1 .. len
      /\ Rest \in Seq(Frame) /\ Len(Rest) = len - 1
      /\ \A i \in 1 .. len - 1 : Rest[i] = stack[i]
  BY Below DEF IInv, Top
<1>2. /\ stack' \in Seq(Frame) /\ failing' \in BOOLEAN
      /\ Len(stack') = Len(Rest)
      /\ \A i \in 1 .. Len(Rest) :
           /\ stack'[i].mod = Rest[i].mod
           /\ \/ stack'[i] = Rest[i]
              \/ /\ i = Len(Rest) /\ stack'[i].next = Rest[i].next + 1
                 /\ ok \/ ~IsDependency(Rest[i])
  BY <1>1, Returned
<1>3. /\ Len(stack') = len - 1
      /\ \A i \in 1 .. len - 1 :
           /\ stack'[i].mod = stack[i].mod
           /\ \/ stack'[i] = stack[i]
              \/ /\ i = len - 1 /\ stack'[i].next = stack[i].next + 1
                 /\ ok \/ ~IsDependency(stack[i])
  BY <1>1, <1>2
<1>4. Top.mod \in Module /\ name \in Name /\ Top.next \in Nat /\ Len(Top.mod.deps) \in Nat
      /\ Len(Top.mod.nested) \in Nat /\ Top.mod # NoModule
  BY <1>1, ModuleFacts DEF Frame
<1>5. \A i \in 1 .. len - 1 :
        /\ i \in 1 .. len /\ i # len /\ i + 1 \in 1 .. len
        /\ stack[i] \in Frame /\ stack[i].next \in Nat /\ Len(stack[i].mod.deps) \in Nat
  <2> SUFFICES ASSUME NEW i \in 1 .. len - 1
               PROVE  /\ i \in 1 .. len /\ i # len /\ i + 1 \in 1 .. len
                      /\ stack[i] \in Frame /\ stack[i].next \in Nat
                      /\ Len(stack[i].mod.deps) \in Nat
    BY Zenon
  <2>1. i \in 1 .. len /\ i # len /\ i + 1 \in 1 .. len
    BY ONLY len \in Nat \ {0}, <1>1, i \in 1 .. len - 1
  <2>2. stack[i] \in Frame
    BY <2>1, ElementOfSeq DEF IInv, TypeOK
  <2>3. stack[i].mod \in Module /\ stack[i].next \in Nat
    BY ONLY <2>2 DEF Frame
  <2>4. QED
    BY Zenon, <2>1, <2>2, <2>3, ModuleFacts
<1>6. \A n \in Name : loaded'[n] = IF ok /\ n = name THEN Top.mod ELSE loaded[n]
  BY <1>4 DEF IInv, TypeOK
<1> HIDE DEF len, name
<1>7. \A n \in Name : IsLoaded(n) => loaded'[n] # NoModule
  <2> SUFFICES ASSUME NEW n \in Name, loaded[n] # NoModule
               PROVE  loaded'[n] # NoModule
    BY DEF IsLoaded
  <2>1. QED
    BY ONLY <1>4, <1>6, loaded[n] # NoModule, n \in Name
<1>8. ok => loaded'[name] # NoModule
  BY ONLY <1>4, <1>6
<1>9. TypeOK'
  BY <1>2, <1>4 DEF IInv, TypeOK, name
<1>10. FiledByName'
  BY <1>4, <1>6 DEF IInv, FiledByName, name
<1>11. LoadsOnce'
  <2>1. \A i \in 1 .. len - 1 : stack'[i].mod.name = stack[i].mod.name
    BY <1>3
  <2>2. \A i, j \in 1 .. len : stack[i].mod.name = stack[j].mod.name => i = j
    BY DEF IInv, LoadsOnce, len
  <2>3. \A i, j \in 1 .. len - 1 : stack'[i].mod.name = stack'[j].mod.name => i = j
    BY <2>1, <2>2, <1>5
  <2>4. loading = {stack[i].mod.name : i \in 1 .. len}
    BY DEF IInv, LoadsOnce, len
  <2>5. loading' = {stack'[i].mod.name : i \in 1 .. len - 1}
    <3>1. \A i \in 1 .. len - 1 : stack[i].mod.name # name
      BY <1>1, <1>5, <2>2 DEF name
    <3>2. 1 .. len = (1 .. len - 1) \cup {len}
      BY <1>1
    <3>3. stack[len].mod.name = name
      BY <1>1 DEF name
    <3>4. loading' = loading \ {name}
      BY DEF name
    <3>5. QED
      <4>1. ASSUME NEW x \in loading' PROVE x \in {stack'[i].mod.name : i \in 1 .. len - 1}
        <5>1. PICK i \in 1 .. len : x = stack[i].mod.name
          BY ONLY Zenon, <2>4, <3>4, x \in loading'
        <5>2. i \in 1 .. len - 1
          BY ONLY Zenon, <3>2, <3>3, <3>4, <5>1, x \in loading'
        <5>3. QED
          BY ONLY Zenon, <2>1, <5>1, <5>2
      <4>2. ASSUME NEW i \in 1 .. len - 1 PROVE stack'[i].mod.name \in loading'
        BY ONLY Zenon, <2>1, <2>4, <3>1, <3>2, <3>4
      <4>3. QED
        BY ONLY Zenon, <4>1, <4>2
  <2>6. \A n \in loading' : n \in Name /\ n # name /\ ~IsLoaded(n)
    BY DEF IInv, LoadsOnce, TypeOK, name
  <2>7. QED
    BY <2>3, <2>5, <2>6, <1>3, <1>6 DEF LoadsOnce, IsLoaded
<1>12. PastLoaded'
  <2> SUFFICES ASSUME NEW i \in 1 .. len - 1, NEW k \in 1 .. Len(stack[i].mod.deps),
                      k < stack'[i].next
               PROVE  loaded'[stack[i].mod.deps[k]] # NoModule
    BY <1>3 DEF PastLoaded, IsLoaded
  <2>1. stack[i].mod.deps[k] \in Name
    BY <1>5, ModuleFacts, ElementOfSeq DEF Frame
  <2>2. CASE k < stack[i].next
    <3>1. IsLoaded(stack[i].mod.deps[k])
      BY <2>2, <1>5 DEF IInv, PastLoaded, len
    <3>2. QED
      BY ONLY <3>1, <2>1, <1>7
  <2>3. CASE ~(k < stack[i].next)
    <3>1. i = len - 1 /\ stack'[i].next = stack[i].next + 1 /\ (ok \/ ~IsDependency(stack[i]))
      BY <1>3, <2>3
    <3>2. k = stack[i].next
      BY <3>1, <1>5, <2>3
    <3>3. IsDependency(stack[i]) /\ ok
      BY <3>1, <3>2, <1>5 DEF IsDependency
    <3>4. stack[i + 1].mod.name = stack[i].mod.deps[stack[i].next]
      BY <3>3 DEF IInv, Waiting, len
    <3>5. stack[i + 1] = Top
      BY <3>1, <1>1
    <3>6. QED
      BY ONLY <3>2, <3>3, <3>4, <3>5, <1>8 DEF name
  <2>4. QED
    BY <2>2, <2>3
<1>13. Waiting'
  <2> SUFFICES ASSUME NEW i \in 1 .. len - 2, IsDependency(stack'[i])
               PROVE  stack'[i + 1].mod.name = stack'[i].mod.deps[stack'[i].next]
    BY <1>1, <1>3 DEF Waiting, IsDependency
  <2>1. i \in 1 .. len - 1 /\ i # len - 1 /\ i + 1 \in 1 .. len - 1
    BY <1>1
  <2>2. stack'[i] = stack[i] /\ stack'[i + 1].mod = stack[i + 1].mod
    BY <2>1, <1>3
  <2>3. QED
    BY <2>1, <2>2 DEF IInv, Waiting, len
<1>14. LoadedClosed'
  <2> SUFFICES ASSUME NEW n \in Name, loaded'[n] # NoModule, NEW k \in 1 .. Len(loaded'[n].deps)
               PROVE  loaded'[loaded'[n].deps[k]] # NoModule
    BY DEF LoadedClosed, IsLoaded
  <2>1. CASE ok /\ n = name
    <3>1. loaded'[n] = Top.mod
      BY <2>1, <1>6
    <3>2. k < Top.next /\ k \in 1 .. Len(stack[len].mod.deps)
      <4>1. k \in 1 .. Len(Top.mod.deps) /\ ~HasCall(Top)
        BY <3>1, <2>1
      <4>2. ~(Top.next <= Len(Top.mod.deps) + Len(Top.mod.nested))
        BY Zenon, <4>1 DEF HasCall
      <4> DEFINE a == Len(Top.mod.deps)
                 b == Len(Top.mod.nested)
                 c == Top.next
      <4>3. a \in Nat /\ b \in Nat /\ c \in Nat /\ k \in 1 .. a /\ ~(c <= a + b)
        BY Zenon, <4>1, <4>2, <1>4
      <4> HIDE DEF a, b, c
      <4>4. k < c
        BY ONLY <4>3
      <4>5. k < Top.next
        BY <4>4 DEF c
      <4>6. QED
        BY <4>1, <4>5, <1>1
    <3>3. IsLoaded(Top.mod.deps[k])
      BY <3>2, <1>1 DEF IInv, PastLoaded, len
    <3>4. Top.mod.deps[k] \in Name
      BY <3>1, <1>4, ModuleFacts, ElementOfSeq
    <3>5. QED
      BY ONLY <3>1, <3>3, <3>4, <1>7
  <2>2. CASE ~(ok /\ n = name)
    <3>1. loaded'[n] = loaded[n] /\ IsLoaded(n)
      BY <2>2, <1>6 DEF IsLoaded
    <3>2. IsLoaded(loaded[n].deps[k])
      BY <3>1 DEF IInv, LoadedClosed
    <3>3. loaded[n].deps[k] \in Name
      <4>1. loaded[n] \in Module
        BY <3>1 DEF IInv, TypeOK, IsLoaded
      <4>2. QED
        BY <4>1, <3>1, ModuleFacts, ElementOfSeq
    <3>4. QED
      BY ONLY <3>1, <3>2, <3>3, <1>7
  <2>3. QED
    BY <2>1, <2>2
<1>15. QED
  BY <1>9, <1>10, <1>11, <1>12, <1>13, <1>14 DEF IInv

-----------------------------------------------------------------------------
LEMMA Initially == Init => IInv
<1> SUFFICES ASSUME Init PROVE IInv
  OBVIOUS
<1>1. stack \in Seq(Frame) /\ Len(stack) = 0
  BY EmptySeq DEF Init
<1>2. \A n \in Name : known[n] = NoModule /\ loaded[n] = NoModule
  BY Zenon DEF Init
<1>3. TypeOK
  BY Zenon, <1>1 DEF Init, TypeOK
<1>4. FiledByName /\ LoadedClosed
  BY <1>2 DEF FiledByName, LoadedClosed, IsLoaded
<1>5. LoadsOnce /\ PastLoaded /\ Waiting
  BY <1>1 DEF LoadsOnce, PastLoaded, Waiting, Init
<1>6. QED
  BY <1>3, <1>4, <1>5 DEF IInv

LEMMA NextCallKeeps == IInv /\ NextCall => IInv'
<1> SUFFICES ASSUME IInv, NextCall PROVE IInv'
  OBVIOUS
<1>1. /\ stack # <<>> /\ ~failing /\ HasCall(Top)
      /\ Top \in Frame /\ Top.mod \in Module /\ Top.next \in Nat \ {0}
  BY Below DEF NextCall, IInv, TypeOK, Frame
<1>2. CASE IsDependency(Top)
  <2>1. Top.mod.deps[Top.next] \in Name
    BY <1>1, <1>2, ModuleFacts, ElementOfSeq DEF IsDependency
  <2>2. Load(known, failed, Top.mod.deps[Top.next])
    BY <1>2 DEF NextCall
  <2>3. /\ known \in [Name -> Module \cup {NoModule}] /\ failed \in SUBSET Name
        /\ \A n \in Name : known[n] # NoModule => known[n].name = n
    BY DEF IInv, TypeOK, FiledByName
  <2>4. QED
    BY <1>1, <2>1, <2>2, <2>3, LoadKeeps
<1>3. CASE ~IsDependency(Top)
  <2> DEFINE a == Len(Top.mod.deps)
             b == Len(Top.mod.nested)
             c == Top.next
  <2>1. a \in Nat /\ b \in Nat /\ c \in Nat
    BY <1>1, ModuleFacts
  <2>2. c <= a + b /\ ~(c <= a)
    BY Zenon, <1>1, <1>3 DEF HasCall, IsDependency
  <2> HIDE DEF a, b, c
  <2>3. c - a \in 1 .. b
    BY <2>1, <2>2
  <2>4. Nested(Top) \in Module
    BY <1>1, <2>3, ModuleFacts, ElementOfSeq DEF Nested, a, b, c
  <2>5. Submit(Nested(Top))
    BY <1>3 DEF NextCall
  <2>6. QED
    BY <1>1, <1>3, <2>4, <2>5, SubmitKeeps
<1>4. QED
  BY <1>2, <1>3

LEMMA LeaveOutKeeps == IInv /\ LeaveOut => IInv'
<1> SUFFICES ASSUME IInv, LeaveOut PROVE IInv'
  OBVIOUS
<1>1. /\ ~IsDependency(Top) /\ Return(stack, TRUE)
      /\ UNCHANGED <<known, loaded, loading, failed, hung>>
  BY Zenon DEF LeaveOut
<1>2. /\ known \in [Name -> Module \cup {NoModule}] /\ failed \subseteq Name
      /\ \A n \in Name : known[n] # NoModule => known[n].name = n
  BY DEF IInv, TypeOK, FiledByName
<1>3. QED
  BY Zenon, <1>1, <1>2, ReturnsAtOnce

LEMMA InitKeeps == IInv /\ (InitOk \/ InitErr \/ Propagate) => IInv'
<1> SUFFICES ASSUME IInv, InitOk \/ InitErr \/ Propagate PROVE IInv'
  OBVIOUS
<1>1. failed \subseteq Name /\ (stack # <<>> => Top.mod.name \in Name)
  BY Below, ModuleFacts DEF IInv, TypeOK, Frame
<1>2. CASE InitOk
  BY Zenon, <1>1, <1>2, Finishes DEF InitOk
<1>3. CASE GiveUp
  BY Zenon, <1>1, <1>3, Finishes DEF GiveUp
<1>4. QED
  BY <1>2, <1>3 DEF InitErr, Propagate

LEMMA RegisterKeeps ==
  ASSUME IInv, NEW m \in Module, register_module(m)
  PROVE  IInv'
<1>1. stack = <<>> /\ Submit(m)
  BY DEF register_module, IInv, TypeOK
<1>2. QED
  BY <1>1, SubmitKeeps

LEMMA UnregisterKeeps ==
  ASSUME IInv, NEW n \in Name, NEW cleaned \in BOOLEAN, unregister_module(n, cleaned)
  PROVE  IInv'
<1>1. /\ UNCHANGED <<known, loading, failed, stack, failing>>
      /\ loaded' \in {loaded, [loaded EXCEPT ![n] = NoModule]} /\ ~find_dependent(n)
      /\ stack = <<>> /\ hung' \in BOOLEAN
  BY DEF unregister_module
<1>2. Len(stack) = 0 /\ Len(stack') = 0 /\ loading = {}
  BY <1>1, EmptySeq DEF IInv, LoadsOnce
<1>3. \A k \in Name : loaded'[k] # NoModule => loaded'[k] = loaded[k]
  <2>1. loaded \in [Name -> Module \cup {NoModule}]
    BY DEF IInv, TypeOK
  <2>2. QED
    BY ONLY <1>1, <2>1, n \in Name
<1>4. \A k \in Name \ {n} : loaded'[k] = loaded[k]
  BY <1>1 DEF IInv, TypeOK
<1>5. TypeOK'
  BY <1>1 DEF IInv, TypeOK
<1>6. FiledByName'
  BY <1>1, <1>3 DEF IInv, FiledByName
<1>7. LoadsOnce' /\ PastLoaded' /\ Waiting'
  BY <1>1, <1>2 DEF IInv, LoadsOnce, PastLoaded, Waiting
<1>8. LoadedClosed'
  <2> SUFFICES ASSUME NEW k \in Name, loaded'[k] # NoModule, NEW i \in 1 .. Len(loaded'[k].deps)
               PROVE  loaded'[loaded'[k].deps[i]] # NoModule
    BY DEF LoadedClosed, IsLoaded
  <2>1. loaded'[k] = loaded[k] /\ loaded[k] \in Module
    BY <1>3 DEF IInv, TypeOK
  <2>2. loaded[k].deps[i] \in Name
    BY <2>1, ModuleFacts, ElementOfSeq
  <2>3. loaded[k].deps[i] # n
    BY <1>1, <2>1 DEF find_dependent, IsLoaded
  <2>4. loaded[loaded[k].deps[i]] # NoModule
    BY <2>1 DEF IInv, LoadedClosed, IsLoaded
  <2>5. QED
    BY <2>1, <2>2, <2>3, <2>4, <1>4
<1>9. QED
  BY <1>5, <1>6, <1>7, <1>8 DEF IInv

LEMMA Inductive == IInv /\ [Next]_vars => IInv'
<1> SUFFICES ASSUME IInv, [Next]_vars PROVE IInv'
  OBVIOUS
<1>1. CASE Step
  BY <1>1, NextCallKeeps, LeaveOutKeeps, InitKeeps DEF Step
<1>2. CASE \E m \in Module : register_module(m)
  BY <1>2, RegisterKeeps
<1>3. CASE \E n \in Name, cleaned \in BOOLEAN : unregister_module(n, cleaned)
  BY <1>3, UnregisterKeeps
<1>4. CASE UNCHANGED vars
  <2>1. /\ known' = known /\ loaded' = loaded /\ loading' = loading /\ failed' = failed
        /\ stack' = stack /\ failing' = failing /\ hung' = hung
    BY <1>4 DEF vars
  <2>2. TypeOK' /\ FiledByName'
    BY ONLY <2>1, IInv DEF IInv, TypeOK, FiledByName
  <2>3. LoadsOnce'
    BY ONLY Zenon, <2>1, IInv DEF IInv, LoadsOnce, IsLoaded
  <2>4. PastLoaded'
    BY ONLY Zenon, <2>1, IInv DEF IInv, PastLoaded, IsLoaded
  <2>5. Waiting'
    BY ONLY Zenon, <2>1, IInv DEF IInv, Waiting, IsDependency
  <2>6. LoadedClosed'
    BY ONLY Zenon, <2>1, IInv DEF IInv, LoadedClosed, IsLoaded
  <2>7. QED
    BY <2>2, <2>3, <2>4, <2>5, <2>6 DEF IInv
<1>5. QED
  BY <1>1, <1>2, <1>3, <1>4 DEF Next

-----------------------------------------------------------------------------
LEMMA AlwaysIInv == Spec => []IInv
<1>1. QED
  BY Initially, Inductive, PTL DEF Spec

\* Everything a loaded module depends on is loaded, whatever the modules are and
\* in whatever order they are registered, fail, are tried again and are unloaded.
THEOREM DependenciesLoaded == Spec => []LoadedClosed
<1>1. IInv => LoadedClosed
  BY DEF IInv
<1>2. QED
  BY <1>1, AlwaysIInv, PTL

\* No init runs inside itself or for a loaded name, and the registry's set of
\* modules that are being loaded is that of the calls in progress.
THEOREM NoInitTwice == Spec => []LoadsOnce
<1>1. IInv => LoadsOnce
  BY DEF IInv
<1>2. QED
  BY <1>1, AlwaysIInv, PTL
=============================================================================

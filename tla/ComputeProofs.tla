--------------------------- MODULE ComputeProofs ---------------------------
(***************************************************************************)
(* For any number of programs, buffers and OpenCL objects, and any order   *)
(* of calls: each reference on an OpenCL object is that of one field.      *)
(***************************************************************************)
EXTENDS Compute, FiniteSetTheorems, TLAPS

ProgramObjects == [alive : BOOLEAN, context : Nat, program : Nat, kernels : SUBSET Nat,
                   lastBuild : {"none", "succeeded", "failed"}]

\* Some field of some object of the library is the handle o.
Owned(o) ==
    \/ o = context \/ o = queue
    \/ \E p \in Programs : o = prog[p].program \/ o \in prog[p].kernels
    \/ \E b \in Buffers : o = mem[b]

\* A handle is that of an object made before, or null.
ContextInv ==
    /\ created \in 0..MaxObjects
    /\ context \in 0..created /\ queue \in 0..created
    /\ (initialized <=> context # Null) /\ (initialized <=> queue # Null)

ProgramInv ==
    /\ prog \in [Programs -> ProgramObjects]
    /\ \A p \in Programs :
         /\ prog[p].program <= created
         /\ \A k \in prog[p].kernels : k \in 1..created
         /\ ~prog[p].alive => prog[p] = Gone

BufferInv ==
    /\ mem \in [Buffers -> Nat]
    /\ \A b \in Buffers : mem[b] <= created /\ (b \notin exists => mem[b] = Null)

HandlesInv == ContextInv /\ ProgramInv /\ BufferInv

\* No two fields have the same handle.
AloneInv ==
    /\ context # Null => context # queue
    /\ \A p \in Programs :
         /\ prog[p].program # Null => prog[p].program \notin {context, queue}
         /\ context \notin prog[p].kernels /\ queue \notin prog[p].kernels
         /\ \A q \in Programs :
              /\ prog[p].program # Null => prog[p].program \notin prog[q].kernels
              /\ p # q => prog[p].kernels \cap prog[q].kernels = {}
              /\ p # q /\ prog[p].program # Null => prog[p].program # prog[q].program
    /\ \A b \in Buffers : mem[b] # Null =>
         /\ mem[b] \notin {context, queue}
         /\ \A p \in Programs : mem[b] # prog[p].program /\ mem[b] \notin prog[p].kernels
         /\ \A c \in Buffers : b # c => mem[b] # mem[c]

RefsInv ==
    /\ refs \in [Objects -> 0..1]
    /\ \A o \in Objects : refs[o] = 1 <=> Owned(o)

IInv == HandlesInv /\ AloneInv /\ RefsInv /\ NeverReleasedTwice

\* Objects are made, and fields that are left alone keep their types.
LEMMA HandlesStay ==
    ASSUME HandlesInv, created' \in 0..MaxObjects, created <= created'
    PROVE  /\ UNCHANGED <<context, queue, initialized>> => ContextInv'
           /\ UNCHANGED prog => ProgramInv'
           /\ UNCHANGED <<mem, exists>> => BufferInv'
  <1> USE DEF HandlesInv
  <1>1. UNCHANGED <<context, queue, initialized>> => ContextInv'
    BY DEF ContextInv
  <1>2. UNCHANGED prog => ProgramInv'
    BY DEF ContextInv, ProgramInv, ProgramObjects
  <1>3. UNCHANGED <<mem, exists>> => BufferInv'
    BY DEF ContextInv, BufferInv
  <1> QED BY <1>1, <1>2, <1>3

\* What Update does to the counts when nothing is made, and when one or two
\* objects are.
LEMMA UpdateNone ==
    ASSUME NEW S, IInv, Update(S, <<>>, <<>>)
    PROVE  /\ created' = created
           /\ refs' = [o \in Objects |-> IF o \in S THEN 0 ELSE refs[o]]
           /\ ~overreleased /\ (\A o \in S \ {Null} : refs[o] # 0) => ~overreleased'
  <1> DEFINE new == <<>>
  <1>1. DOMAIN new = {}
    OBVIOUS
  <1>2. Cardinality(DOMAIN new) = 0
    BY <1>1, FS_EmptySet
  <1>3. Update(S, new, new)
    OBVIOUS
  <1> HIDE DEF new
  <1>4. \A o \in Objects :
          (IF o - created \in DOMAIN new THEN new[o - created]
           ELSE IF o \in S /\ refs[o] > 0 THEN refs[o] - 1 ELSE refs[o])
          = IF o \in S THEN 0 ELSE refs[o]
    BY <1>1 DEF IInv, RefsInv
  <1>5. created' = created
    BY <1>2, <1>3 DEF Update, IInv, HandlesInv, ContextInv, ProgramInv, BufferInv
  <1>6. refs' = [o \in Objects |-> IF o \in S THEN 0 ELSE refs[o]]
    BY <1>3, <1>4 DEF Update
  <1> QED BY <1>3, <1>5, <1>6 DEF Update

\* A call that makes one object with k references and releases those of S.
LEMMA UpdateOne ==
    ASSUME NEW S, NEW k, NEW x, IInv, Update(S, <<k>>, <<x>>)
    PROVE  /\ created' = created + 1 /\ created + 1 <= MaxObjects
           /\ refs' = [o \in Objects |-> IF o = created + 1 THEN k ELSE IF o \in S THEN 0 ELSE refs[o]]
           /\ ~overreleased /\ (\A o \in S \ {Null} : refs[o] # 0) => ~overreleased'
  <1> DEFINE new == <<k>>
  <1>1. DOMAIN new = {1} /\ new[1] = k
    OBVIOUS
  <1>2. Cardinality(DOMAIN new) = 1
    BY <1>1, FS_Singleton
  <1>3. Update(S, new, <<x>>)
    OBVIOUS
  <1> HIDE DEF new
  <1>4. \A o \in Objects :
          (IF o - created \in DOMAIN new THEN new[o - created]
           ELSE IF o \in S /\ refs[o] > 0 THEN refs[o] - 1 ELSE refs[o])
          = IF o = created + 1 THEN k ELSE IF o \in S THEN 0 ELSE refs[o]
    BY <1>1 DEF IInv, RefsInv, HandlesInv, ContextInv, ProgramInv, BufferInv, Objects
  <1>5. created' = created + 1 /\ created + 1 <= MaxObjects
    BY <1>2, <1>3 DEF Update
  <1>6. refs' = [o \in Objects |-> IF o = created + 1 THEN k ELSE IF o \in S THEN 0 ELSE refs[o]]
    BY <1>3, <1>4 DEF Update
  <1> QED BY <1>3, <1>5, <1>6 DEF Update

\* A call that makes two objects and releases none.
LEMMA UpdateTwo ==
    ASSUME NEW x, NEW y, IInv, Update({}, <<1, 1>>, <<x, y>>)
    PROVE  /\ created' = created + 2 /\ created + 2 <= MaxObjects
           /\ refs' = [o \in Objects |-> IF o \in {created + 1, created + 2} THEN 1 ELSE refs[o]]
           /\ ~overreleased => ~overreleased'
  <1> DEFINE new == <<1, 1>>
  <1>1. DOMAIN new = {1, 2} /\ new[1] = 1 /\ new[2] = 1
    OBVIOUS
  <1>2. Cardinality(DOMAIN new) = 2
    <2>1. DOMAIN new = {1} \cup {2} /\ IsFiniteSet({1}) /\ Cardinality({1}) = 1
      BY <1>1, FS_Singleton
    <2> QED BY <2>1, FS_AddElement
  <1>3. Update({}, new, <<x, y>>)
    OBVIOUS
  <1> HIDE DEF new
  <1>4. \A o \in Objects :
          (IF o - created \in DOMAIN new THEN new[o - created]
           ELSE IF o \in {} /\ refs[o] > 0 THEN refs[o] - 1 ELSE refs[o])
          = IF o \in {created + 1, created + 2} THEN 1 ELSE refs[o]
    BY <1>1 DEF IInv, RefsInv, HandlesInv, ContextInv, ProgramInv, BufferInv, Objects
  <1>5. created' = created + 2 /\ created + 2 <= MaxObjects
    BY <1>2, <1>3 DEF Update
  <1>6. refs' = [o \in Objects |-> IF o \in {created + 1, created + 2} THEN 1 ELSE refs[o]]
    BY <1>3, <1>4 DEF Update
  <1>7. ~overreleased => ~overreleased'
    BY <1>3 DEF Update
  <1> QED BY <1>5, <1>6, <1>7

\* Before any call there are no objects and no handles.
LEMMA InitInv == Init => IInv
  <1> SUFFICES ASSUME Init PROVE IInv
    OBVIOUS
  <1> USE ComputeAssumption DEF Init, Gone, Null
  <1>1. Gone \in ProgramObjects
    BY DEF ProgramObjects
  <1>2. HandlesInv
    BY <1>1 DEF HandlesInv, ContextInv, ProgramInv, BufferInv
  <1>3. AloneInv
    BY DEF AloneInv
  <1>4. RefsInv
    BY DEF RefsInv, Owned, Objects
  <1> QED BY <1>2, <1>3, <1>4 DEF IInv, NeverReleasedTwice

\* A handle is owned exactly if it has its one reference.
LEMMA OwnedHasReference ==
    ASSUME IInv, NEW o, Owned(o), o # Null
    PROVE  o \in Objects /\ o <= created /\ refs[o] = 1
  <1>1. o \in 1..created
    BY DEF IInv, HandlesInv, ContextInv, ProgramInv, BufferInv, ProgramObjects, Owned, Null
  <1> QED BY <1>1, ComputeAssumption DEF IInv, HandlesInv, ContextInv, RefsInv, Objects

\* The context object's steps preserve the invariant.
LEMMA ContextStep ==
    ASSUME IInv, Initialize \/ InitializeFails \/ Shutdown
    PROVE  IInv'
  <1> USE ComputeAssumption DEF IInv, Null, NeverReleasedTwice
  <1>1. CASE Initialize
    <2>1. /\ created' = created + 2 /\ created + 2 <= MaxObjects
          /\ refs' = [o \in Objects |-> IF o \in {created + 1, created + 2} THEN 1 ELSE refs[o]]
          /\ ~overreleased'
      BY <1>1, UpdateTwo DEF Initialize
    <2>2. /\ context' = created + 1 /\ queue' = created + 2 /\ initialized' /\ ~initialized
          /\ UNCHANGED <<prog, mem, exists>>
      BY <1>1 DEF Initialize, buffers
    <2>3. HandlesInv'
      <3>1. created' \in 0..MaxObjects /\ created <= created'
        BY <2>1 DEF HandlesInv, ContextInv
      <3>2. ContextInv'
        BY <2>1, <2>2 DEF HandlesInv, ContextInv
      <3> QED BY <2>2, <3>1, <3>2, HandlesStay DEF HandlesInv
    <2>4. AloneInv'
      BY <2>1, <2>2 DEF AloneInv, HandlesInv, ContextInv, ProgramInv, BufferInv
    <2>5. RefsInv'
      <3>1. \A o \in Objects : Owned(o)' <=> o \in {created + 1, created + 2} \/ Owned(o)
        BY <2>2 DEF Owned, HandlesInv, ContextInv, ProgramInv, BufferInv, Objects
      <3> QED BY <2>1, <3>1 DEF RefsInv
    <2> QED BY <2>1, <2>3, <2>4, <2>5
  <1>2. CASE InitializeFails
    <2>1. /\ created' = created + 1 /\ created + 1 <= MaxObjects
          /\ refs' = [o \in Objects |-> IF o = created + 1 THEN 0 ELSE IF o \in {} THEN 0 ELSE refs[o]]
          /\ ~overreleased'
      BY <1>2, UpdateOne DEF InitializeFails
    <2>2. UNCHANGED <<context, queue, initialized, prog, mem, exists>>
      BY <1>2 DEF InitializeFails, ocl, buffers
    <2>3. HandlesInv'
      BY <2>1, <2>2, HandlesStay DEF HandlesInv, ContextInv
    <2>4. AloneInv'
      BY <2>2 DEF AloneInv
    <2>5. RefsInv'
      <3>1. \A o \in Objects : Owned(o)' <=> Owned(o)
        BY <2>2 DEF Owned
      <3>2. ~Owned(created + 1)
        BY OwnedHasReference DEF HandlesInv, ContextInv
      <3> QED BY <2>1, <3>1, <3>2 DEF RefsInv
    <2> QED BY <2>1, <2>3, <2>4, <2>5
  <1>3. CASE Shutdown
    <2>1. /\ context # Null /\ queue # Null /\ Owned(context) /\ Owned(queue)
      BY <1>3 DEF Shutdown, HandlesInv, ContextInv, ProgramInv, BufferInv, Owned
    <2>2. /\ created' = created
          /\ refs' = [o \in Objects |-> IF o \in {queue, context} THEN 0 ELSE refs[o]]
          /\ ~overreleased'
      BY <1>3, <2>1, OwnedHasReference, UpdateNone DEF Shutdown, Release
    <2>3. context' = Null /\ queue' = Null /\ ~initialized' /\ UNCHANGED <<prog, mem, exists>>
      BY <1>3 DEF Shutdown, buffers
    <2>4. HandlesInv'
      BY <2>2, <2>3 DEF HandlesInv, ContextInv, ProgramInv, BufferInv
    <2>5. AloneInv'
      BY <2>3 DEF AloneInv, HandlesInv, ContextInv, ProgramInv, BufferInv
    <2>6. RefsInv'
      <3>1. \A o \in Objects : Owned(o)' <=> Owned(o) /\ o \notin {queue, context}
        BY <2>1, <2>3 DEF Owned, AloneInv, Objects
      <3> QED BY <2>2, <3>1 DEF RefsInv
    <2> QED BY <2>2, <2>4, <2>5, <2>6
  <1> QED BY <1>1, <1>2, <1>3

\* The steps of a program that makes at most one object and replaces its own:
\* NewProgram, the three ends of a build, CreateKernel and the destructor.
LEMMA NewProgramStep ==
    ASSUME IInv, NEW p \in Programs, NewProgram(p)
    PROVE  IInv'
  <1> USE DEF IInv, NeverReleasedTwice
  <1> DEFINE made == [Gone EXCEPT !.alive = TRUE, !.context = context]
  <1>1. prog' = [prog EXCEPT ![p] = made]
        /\ UNCHANGED <<created, refs, overreleased, context, queue, initialized, mem, exists>>
    BY DEF NewProgram, objects, ocl, buffers
  <1>2. /\ made \in ProgramObjects /\ made.alive
        /\ made.program = Null /\ made.kernels = {}
    <2>1. Gone \in ProgramObjects /\ Gone.program = Null /\ Gone.kernels = {}
      BY DEF Gone, ProgramObjects, Null
    <2>2. context \in Nat
      BY DEF HandlesInv, ContextInv
    <2> QED BY <2>1, <2>2 DEF ProgramObjects
  <1>3. prog[p].program = Null /\ prog[p].kernels = {}
    BY DEF NewProgram, HandlesInv, ProgramInv, Gone
  <1> HIDE DEF made
  <1>4. prog' \in [Programs -> ProgramObjects]
    BY <1>1, <1>2 DEF HandlesInv, ProgramInv
  <1>5. \A q \in Programs : prog'[q].program = prog[q].program /\ prog'[q].kernels = prog[q].kernels
    BY <1>1, <1>2, <1>3 DEF HandlesInv, ProgramInv
  <1>6. HandlesInv'
    <2>1. \A q \in Programs : ~prog'[q].alive => prog'[q] = Gone
      BY <1>1, <1>2 DEF HandlesInv, ProgramInv
    <2>2. ProgramInv'
      BY <1>1, <1>4, <1>5, <2>1 DEF HandlesInv, ProgramInv, Gone
    <2> QED BY <1>1, <2>2, HandlesStay DEF HandlesInv, ContextInv
  <1>7. AloneInv'
    BY <1>1, <1>5 DEF AloneInv
  <1>8. RefsInv'
    <2>1. \A o \in Objects : Owned(o)' <=> Owned(o)
      BY <1>1, <1>5 DEF Owned
    <2> QED BY <1>1, <2>1 DEF RefsInv
  <1> QED BY <1>1, <1>6, <1>7, <1>8

\* A build, whether it succeeds or fails at either of its steps.
LEMMA BuildStep ==
    ASSUME IInv, NEW p \in Programs, BuildSucceeds(p) \/ BuildFails(p) \/ CreateProgramFails(p)
    PROVE  IInv'
  <1> USE ComputeAssumption DEF IInv, Null, NeverReleasedTwice
  <1> DEFINE old == prog[p].program
             handle == prog'[p].program
  <1>1. old # Null => old \in Objects /\ refs[old] = 1
    <2>1. Owned(old)
      BY DEF Owned
    <2> QED BY <2>1, OwnedHasReference
  <1>2. /\ created' \in {created, created + 1} /\ created' <= MaxObjects
        /\ handle \in {Null, created + 1} /\ handle <= created'
        /\ \A o \in Objects : refs'[o] = IF o = handle THEN 1
                                         ELSE IF o \in {old, created + 1} THEN 0 ELSE refs[o]
        /\ refs' \in [Objects -> 0..1]
        /\ ~overreleased'
        /\ \E outcome \in {"succeeded", "failed"} : Rebuilt(p, handle, outcome)
    <2>1. ~Owned(created + 1) /\ created \in Nat /\ MaxObjects \in Nat
      BY OwnedHasReference DEF HandlesInv, ContextInv
    <2>2. CASE BuildSucceeds(p)
      <3>1. /\ created' = created + 1 /\ created + 1 <= MaxObjects
            /\ refs' = [o \in Objects |-> IF o = created + 1 THEN 1 ELSE IF o \in {old} THEN 0 ELSE refs[o]]
            /\ ~overreleased'
        BY <1>1, <2>2, UpdateOne DEF BuildSucceeds
      <3>2. Rebuilt(p, created + 1, "succeeded")
        BY <2>2 DEF BuildSucceeds
      <3>3. handle = created + 1
        BY <3>2 DEF Rebuilt, HandlesInv, ProgramInv, ProgramObjects
      <3> HIDE DEF old, handle
      <3> QED BY <2>1, <3>1, <3>2, <3>3 DEF RefsInv, Objects
    <2>3. CASE BuildFails(p)
      <3>1. /\ created' = created + 1 /\ created + 1 <= MaxObjects
            /\ refs' = [o \in Objects |-> IF o = created + 1 THEN 0 ELSE IF o \in {old} THEN 0 ELSE refs[o]]
            /\ ~overreleased'
        <4>1. Update({old}, <<0>>, <<prog[p].context>>)
          BY <2>3 DEF BuildFails
        <4>2. ~overreleased /\ \A o \in {old} \ {Null} : refs[o] # 0
          BY <1>1
        <4> HIDE DEF old
        <4> QED BY <4>1, <4>2, UpdateOne
      <3>2. Rebuilt(p, Null, "failed")
        BY <2>3 DEF BuildFails
      <3>3. handle = Null
        BY <3>2 DEF Rebuilt, HandlesInv, ProgramInv, ProgramObjects
      <3> HIDE DEF old, handle
      <3> QED BY <2>1, <3>1, <3>2, <3>3 DEF RefsInv, Objects
    <2>4. CASE CreateProgramFails(p)
      <3>1. /\ created' = created
            /\ refs' = [o \in Objects |-> IF o \in {old} THEN 0 ELSE refs[o]]
            /\ ~overreleased'
        BY <1>1, <2>4, UpdateNone DEF CreateProgramFails
      <3>2. Rebuilt(p, Null, "failed")
        BY <2>4 DEF CreateProgramFails
      <3>3. handle = Null
        BY <3>2 DEF Rebuilt, HandlesInv, ProgramInv, ProgramObjects
      <3>4. \A o \in Objects : o = created + 1 => refs[o] = 0
        BY <2>1 DEF RefsInv
      <3> HIDE DEF old, handle
      <3> QED BY <2>1, <3>1, <3>2, <3>3, <3>4 DEF RefsInv, Objects, HandlesInv, ContextInv
    <2> QED BY <2>2, <2>3, <2>4
  <1>3. /\ prog' \in [Programs -> ProgramObjects]
        /\ \A q \in Programs :
             /\ prog'[q].program = IF q = p THEN handle ELSE prog[q].program
             /\ prog'[q].kernels = prog[q].kernels /\ (prog'[q].alive <=> prog[q].alive)
             /\ q # p => prog'[q] = prog[q]
    <2>1. handle \in Nat
      BY <1>2 DEF HandlesInv, ContextInv
    <2>2. PICK outcome \in {"succeeded", "failed"} : Rebuilt(p, handle, outcome)
      BY <1>2
    <2> DEFINE built == [prog[p] EXCEPT !.program = handle, !.lastBuild = outcome]
    <2>3. prog[p] \in ProgramObjects /\ prog \in [Programs -> ProgramObjects]
      BY DEF HandlesInv, ProgramInv
    <2> HIDE DEF handle
    <2>4. /\ built \in ProgramObjects /\ built.program = handle
          /\ built.kernels = prog[p].kernels /\ (built.alive <=> prog[p].alive)
      BY <2>1, <2>3 DEF ProgramObjects
    <2>5. prog' = [prog EXCEPT ![p] = built]
      BY <2>2, <2>3 DEF Rebuilt
    <2> HIDE DEF built
    <2> QED BY <2>3, <2>4, <2>5
  <1>4. prog[p].alive /\ UNCHANGED <<context, queue, initialized, mem, exists>>
    BY DEF BuildSucceeds, BuildFails, CreateProgramFails, ocl, buffers
  <1>5. created \in Nat /\ created <= created' /\ created' \in 0..MaxObjects /\ handle \in Nat
    BY <1>2 DEF HandlesInv, ContextInv
  <1>6. old \in Nat
    BY DEF HandlesInv, ProgramInv, ProgramObjects
  <1> HIDE DEF old, handle
  <1>7. HandlesInv'
    <2>1. \A q \in Programs : \A k \in prog'[q].kernels : k \in 1..created'
      BY <1>3, <1>5 DEF HandlesInv, ProgramInv
    <2>2. \A q \in Programs : prog'[q].program <= created'
      BY <1>2, <1>3, <1>5 DEF HandlesInv, ProgramInv, ProgramObjects
    <2>3. \A q \in Programs : ~prog'[q].alive => prog'[q] = Gone
      BY <1>3, <1>4 DEF HandlesInv, ProgramInv
    <2>4. ProgramInv'
      BY <1>3, <2>1, <2>2, <2>3 DEF ProgramInv
    <2> QED BY <1>4, <1>5, <2>4, HandlesStay DEF HandlesInv
  <1>8. AloneInv'
    <2>1. \A o : Owned(o) => o # created + 1
      BY <1>5, OwnedHasReference
    <2>2. handle # Null => ~Owned(handle)
      BY <1>2, <2>1
    <2> QED BY <1>3, <1>4, <2>2 DEF AloneInv, Owned
  <1>9. RefsInv'
    <2>1. \A o \in Objects : Owned(o)' <=> o = handle \/ (o # old /\ Owned(o))
      <3>1. \A o \in Objects : o # Null
        BY DEF Objects
      <3>2. \A o \in Objects : o = old =>
              /\ o # context /\ o # queue
              /\ \A q \in Programs : o \notin prog[q].kernels /\ (q # p => o # prog[q].program)
              /\ \A b \in Buffers : o # mem[b]
        BY <3>1 DEF AloneInv, old
      <3> QED BY <1>3, <1>4, <3>2 DEF Owned, old
    <2>2. ~Owned(created + 1)
      BY <1>5, OwnedHasReference
    <2> QED BY <1>2, <2>1, <2>2 DEF RefsInv
  <1> QED BY <1>2, <1>7, <1>8, <1>9

\* CreateKernel: a new object, remembered by the program.
LEMMA KernelStep ==
    ASSUME IInv, NEW p \in Programs, CreateKernel(p)
    PROVE  IInv'
  <1> USE ComputeAssumption DEF IInv, Null, NeverReleasedTwice
  <1> DEFINE new == created + 1
             grown == [prog[p] EXCEPT !.kernels = @ \cup {new}]
  <1>1. /\ created' = new /\ new <= MaxObjects /\ ~overreleased'
        /\ refs' = [o \in Objects |-> IF o = new THEN 1 ELSE IF o \in {} THEN 0 ELSE refs[o]]
    BY UpdateOne DEF CreateKernel, Create
  <1>2. created \in Nat /\ new \in Objects /\ ~Owned(new)
    BY <1>1, OwnedHasReference DEF HandlesInv, ContextInv, Objects
  <1>3. /\ prog[p].alive /\ prog[p] \in ProgramObjects /\ prog \in [Programs -> ProgramObjects]
        /\ UNCHANGED <<context, queue, initialized, mem, exists>>
    BY DEF CreateKernel, HandlesInv, ProgramInv, ocl, buffers, Gone
  <1>4. prog' = [prog EXCEPT ![p] = grown]
    BY <1>3 DEF CreateKernel
  <1> HIDE DEF new
  <1>5. /\ grown \in ProgramObjects /\ (grown.alive <=> prog[p].alive)
        /\ grown.program = prog[p].program /\ grown.kernels = prog[p].kernels \cup {new}
    BY <1>2, <1>3 DEF ProgramObjects, Objects
  <1> HIDE DEF grown
  <1>6. /\ prog' \in [Programs -> ProgramObjects]
        /\ \A q \in Programs :
             /\ prog'[q].program = prog[q].program /\ (prog'[q].alive <=> prog[q].alive)
             /\ \A k : k \in prog'[q].kernels <=> k \in prog[q].kernels \/ (q = p /\ k = new)
             /\ q # p => prog'[q] = prog[q]
    BY <1>3, <1>4, <1>5
  <1>7. HandlesInv'
    <2>1. /\ created' \in 0..MaxObjects /\ created <= created'
          /\ \A q \in Programs :
               /\ prog'[q].program <= created'
               /\ \A k \in prog'[q].kernels : k \in 1..created'
      BY <1>1, <1>2, <1>6 DEF new, HandlesInv, ProgramInv, ProgramObjects
    <2>2. \A q \in Programs : ~prog'[q].alive => prog'[q] = Gone
      BY <1>3, <1>6 DEF HandlesInv, ProgramInv
    <2>3. ProgramInv'
      BY <1>6, <2>1, <2>2 DEF ProgramInv
    <2> QED BY <1>3, <2>1, <2>3, HandlesStay DEF HandlesInv
  <1>8. AloneInv'
    <2>1. /\ new # context /\ new # queue
          /\ \A q \in Programs : new # prog[q].program /\ new \notin prog[q].kernels
          /\ \A b \in Buffers : new # mem[b]
      BY <1>2 DEF Owned
    <2>2. \A q, r \in Programs : q # r => prog'[q].kernels \cap prog'[r].kernels = {}
      <3>1. \A q, r \in Programs : q # r => \A k : ~(k \in prog[q].kernels /\ k \in prog[r].kernels)
        BY DEF AloneInv
      <3> QED BY <1>6, <2>1, <3>1
    <2> QED BY <1>3, <1>6, <2>1, <2>2 DEF AloneInv
  <1>9. RefsInv'
    <2>1. \A o \in Objects : Owned(o)' <=> o = new \/ Owned(o)
      BY <1>3, <1>6 DEF Owned
    <2> QED BY <1>1, <2>1 DEF RefsInv
  <1> QED BY <1>1, <1>7, <1>8, <1>9

\* A file that cannot be opened leaves every handle where it is.
LEMMA FileStep ==
    ASSUME IInv, NEW p \in Programs, FileNotOpened(p)
    PROVE  IInv'
  <1> USE DEF IInv, NeverReleasedTwice
  <1> DEFINE failed == [prog[p] EXCEPT !.lastBuild = "failed"]
  <1>1. /\ prog[p].alive /\ prog[p] \in ProgramObjects /\ prog \in [Programs -> ProgramObjects]
        /\ UNCHANGED <<created, refs, overreleased, context, queue, initialized, mem, exists>>
    BY DEF FileNotOpened, HandlesInv, ProgramInv, objects, ocl, buffers
  <1>2. prog' = [prog EXCEPT ![p] = failed]
    BY <1>1 DEF FileNotOpened, Rebuilt, ProgramObjects
  <1>3. /\ failed \in ProgramObjects /\ failed.alive
        /\ failed.program = prog[p].program /\ failed.kernels = prog[p].kernels
    BY <1>1 DEF ProgramObjects
  <1> HIDE DEF failed
  <1>4. /\ prog' \in [Programs -> ProgramObjects]
        /\ \A q \in Programs : /\ prog'[q].program = prog[q].program /\ prog'[q].kernels = prog[q].kernels
                               /\ prog'[q] = prog[q] \/ prog'[q].alive
    BY <1>1, <1>2, <1>3
  <1>5. HandlesInv'
    <2>1. ProgramInv'
      BY <1>1, <1>4 DEF HandlesInv, ProgramInv
    <2> QED BY <1>1, <2>1, HandlesStay DEF HandlesInv, ContextInv
  <1>6. AloneInv'
    BY <1>1, <1>4 DEF AloneInv
  <1>7. RefsInv'
    BY <1>1, <1>4 DEF RefsInv, Owned
  <1> QED BY <1>1, <1>5, <1>6, <1>7

\* ~OpenCLProgram releases its kernels and its program.
LEMMA DestroyProgramStep ==
    ASSUME IInv, NEW p \in Programs, DestroyProgram(p)
    PROVE  IInv'
  <1> USE ComputeAssumption DEF IInv, Null, NeverReleasedTwice
  <1> DEFINE old == prog[p].kernels \cup {prog[p].program}
  <1>1. \A o \in old \ {Null} : o \in Objects /\ refs[o] = 1 /\ Owned(o)
    <2>1. \A o \in old : Owned(o)
      BY DEF Owned
    <2> QED BY <2>1, OwnedHasReference
  <1>2. /\ created' = created /\ ~overreleased'
        /\ refs' = [o \in Objects |-> IF o \in old THEN 0 ELSE refs[o]]
    <2>1. Update(old, <<>>, <<>>)
      BY DEF DestroyProgram, Release
    <2>2. ~overreleased /\ \A o \in old \ {Null} : refs[o] # 0
      BY <1>1
    <2> HIDE DEF old
    <2> QED BY <2>1, <2>2, UpdateNone
  <1>3. /\ prog' = [prog EXCEPT ![p] = Gone] /\ prog \in [Programs -> ProgramObjects]
        /\ UNCHANGED <<context, queue, initialized, mem, exists>>
    BY DEF DestroyProgram, HandlesInv, ProgramInv, ocl, buffers
  <1>4. Gone \in ProgramObjects /\ Gone.program = Null /\ Gone.kernels = {}
    BY DEF Gone, ProgramObjects
  <1>5. /\ prog' \in [Programs -> ProgramObjects]
        /\ prog'[p] = Gone /\ prog'[p].program = Null /\ prog'[p].kernels = {}
        /\ \A q \in Programs : q # p => prog'[q] = prog[q]
    BY <1>3, <1>4
  <1>6. HandlesInv'
    <2>1. created \in Nat /\ created' \in 0..MaxObjects /\ created <= created'
      BY <1>2 DEF HandlesInv, ContextInv
    <2>2. \A q \in Programs :
            /\ prog'[q].program <= created'
            /\ \A k \in prog'[q].kernels : k \in 1..created'
            /\ ~prog'[q].alive => prog'[q] = Gone
      BY <1>2, <1>5, <2>1 DEF HandlesInv, ProgramInv
    <2>3. ProgramInv'
      BY <1>5, <2>2 DEF ProgramInv
    <2> QED BY <1>3, <2>1, <2>3, HandlesStay DEF HandlesInv
  <1>7. AloneInv'
    BY <1>3, <1>5 DEF AloneInv
  <1>8. RefsInv'
    <2>1. \A o \in Objects : o \in old =>
            /\ o # context /\ o # queue
            /\ \A q \in Programs \ {p} : o \notin prog[q].kernels /\ o # prog[q].program
            /\ \A b \in Buffers : o # mem[b]
      <3>1. \A o \in Objects : o # Null
        BY DEF Objects
      <3>2. \A q \in Programs : p # q => \A k \in prog[p].kernels : k \notin prog[q].kernels
        BY DEF AloneInv
      <3>3. \A o \in Objects : o \in prog[p].kernels \/ (o = prog[p].program /\ o # Null) <=> o \in old
        BY <3>1
      <3> QED BY <3>1, <3>2, <3>3 DEF AloneInv
    <2>2. \A o \in Objects : Owned(o)' <=> o \notin old /\ Owned(o)
      <3>1. \A o \in Objects : o # Null
        BY DEF Objects
      <3>2. \A o \in Objects : Owned(o)' <=>
              \/ o = context \/ o = queue
              \/ \E q \in Programs \ {p} : o = prog[q].program \/ o \in prog[q].kernels
              \/ \E b \in Buffers : o = mem[b]
        BY <1>3, <1>5, <3>1 DEF Owned
      <3> QED BY <2>1, <3>2 DEF Owned
    <2> QED BY <1>2, <2>2 DEF RefsInv
  <1> QED BY <1>2, <1>6, <1>7, <1>8

\* OpenCLBuffer's operations.
LEMMA BufferStep ==
    ASSUME IInv, NEW b \in Buffers, NewBuffer(b) \/ DestroyBuffer(b) \/ MapInternal(b) \/ Unmap(b)
    PROVE  IInv'
  <1> USE ComputeAssumption DEF IInv, Null, NeverReleasedTwice
  <1>0. UNCHANGED <<context, queue, initialized, prog>>
    BY DEF NewBuffer, DestroyBuffer, MapInternal, Unmap, ocl
  <1>1. CASE NewBuffer(b) /\ Create(context) /\ mem' = [mem EXCEPT ![b] = created + 1]
    <2>1. /\ created' = created + 1 /\ created + 1 <= MaxObjects /\ ~overreleased'
          /\ refs' = [o \in Objects |-> IF o = created + 1 THEN 1 ELSE IF o \in {} THEN 0 ELSE refs[o]]
      BY <1>1, UpdateOne DEF Create
    <2>2. created \in Nat /\ created + 1 \in Objects /\ ~Owned(created + 1)
      BY <2>1, OwnedHasReference DEF HandlesInv, ContextInv, Objects
    <2>3. /\ exists' = exists \cup {b} /\ mem[b] = Null /\ mem \in [Buffers -> Nat]
          /\ mem' \in [Buffers -> Nat]
          /\ \A c \in Buffers : mem'[c] = IF c = b THEN created + 1 ELSE mem[c]
      BY <1>1, <2>2 DEF NewBuffer, HandlesInv, BufferInv
    <2>4. HandlesInv'
      <3>1. created' \in 0..MaxObjects /\ created <= created'
        BY <2>1, <2>2
      <3>2. BufferInv'
        BY <2>1, <2>2, <2>3 DEF HandlesInv, BufferInv
      <3> QED BY <1>0, <3>1, <3>2, HandlesStay DEF HandlesInv
    <2>5. AloneInv'
      BY <1>0, <2>2, <2>3 DEF AloneInv, Owned
    <2>6. RefsInv'
      <3>1. \A o \in Objects : o # Null
        BY DEF Objects
      <3>2. \A o \in Objects : Owned(o)' <=> o = created + 1 \/ Owned(o)
        BY <1>0, <2>3, <3>1 DEF Owned
      <3> QED BY <2>1, <3>2 DEF RefsInv
    <2> QED BY <2>1, <2>4, <2>5, <2>6
  <1>2. CASE DestroyBuffer(b)
    <2>1. mem[b] # Null => mem[b] \in Objects /\ refs[mem[b]] = 1
      <3>1. Owned(mem[b])
        BY DEF Owned
      <3> QED BY <3>1, OwnedHasReference
    <2>2. /\ created' = created /\ ~overreleased'
          /\ refs' = [o \in Objects |-> IF o \in {mem[b]} THEN 0 ELSE refs[o]]
      BY <1>2, <2>1, UpdateNone DEF DestroyBuffer, Release
    <2>3. /\ exists' = exists \ {b} /\ mem \in [Buffers -> Nat] /\ mem' \in [Buffers -> Nat]
          /\ \A c \in Buffers : mem'[c] = IF c = b THEN Null ELSE mem[c]
      BY <1>2 DEF DestroyBuffer, HandlesInv, BufferInv
    <2>4. HandlesInv'
      <3>1. created \in Nat /\ created' \in 0..MaxObjects /\ created <= created'
        BY <2>2 DEF HandlesInv, ContextInv
      <3>2. BufferInv'
        BY <2>2, <2>3, <3>1 DEF HandlesInv, BufferInv
      <3> QED BY <1>0, <3>1, <3>2, HandlesStay DEF HandlesInv
    <2>5. AloneInv'
      BY <1>0, <2>3 DEF AloneInv
    <2>6. RefsInv'
      <3>1. \A o \in Objects : o # Null
        BY DEF Objects
      <3>2. \A o \in Objects : Owned(o)' <=> o # mem[b] /\ Owned(o)
        BY <1>0, <2>3, <3>1 DEF Owned, AloneInv
      <3> QED BY <2>2, <3>2 DEF RefsInv
    <2> QED BY <2>2, <2>4, <2>5, <2>6
  <1>3. CASE UNCHANGED <<created, refs, overreleased, mem>> /\ (exists' = exists \/ exists' = exists \cup {b})
    <2>1. HandlesInv'
      BY <1>0, <1>3 DEF HandlesInv, ContextInv, ProgramInv, BufferInv
    <2>2. AloneInv'
      BY <1>0, <1>3 DEF AloneInv
    <2>3. RefsInv'
      BY <1>0, <1>3 DEF RefsInv, Owned
    <2> QED BY <1>3, <2>1, <2>2, <2>3
  <1> QED BY <1>1, <1>2, <1>3 DEF NewBuffer, MapInternal, Unmap, objects

\* The inductive invariant holds in every reachable state.
LEMMA Invariance == Spec => []IInv
  <1>1. IInv /\ [Next]_vars => IInv'
    <2> SUFFICES ASSUME IInv, [Next]_vars PROVE IInv'
      OBVIOUS
    <2>1. CASE Initialize \/ InitializeFails \/ Shutdown
      BY <2>1, ContextStep
    <2>2. CASE \E p \in Programs :
                 \/ NewProgram(p) \/ BuildSucceeds(p) \/ BuildFails(p) \/ CreateProgramFails(p)
                 \/ FileNotOpened(p) \/ CreateKernel(p) \/ DestroyProgram(p)
      BY <2>2, NewProgramStep, BuildStep, FileStep, KernelStep, DestroyProgramStep
    <2>3. CASE \E b \in Buffers : NewBuffer(b) \/ DestroyBuffer(b) \/ MapInternal(b) \/ Unmap(b)
      BY <2>3, BufferStep
    <2>4. CASE UNCHANGED vars
      <3>1. UNCHANGED <<created, refs, overreleased, context, queue, initialized, prog, mem, exists>>
        BY <2>4 DEF vars, objects, ocl, buffers
      <3>2. HandlesInv'
        BY <3>1 DEF IInv, HandlesInv, ContextInv, ProgramInv, BufferInv
      <3>3. AloneInv'
        BY <3>1 DEF IInv, AloneInv
      <3>4. RefsInv' /\ NeverReleasedTwice'
        BY <3>1 DEF IInv, RefsInv, Owned, NeverReleasedTwice
      <3> QED BY <3>2, <3>3, <3>4 DEF IInv
    <2> QED BY <2>1, <2>2, <2>3, <2>4 DEF Next
  <1> QED BY <1>1, InitInv, PTL DEF Spec

\* The size of a set without two different elements.
LEMMA AtMostOne ==
    ASSUME NEW A, \A x, y \in A : x = y
    PROVE  Cardinality(A) = IF A = {} THEN 0 ELSE 1
  <1>1. CASE A = {}
    BY <1>1, FS_EmptySet
  <1>2. CASE A # {}
    <2>1. PICK x \in A : A = {x}
      BY <1>2
    <2> QED BY <1>2, <2>1, FS_Singleton
  <1> QED BY <1>1, <1>2

\* Each reference on an OpenCL object is that of exactly one field: nothing
\* leaks, and no handle is used without its reference (OpenCLContext.cpp,
\* OpenCLProgram.cpp, OpenCLBuffer.cpp).
THEOREM OwnershipTheorem == Spec => []OwnershipExact
  <1>1. IInv => OwnershipExact
    <2> SUFFICES ASSUME IInv, NEW o \in Objects PROVE refs[o] = Owners(o)
      BY DEF OwnershipExact
    <2> DEFINE inProgram == {p \in Programs : prog[p].program = o}
               inKernels == {p \in Programs : o \in prog[p].kernels}
               inBuffer == {b \in Buffers : mem[b] = o}
    <2>1. o # Null
      BY DEF Objects, Null
    <2>2. /\ context = o => context # queue
          /\ context = o \/ queue = o => inProgram = {} /\ inKernels = {} /\ inBuffer = {}
          /\ inProgram # {} => inKernels = {} /\ inBuffer = {}
          /\ inKernels # {} => inBuffer = {}
      BY <2>1 DEF IInv, AloneInv
    <2>3. /\ \A p, q \in inProgram : p = q
          /\ \A p, q \in inKernels : p = q
          /\ \A b, c \in inBuffer : b = c
      BY <2>1 DEF IInv, AloneInv
    <2>4. /\ Cardinality(inProgram) = IF inProgram = {} THEN 0 ELSE 1
          /\ Cardinality(inKernels) = IF inKernels = {} THEN 0 ELSE 1
          /\ Cardinality(inBuffer) = IF inBuffer = {} THEN 0 ELSE 1
      BY <2>3, AtMostOne
    <2>5. Owned(o) <=> \/ context = o \/ queue = o
                       \/ inProgram # {} \/ inKernels # {} \/ inBuffer # {}
      BY DEF Owned
    <2>6. refs[o] = IF Owned(o) THEN 1 ELSE 0
      BY DEF IInv, RefsInv
    <2>7. Owners(o) = (IF context = o THEN 1 ELSE 0) + (IF queue = o THEN 1 ELSE 0)
                      + Cardinality(inProgram) + Cardinality(inKernels) + Cardinality(inBuffer)
      BY DEF Owners
    <2> HIDE DEF inProgram, inKernels, inBuffer
    <2> QED BY <2>2, <2>4, <2>5, <2>6, <2>7
  <1> QED BY <1>1, Invariance, PTL

\* With its kernels left to the program object, no clRelease is given a handle
\* that was released before.
THEOREM ReleaseTheorem == Spec => []NeverReleasedTwice
  <1>1. IInv => NeverReleasedTwice
    BY DEF IInv
  <1> QED BY <1>1, Invariance, PTL
=============================================================================

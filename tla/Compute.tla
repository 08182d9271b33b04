------------------------------ MODULE Compute ------------------------------
(***************************************************************************)
(* OpenCLContext, OpenCLProgram and OpenCLBuffer: who holds which OpenCL   *)
(* object and who releases it.  An OpenCL object has a reference count and *)
(* keeps its parent alive: a kernel its program, a program, queue or       *)
(* buffer its context.  The objects of the library are driven by one       *)
(* thread, in any order: nothing in the headers asks for one.              *)
(***************************************************************************)
EXTENDS Integers, FiniteSets

CONSTANTS
    Programs,        \* OpenCLProgram objects
    Buffers,         \* OpenCLBuffer objects
    MaxObjects       \* bound: OpenCL objects ever created

ASSUME ComputeAssumption ==
    /\ IsFiniteSet(Programs) /\ IsFiniteSet(Buffers)
    /\ MaxObjects \in Nat

VARIABLES
    created,   \* OpenCL objects are numbered as they are created
    refs,      \* references the application holds on each
    parent,    \* the object each keeps alive
    overreleased, \* a handle was released that nobody owned any more
    staleContext, \* a context that is gone was given to OpenCL
    context, queue, initialized,   \* OpenCLContext
    prog,      \* OpenCLProgram objects
    mem,       \* OpenCLBuffer: its m_mem, Null if the creation failed
    exists,    \* the OpenCLBuffer objects that exist
    mapped     \* buffers the caller has a pointer into

objects == <<created, refs, parent, overreleased, staleContext>>
ocl == <<context, queue, initialized>>
buffers == <<mem, exists, mapped>>
vars == <<objects, ocl, prog, buffers>>

Null == 0
Objects == 1..MaxObjects

\* An OpenCLProgram that does not exist.
Gone == [alive |-> FALSE, context |-> Null, program |-> Null, kernels |-> {}, lastBuild |-> "none"]

Init ==
    /\ created = 0 /\ refs = [o \in Objects |-> 0] /\ parent = [o \in Objects |-> Null]
    /\ overreleased = FALSE /\ staleContext = FALSE
    /\ context = Null /\ queue = Null /\ initialized = FALSE
    /\ prog = [p \in Programs |-> Gone]
    /\ mem = [b \in Buffers |-> Null] /\ exists = {} /\ mapped = {}

\* What OpenCL keeps: the objects with references, and what those keep alive.
Parents(S) == {parent[o] : o \in S} \ {Null}
Held == {o \in Objects : refs[o] > 0}
Live == Held \cup Parents(Held) \cup Parents(Parents(Held))

\* The clRelease calls on the handles S, and then up to two creations: `new`
\* are the references kept on each, `of` are the objects they keep alive.
Update(S, new, of) ==
    LET n == Cardinality(DOMAIN new)
    IN  /\ created + n <= MaxObjects
        /\ created' = created + n
        /\ refs' = [o \in Objects |->
                      IF o - created \in DOMAIN new THEN new[o - created]
                      ELSE IF o \in S /\ refs[o] > 0 THEN refs[o] - 1 ELSE refs[o]]
        /\ parent' = [o \in Objects |-> IF o - created \in DOMAIN of THEN of[o - created] ELSE parent[o]]
        /\ overreleased' = (overreleased \/ \E o \in S \ {Null} : refs[o] = 0)

Release(S) == Update(S, <<>>, <<>>) /\ UNCHANGED staleContext

\* The next object, with one reference, a child of o.
Create(o) == Update({}, <<1>>, <<o>>) /\ UNCHANGED staleContext

----------------------------------------------------------------------------
\* OpenCLContext.  The early returns (already initialized, no device, no
\* context) change nothing.
Initialize ==
    /\ ~initialized
    /\ Update({}, <<1, 1>>, <<Null, created + 1>>) /\ UNCHANGED staleContext
    /\ context' = created + 1 /\ queue' = created + 2 /\ initialized' = TRUE
    /\ UNCHANGED <<prog, buffers>>

\* Mutant: the context is not released when there is no queue for it.
InitializeFailsLeaks ==
    /\ ~initialized
    /\ Create(Null)
    /\ UNCHANGED <<ocl, prog, buffers>>

\* The queue cannot be created: the context is released again.
InitializeFails ==
    /\ ~initialized
    /\ Update({}, <<0>>, <<Null>>)
    /\ UNCHANGED <<staleContext, ocl, prog, buffers>>

\* Shutdown, also the destructor.
Shutdown ==
    /\ initialized
    /\ Release({queue, context})
    /\ context' = Null /\ queue' = Null /\ initialized' = FALSE
    /\ UNCHANGED <<prog, buffers>>

----------------------------------------------------------------------------
NewProgram(p) ==
    /\ ~prog[p].alive /\ initialized
    /\ prog' = [prog EXCEPT ![p] = [Gone EXCEPT !.alive = TRUE, !.context = context]]
    /\ UNCHANGED <<objects, ocl, buffers>>

Rebuilt(p, handle, outcome) ==
    prog' = [prog EXCEPT ![p].program = handle, ![p].lastBuild = outcome]

\* BuildFromSource, and BuildFromFile of a file that can be opened.
BuildSucceeds(p) ==
    /\ prog[p].alive /\ prog[p].context \in Live
    /\ Update({prog[p].program}, <<1>>, <<prog[p].context>>) /\ UNCHANGED staleContext
    /\ Rebuilt(p, created + 1, "succeeded")
    /\ UNCHANGED <<ocl, buffers>>

\* The source does not compile: the new program is released as well.
BuildFails(p) ==
    /\ prog[p].alive /\ prog[p].context \in Live
    /\ Update({prog[p].program}, <<0>>, <<prog[p].context>>)
    /\ Rebuilt(p, Null, "failed")
    /\ UNCHANGED <<staleContext, ocl, buffers>>

\* clCreateProgramWithSource fails; it is bound to when the context, which
\* the object does not retain, is gone.
CreateProgramFails(p) ==
    /\ prog[p].alive
    /\ Update({prog[p].program}, <<>>, <<>>)
    /\ staleContext' = (staleContext \/ prog[p].context \notin Live)
    /\ Rebuilt(p, Null, "failed")
    /\ UNCHANGED <<ocl, buffers>>

\* BuildFromFile of a file that cannot be opened returns before anything is
\* released: the program of the build before stays.
FileNotOpened(p) ==
    /\ prog[p].alive
    /\ Rebuilt(p, prog[p].program, "failed")
    /\ UNCHANGED <<objects, ocl, buffers>>

\* A kernel is given to the caller and remembered.
CreateKernel(p) ==
    /\ prog[p].program # Null
    /\ Create(prog[p].program)
    /\ prog' = [prog EXCEPT ![p].kernels = @ \cup {created + 1}]
    /\ UNCHANGED <<ocl, buffers>>

\* The caller's clReleaseKernel, which OpenCLProgram.h leaves it free to do.
CallerReleasesKernel(p) ==
    /\ \E k \in prog[p].kernels : refs[k] > 0 /\ Release({k})
    /\ UNCHANGED <<ocl, prog, buffers>>

\* Mutant: the kernels are forgotten.
DestroyProgramOnly(p) ==
    /\ prog[p].alive
    /\ Release({prog[p].program})
    /\ prog' = [prog EXCEPT ![p] = Gone]
    /\ UNCHANGED <<ocl, buffers>>

\* ~OpenCLProgram.
DestroyProgram(p) ==
    /\ prog[p].alive
    /\ Release(prog[p].kernels \cup {prog[p].program})
    /\ prog' = [prog EXCEPT ![p] = Gone]
    /\ UNCHANGED <<ocl, buffers>>

----------------------------------------------------------------------------
\* OpenCLBuffer: the constructor makes an object in either case.
NewBuffer(b) ==
    /\ b \notin exists /\ initialized
    /\ exists' = exists \cup {b}
    /\ \/ Create(context) /\ mem' = [mem EXCEPT ![b] = created + 1]
       \/ UNCHANGED <<objects, mem>>
    /\ UNCHANGED <<ocl, prog, mapped>>

DestroyBuffer(b) ==
    /\ b \in exists
    /\ Release({mem[b]})
    /\ mem' = [mem EXCEPT ![b] = Null] /\ exists' = exists \ {b} /\ mapped' = mapped \ {b}
    /\ UNCHANGED <<ocl, prog>>

\* The queue the caller gives is the context object's: OpenCL refuses one of
\* another context, or none.
QueueServes(b) == mem[b] # Null /\ queue # Null /\ parent[queue] = parent[mem[b]]

MapInternal(b) ==
    /\ b \notin mapped /\ QueueServes(b)
    /\ mapped' = mapped \cup {b}
    /\ UNCHANGED <<objects, ocl, prog, mem, exists>>

Unmap(b) ==
    /\ b \in mapped /\ QueueServes(b)
    /\ mapped' = mapped \ {b}
    /\ UNCHANGED <<objects, ocl, prog, mem, exists>>

Next ==
    \/ Initialize \/ InitializeFails \/ Shutdown
    \/ \E p \in Programs :
         \/ NewProgram(p) \/ BuildSucceeds(p) \/ BuildFails(p) \/ CreateProgramFails(p)
         \/ FileNotOpened(p) \/ CreateKernel(p) \/ DestroyProgram(p)
    \/ \E b \in Buffers : NewBuffer(b) \/ DestroyBuffer(b) \/ MapInternal(b) \/ Unmap(b)

Spec == Init /\ [][Next]_vars

\* A caller who releases some of its kernels itself.
SpecWithOwner == Init /\ [][Next \/ \E p \in Programs : CallerReleasesKernel(p)]_vars

----------------------------------------------------------------------------
\* Types; the context object has both handles or neither; a buffer is mapped
\* only while it exists.
TypeOK ==
    /\ created \in 0..MaxObjects
    /\ refs \in [Objects -> 0..1] /\ parent \in [Objects -> 0..created]
    /\ overreleased \in BOOLEAN /\ staleContext \in BOOLEAN
    /\ context \in 0..created /\ queue \in 0..created
    /\ initialized = (context # Null) /\ initialized = (queue # Null)
    /\ \A p \in Programs :
         /\ prog[p].context \in 0..created /\ prog[p].program \in 0..created
         /\ prog[p].kernels \subseteq 1..created
         /\ ~prog[p].alive => prog[p] = Gone
    /\ mem \in [Buffers -> 0..created]
    /\ mapped \subseteq exists /\ exists \subseteq Buffers

Owners(o) ==
    LET one(held) == IF held THEN 1 ELSE 0
    IN  one(context = o) + one(queue = o)
        + Cardinality({p \in Programs : prog[p].program = o})
        + Cardinality({p \in Programs : o \in prog[p].kernels})
        + Cardinality({b \in Buffers : mem[b] = o})

\* Every reference on an OpenCL object belongs to exactly one field of one
\* object of the library, through failed initializations and builds,
\* rebuilds, Shutdown and destruction in any order: nothing leaks, and no
\* handle in use is without its reference.
OwnershipExact == \A o \in Objects : refs[o] = Owners(o)

\* No destructor, rebuild or Shutdown releases what was released before.
\* "The caller owns the returned kernel and is responsible for
\* clReleaseKernel(), OR may leave it to this object".
NeverReleasedTwice == ~overreleased

\* IsBuilt, and with it every kernel handed out, speaks of the last build.
BuiltIsLastBuild ==
    \A p \in Programs : (prog[p].program # Null) = (prog[p].lastBuild = "succeeded")

\* No object gives OpenCL a context that is gone.
ContextStillThere == ~staleContext
=============================================================================

--------------------------- MODULE EngineResources ---------------------------
(***************************************************************************)
(* What the opening of an engine acquires and who releases it: the         *)
(* libraries, the context, the three device buffers, the compiler's        *)
(* program and the kernel modules (src/gpu/cuda.rs and src/gpu/hip.rs),    *)
(* and the choice between the two backends (src/gpu/mod.rs).  Any call may *)
(* fail; what was acquired is then dropped, last first.  An engine that    *)
(* was built drops its fields first to last: the CUDA context goes before  *)
(* the buffers and the module that live in it.                             *)
(*                                                                         *)
(* Every owner holds a clone of the Arc of the libraries, which are closed *)
(* with the last one; every variant holds a clone of the Rc of its module. *)
(* Clones are counted by who holds them.  Which variant is faster is left  *)
(* open (see Tuning), so that any finalist may be the one that falls off,  *)
(* and whether a cached variant exists too (see TuningCache).              *)
(***************************************************************************)
EXTENDS Integers, FiniteSets

CONSTANTS
    Builds,          \* number of combinations of compile options
    WorkSizes,       \* number of global work sizes
    FINALIST_COUNT   \* 2 in the code

ASSUME CountsAssumption ==
    Builds \in Nat \ {0} /\ WorkSizes \in Nat \ {0} /\ FINALIST_COUNT \in Nat \ {0}

VARIABLES
    asked,      \* PGP_VANITY_GPU_BACKEND: "none", "hip", "cuda" or "bad"
    backend,    \* the backend being opened
    pc,         \* where the opening is
    gpu,        \* what is held of the driver, see Gpu
    purpose,    \* why a module is built: "cached" or "tuning"
    build,      \* the module being built; tuning goes through 1..Builds
    size,       \* the work size of the tuning loop
    finalists,  \* the variants that are the finalists
    best        \* {} or the best of the finalists or the chosen variant

tuning == <<build, size, finalists, best>>
resource_vars == <<asked, backend, pc, gpu, purpose, tuning>>

Buffers == {"base_words", "best_timestamp", "prefixes"}

\* Module 0 is one that is not part of the tuning loop.
Modules == 0..Builds
\* A variant is a module with a work size.
Variants == Modules \X (1..WorkSizes)

\* Whoever is in api, modules or variants holds a clone of the Arc.
Gpu == [api : SUBSET ({"engine", "context", "program"} \cup Buffers),
        modules : SUBSET Modules,
        variants : SUBSET Variants,
        context : {"none", "live", "destroyed"},
        memory : SUBSET Buffers,              \* buffers allocated on the device
        loaded : SUBSET Modules,              \* modules on the device
        rc : [Modules -> SUBSET (0..WorkSizes)],
                                              \* who holds a clone of a module's Rc:
                                              \* 0, the value built, or the variants
        misuse : BOOLEAN]                     \* history: a call that must not be

NothingHeld ==
    [api |-> {}, modules |-> {}, variants |-> {}, context |-> "none", memory |-> {},
     loaded |-> {}, rc |-> [m \in Modules |-> {}], misuse |-> FALSE]

ResourcesInit ==
    /\ asked \in {"none", "hip", "cuda", "bad"}
    /\ backend = "hip" /\ pc = "choose"
    /\ gpu = NothingHeld
    /\ purpose = "cached" /\ build = 0 /\ size = 1
    /\ finalists = {} /\ best = {}

-----------------------------------------------------------------------------
\* What acquiring and dropping do to g, one operator per constructor and Drop.

\* The libraries are closed with the last clone of their Arc.
Open(g) == g.api # {} \/ g.modules # {} \/ g.variants # {}
Call(g) == [g EXCEPT !.misuse = @ \/ ~ Open(g)]

CloneApi(g, owner) == [g EXCEPT !.api = @ \cup {owner}]
DropApi(g, owner) == [g EXCEPT !.api = @ \ {owner}]

\* CudaContext; destroying it takes what lives in it along.
CreateContext(g) == CloneApi([Call(g) EXCEPT !.context = "live"], "context")
DropContext(g) ==
    IF "context" \notin g.api THEN g
    ELSE DropApi([Call(g) EXCEPT !.context = "destroyed", !.memory = {}, !.loaded = {}],
                 "context")

\* DeviceBuffer.  Freeing what went with its context is refused, and ignored.
Allocate(g, b) == CloneApi([Call(g) EXCEPT !.memory = @ \cup {b}], b)
DropBuffer(g, b) ==
    IF b \notin g.api THEN g
    ELSE DropApi([Call(g) EXCEPT !.misuse = @ \/ (b \notin g.memory /\ g.context # "destroyed"),
                                 !.memory = @ \ {b}], b)

\* NvrtcProgramHandle, HiprtcProgramHandle.
CreateProgram(g) == CloneApi(Call(g), "program")
DropProgram(g) == DropApi(Call(g), "program")

\* cuModuleLoadData and cuModuleUnload.
LoadModule(g, m) == [Call(g) EXCEPT !.loaded = @ \cup {m}]
UnloadModule(g, m) ==
    [Call(g) EXCEPT !.misuse = @ \/ (m \notin g.loaded /\ g.context # "destroyed"),
                    !.loaded = @ \ {m}]

\* The Rc of a GpuKernelModule; the module goes with the last clone.
NewModule(g, m) == [g EXCEPT !.modules = @ \cup {m}, !.rc[m] = {0}]
DropModule(g, m, holder) ==
    IF g.rc[m] = {holder}
    THEN [UnloadModule(g, m) EXCEPT !.rc[m] = {}, !.modules = @ \ {m}]
    ELSE [g EXCEPT !.rc[m] = @ \ {holder}]

\* A kernel of a module runs on the three buffers.
Launch(g, m) == [Call(g) EXCEPT !.misuse = @ \/ m \notin g.loaded \/ g.memory # Buffers]

\* Bug: a variant copies the kernels' handles but not the Rc.
CloneNothing(g, v) == [g EXCEPT !.variants = @ \cup {v}]
\* GpuKernelVariant::from_compiled.
NewVariant(g, v) == [g EXCEPT !.variants = @ \cup {v}, !.rc[v[1]] = @ \cup {v[2]}]
DropVariant(g, v) == DropModule([g EXCEPT !.variants = @ \ {v}], v[1], v[2])
DropBest(g) == IF best = {} THEN g ELSE DropVariant(g, CHOOSE v \in best : TRUE)

\* The locals of new, last first.
DropLocals(g) ==
    LET buffers == DropBuffer(DropBuffer(DropBuffer(g, "prefixes"), "best_timestamp"), "base_words")
    IN  DropApi(DropContext(buffers), "engine")

-----------------------------------------------------------------------------

\* An error of new: its locals are dropped.
Fail(g) == pc' = "failed" /\ gpu' = DropLocals(g)

\* GpuSearchEngine::new: the backend asked for, or HIP first.
Choose ==
    /\ pc = "choose"
    /\ IF asked = "bad" THEN pc' = "end" ELSE pc' = "load"
    /\ backend' = IF asked = "cuda" THEN "cuda" ELSE "hip"
    /\ UNCHANGED <<asked, gpu, purpose, tuning>>

\* CudaApi::load, HipApi::load: on an error the libraries are closed at once.
LoadApi ==
    /\ pc = "load"
    /\ \/ pc' = "device" /\ gpu' = CloneApi(gpu, "engine")
       \/ pc' = "failed" /\ UNCHANGED gpu
    /\ UNCHANGED <<asked, backend, purpose, tuning>>

\* cuInit and select_gpu_device.
SelectDevice ==
    /\ pc = "device"
    /\ \/ pc' = (IF backend = "cuda" THEN "context" ELSE "buffers") /\ gpu' = Call(gpu)
       \/ Fail(Call(gpu))
    /\ UNCHANGED <<asked, backend, purpose, tuning>>

OpenContext ==
    /\ pc = "context"
    /\ \/ pc' = "buffers" /\ gpu' = CreateContext(gpu)
       \/ Fail(Call(gpu))
    /\ UNCHANGED <<asked, backend, purpose, tuning>>

\* The three DeviceBuffer::new, in this order.
AllocateNext ==
    /\ pc = "buffers" /\ ~ (Buffers \subseteq gpu.api)
    /\ LET next == IF "base_words" \notin gpu.api THEN "base_words"
                   ELSE IF "best_timestamp" \notin gpu.api THEN "best_timestamp"
                   ELSE "prefixes"
       IN  \/ gpu' = Allocate(gpu, next) /\ UNCHANGED pc
           \/ Fail(Call(gpu))
    /\ UNCHANGED <<asked, backend, purpose, tuning>>

\* Tuning starts with its own uploads, which may fail.
StartTuning ==
    /\ \/ pc' = "program" /\ gpu' = Call(gpu)
       \/ Fail(Call(gpu))
    /\ purpose' = "tuning" /\ build' = 1

LoadCached ==
    /\ pc = "buffers" /\ Buffers \subseteq gpu.api
    /\ \/ pc' = "program" /\ purpose' = "cached" /\ build' = 0 /\ UNCHANGED gpu
       \/ StartTuning
    /\ UNCHANGED <<asked, backend, size, finalists, best>>

-----------------------------------------------------------------------------

\* GpuKernelModule::build failed: the cached variant is given up for a tuning,
\* the tuning goes on with the next build.
BuildFailed(g) ==
    /\ pc' = IF purpose = "cached" THEN "tune" ELSE "next"
    /\ gpu' = g

Retune ==
    /\ pc = "tune"
    /\ StartTuning
    /\ UNCHANGED <<asked, backend, size, finalists, best>>

\* build_ptx, build_code_object: the program is dropped either way.
Compile ==
    /\ pc = "program"
    /\ \/ BuildFailed(Call(gpu))
       \/ BuildFailed(DropProgram(CreateProgram(gpu)))
       \/ pc' = "module" /\ gpu' = CreateProgram(gpu)
    /\ UNCHANGED <<asked, backend, purpose, tuning>>

LoadOnDevice ==
    /\ pc = "module"
    /\ LET g == DropProgram(gpu)
       IN  \/ BuildFailed(Call(g))
           \/ pc' = "functions" /\ gpu' = LoadModule(g, build)
    /\ UNCHANGED <<asked, backend, purpose, tuning>>

\* Bug: the error is returned at once, with no value yet to drop the module.
LeaveLoaded(g) == g
UnloadAfterError(g) == UnloadModule(g, build)

\* The two entry points; then the module is owned.
Functions ==
    /\ pc = "functions"
    /\ \/ BuildFailed(UnloadAfterError(Call(gpu)))
       \/ /\ gpu' = NewModule(Call(gpu), build)
          /\ pc' = IF purpose = "tuning" THEN "measure" ELSE "keep"
    /\ size' = 1
    /\ UNCHANGED <<asked, backend, purpose, build, finalists, best>>

\* GpuKernelVariant::build of the cached variant.
Keep ==
    /\ pc = "keep"
    /\ gpu' = DropModule(NewVariant(gpu, <<build, size>>), build, 0)
    /\ best' = {<<build, size>>} /\ pc' = "run"
    /\ UNCHANGED <<asked, backend, purpose, build, size, finalists>>

\* Bug: one finalist too many is kept.
OneTooMany(all) == Cardinality(all) > FINALIST_COUNT + 1
Overfull(all) == Cardinality(all) > FINALIST_COUNT

\* A variant of the build is benchmarked; it is dropped after an error, or it
\* enters the finalists and the one that falls off the end is dropped.
Measure ==
    /\ pc = "measure"
    /\ LET v == <<build, size>>
           g == Launch(NewVariant(gpu, v), build)
           all == finalists \cup {v}
       IN  \/ gpu' = DropVariant(g, v) /\ UNCHANGED finalists
           \/ ~ Overfull(all) /\ gpu' = g /\ finalists' = all
           \/ /\ Overfull(all)
              /\ \E last \in all : gpu' = DropVariant(g, last) /\ finalists' = all \ {last}
    /\ IF size < WorkSizes THEN size' = size + 1 /\ UNCHANGED pc
                           ELSE pc' = "built" /\ UNCHANGED size
    /\ UNCHANGED <<asked, backend, purpose, build, best>>

\* Bug: the builds are kept for later.
KeepBuild(g) == g
DropBuild(g) == DropModule(g, build, 0)

\* The end of the loop's body: compiled is dropped.
Built ==
    /\ pc = "built"
    /\ gpu' = DropBuild(gpu) /\ pc' = "next"
    /\ UNCHANGED <<asked, backend, purpose, tuning>>

NextBuild ==
    /\ pc = "next"
    /\ IF build < Builds THEN build' = build + 1 /\ pc' = "program"
                         ELSE pc' = "sustain" /\ UNCHANGED build
    /\ UNCHANGED <<asked, backend, gpu, purpose, size, finalists, best>>

\* The sustained benchmark of the next finalist fails, or it or the best one so
\* far is dropped.
Sustain ==
    /\ pc = "sustain"
    /\ \E v \in finalists :
          LET g == Launch(gpu, v[1])
          IN  \/ pc' = "unwind" /\ gpu' = g /\ UNCHANGED <<finalists, best>>
              \/ /\ best' = {v} /\ gpu' = DropBest(g)
                 /\ finalists' = finalists \ {v} /\ UNCHANGED pc
              \/ /\ best # {} /\ gpu' = DropVariant(g, v)
                 /\ finalists' = finalists \ {v} /\ UNCHANGED <<pc, best>>
    /\ UNCHANGED <<asked, backend, purpose, build, size>>

\* The error of a sustained benchmark drops the finalists left and the best one,
\* then the locals of new.
Unwind ==
    /\ pc = "unwind"
    /\ \/ /\ \E v \in finalists : gpu' = DropVariant(gpu, v) /\ finalists' = finalists \ {v}
          /\ UNCHANGED <<pc, best>>
       \/ /\ best # {} /\ gpu' = DropBest(gpu) /\ best' = {}
          /\ UNCHANGED <<pc, finalists>>
       \/ finalists \cup best = {} /\ Fail(gpu) /\ UNCHANGED <<finalists, best>>
    /\ UNCHANGED <<asked, backend, purpose, build, size>>

\* tune_variant returns the best one or the last error; it has one (Tuning).
Conclude ==
    /\ pc = "sustain" /\ finalists = {}
    /\ IF best # {} THEN pc' = "run" /\ UNCHANGED gpu ELSE Fail(gpu)
    /\ UNCHANGED <<asked, backend, purpose, tuning>>

-----------------------------------------------------------------------------

\* prepare_search, prepare_prefixes and search_batch on the built engine.
LaunchBest ==
    /\ pc = "run"
    /\ \E v \in best : gpu' = Launch(gpu, v[1])
    /\ UNCHANGED <<asked, backend, pc, purpose, tuning>>

\* Bug: search returns and its engine stays.
KeepEngine == pc = "run" /\ UNCHANGED resource_vars
\* The engine is dropped: its fields in the order of their declaration.
DropEngine ==
    /\ pc = "run"
    /\ LET g == DropContext(DropApi(gpu, "engine"))
           buffers == DropBuffer(DropBuffer(DropBuffer(g, "base_words"), "best_timestamp"), "prefixes")
       IN  gpu' = DropBest(buffers)
    /\ best' = {} /\ pc' = "end"
    /\ UNCHANGED <<asked, backend, purpose, build, size, finalists>>

\* GpuSearchEngine::new: without an override CUDA is tried when HIP failed.
NextBackend ==
    /\ pc = "failed"
    /\ IF asked = "none" /\ backend = "hip"
       THEN backend' = "cuda" /\ pc' = "load"
       ELSE pc' = "end" /\ UNCHANGED backend
    /\ UNCHANGED <<asked, gpu, purpose, tuning>>

\* GpuSearchEngine::new.
Opening ==
    \/ Choose \/ LoadApi \/ SelectDevice \/ OpenContext \/ AllocateNext \/ LoadCached
    \/ Retune \/ Compile \/ LoadOnDevice \/ Functions \/ Keep
    \/ Measure \/ Built \/ NextBuild \/ Sustain \/ Unwind \/ Conclude \/ NextBackend

ResourcesNext == Opening \/ LaunchBest \/ DropEngine

ResourcesSpec == ResourcesInit /\ [][ResourcesNext]_resource_vars

-----------------------------------------------------------------------------

Locations ==
    {"choose", "load", "device", "context", "buffers", "tune", "program", "module",
     "functions", "keep", "measure", "built", "next", "sustain", "unwind", "run",
     "failed", "end"}

ResourcesTypeOK ==
    /\ asked \in {"none", "hip", "cuda", "bad"} /\ backend \in {"hip", "cuda"}
    /\ pc \in Locations
    /\ gpu \in Gpu
    /\ purpose \in {"cached", "tuning"}
    /\ build \in Modules /\ size \in 1..WorkSizes
    /\ finalists \subseteq Variants /\ best \subseteq Variants
    /\ Cardinality(finalists) <= FINALIST_COUNT

\* No call goes into a library that may be closed, no buffer or module is
\* released twice, and no kernel runs whose module is unloaded or whose
\* buffers are freed: the kernels' handles are plain copies, kept valid only by
\* the Rc a variant holds, and the library's functions only by the Arc of every
\* owner, in each of the orders in which the owners are dropped.
NoMisuse == ~ gpu.misuse

\* When an engine could not be opened, whichever call failed, and after it was
\* dropped, nothing is held any more: before CUDA is tried all of HIP is gone.
NothingLeaks ==
    pc \in {"failed", "end"} =>
        /\ ~ Open(gpu) /\ gpu.context # "live"
        /\ gpu.memory = {} /\ gpu.loaded = {}
        /\ \A m \in Modules : gpu.rc[m] = {}

\* Of all the builds the tuning goes through, only those of the finalists and
\* the one being measured are on the device, and a built engine keeps only its
\* own module.
ModulesBounded ==
    /\ Cardinality(gpu.loaded) <= FINALIST_COUNT + 1
    /\ pc = "run" => \E v \in best : gpu.loaded = {v[1]}
=============================================================================

------------------------------- MODULE Program -------------------------------
(***************************************************************************)
(* The program as a whole: run of src/main.rs, which calls search          *)
(* (src/search.rs); search opens an engine (src/gpu/mod.rs), which for     *)
(* CUDA looks for NVRTC, and owns it until it returns.  Cli,               *)
(* EngineResources and NvrtcSearch take their steps in turn, for there is  *)
(* one thread; the user may interrupt it.                                  *)
(***************************************************************************)
EXTENDS Cli, EngineResources, NvrtcSearch

vars == <<cli_vars, resource_vars, nvrtc_vars>>

Init == CliInit /\ ResourcesInit /\ Idle

\* Statements of run and search that do not concern the engine.
RunStep ==
    /\ \/ Parse \/ ShowProgress \/ Build \/ Encrypt \/ PrintOutput \/ Interrupt
    /\ UNCHANGED <<resource_vars, nvrtc_vars>>

\* CudaApi::load is past the driver and looks for NVRTC.
FindNvrtc ==
    /\ statement = "open" /\ pc = "load" /\ backend = "cuda"
    /\ NvrtcNext
    /\ UNCHANGED <<cli_vars, resource_vars>>

\* load_nvrtc has returned and its locals are gone, or the driver was missing;
\* then the libraries lack a function, or are complete.
LoadCuda ==
    /\ statement = "open" /\ pc = "load" /\ backend = "cuda"
    /\ outcome # "searching"
    /\ LoadApi /\ (pc' = "device" => outcome = "loaded")
    /\ Forget
    /\ UNCHANGED cli_vars

\* The other steps of GpuSearchEngine::new.
OpeningStep ==
    /\ statement = "open" /\ ~ (pc = "load" /\ backend = "cuda")
    /\ Opening
    /\ UNCHANGED <<cli_vars, nvrtc_vars>>

\* GpuSearchEngine::new returns an engine or an error.
OpeningEnds ==
    /\ \/ pc = "run" /\ EngineOpened
       \/ pc = "end" /\ NoEngine
    /\ UNCHANGED <<resource_vars, nvrtc_vars>>

\* search prepares the prefixes and keys and searches batches.
SearchStep ==
    /\ statement = "search" /\ LaunchBest
    /\ UNCHANGED <<cli_vars, nvrtc_vars>>

\* search returns, and its engine goes.
SearchEnds ==
    /\ Found \/ NotFound \/ SearchFails
    /\ DropEngine
    /\ UNCHANGED nvrtc_vars

Next ==
    \/ RunStep \/ FindNvrtc \/ LoadCuda \/ OpeningStep \/ OpeningEnds
    \/ SearchStep \/ SearchEnds

Spec == Init /\ [][Next]_vars

-----------------------------------------------------------------------------

\* Every variable holds a value of its kind.
TypeOK == CliTypeOK /\ ResourcesTypeOK

\* Unless it is interrupted, the program holds nothing of the GPU, and has left
\* the search for its libraries, while it builds, encrypts and prints the key and
\* when it ends: on no path, neither that of an error nor that of a backend that
\* could not be opened, does an engine outlive the search.
GpuGoneFirst ==
    statement \in {"build", "encrypt", "print"} \/ exit \in {"ok", "error", "panic"} =>
        /\ ~ Open(gpu) /\ gpu.loaded = {} /\ gpu.memory = {} /\ gpu.context # "live"
        /\ outcome = "idle"
=============================================================================

# Verification of pgp-vanity

`pgp-vanity` searches for an OpenPGP v4 Ed25519 key whose 64-bit key ID contains
a wanted hexadecimal prefix, or one with at most a few wrong digits. The key ID
depends on the key's 32-bit creation time, so the program draws a seed, derives a
key and lets a GPU hash every creation time from 0 to now; when none fits it goes
on to the next seed. This directory is the formal model of that program: TLA+
modules, the TLC configurations that check them on small instances, and TLAPS
proofs about every instance. Paths below are relative to the repository.

## 1. Inventory

| Component | Source | State it keeps | Operations | Module |
|---|---|---|---|---|
| Engine and kernels | `src/gpu/cuda.rs`, `src/gpu/hip.rs`, `src/gpu_kernel.cu` | device buffers (base words, prefixes, the best-timestamp cell), prefix count, chosen variant; per lane: position, groups run, active or returned | `prepare_prefixes`, `prepare_search`, `search_batch`, `launch_kernel`, the two kernels | `BatchSearch`, `SearchBatch` |
| Host search loop | `src/search.rs` | key attempts, timestamps checked, horizon, current key, next batch | `search`, `timestamp_count_through` | `VanitySearch`, `HostSearch` |
| Command line program | `src/main.rs`, `src/output.rs`, the progress line of `src/search.rs` | arguments, the two output streams, the terminal's last line, exit status | `run`, `render_progress_line`, `clear_progress_line`, `build_armored_secret_key_block`, `encrypt_for_recipient`, `strip_armor_headers` | `Cli`, `Program` |
| Engine selection and tuning | `src/gpu/mod.rs`, `new` and `tune_variant` of both engines | the loops' position, finalists and their speeds, last error, clock of the sustained benchmark | `tune_variant`, `push_finalist`, `benchmark_variant`, `benchmark_variant_sustained` | `Tuning` |
| Tuning cache | `tuning_cache_path`, `load_cached_variant`, `store_cached_variant` of both engines | one file per backend, shared by all processes of a user | open, load, build, tune, store | `TuningCache` |
| GPU resources | `src/gpu/mod.rs`, constructors and `Drop` of both engines | loaded libraries (`Arc`), context, three buffers, compiler program, modules (`Rc`) | `GpuSearchEngine::new`, every constructor, every `Drop` | `EngineResources`, `Program` |
| NVRTC discovery | `load_nvrtc` and its helpers in `src/gpu/cuda.rs` | candidates, refused files, `LD_LIBRARY_PATH` | `load_nvrtc` | `NvrtcSearch`, `Program` |
| SHA-1 arithmetic | `src/gpu_kernel.cu`, `sha1_state` and the kernel's copies in the tests of `src/fingerprint.rs` | five registers | the rounds of `RUN_CANDIDATE` | `Sha1Rounds`, `Candidate` |
| Prefixes | `src/fingerprint.rs`, the prefix loop of `src/gpu_kernel.cu` | values and masks, on the host and packed on the device | `HexPrefix::parse`, matching, `match_count`, `search_space_size`, `pack` | `HexPrefix`, `PrefixMatch`, `Candidate` |

How they interact. `run` parses prefixes and seed and calls `search`. `search`
opens one engine, uploads the prefixes once, reads the clock once, and then for
key after key uploads the base words of the key's packet and asks the engine
batch by batch for the earliest match. The engine resets one 32-bit cell on the
device, launches one of two kernels over all its lanes, waits, and reads the cell
back. `search` checks the answer on the CPU; `run` builds the key and prints it,
encrypted when asked to. There is one host thread and everything on it is
synchronous; the concurrency is in the lanes of the kernel.

What is hard here: thousands of lanes race on one cell, poll it without
synchronisation and leave early on what they saw; a warp's leader may be gone
when the others poll; a batch size is capped just below what its kernel covers; a
32-bit value doubles as "not found"; state on the device outlives the key it was
uploaded for; the clock may be anywhere; a failure may come after the user has
been told something; two dozen calls that acquire something may each fail, and
what was acquired is released in different orders; and the kernel's SHA-1 is
hand-optimized, with a table of rotations worked out by hand. `PROJECT.json` lists each hazard at its line.

What makes each component correct:

* *Engine and kernels.* `search_batch` answers the earliest match of its range
  under every interleaving of the lanes, and comes back when its calls do.
* *Host search loop.* A result is genuine whatever the GPU says; no creation time
  is skipped; the same seed gives the same key on any GPU; the counters are true;
  the search ends when it has to.
* *Program.* No secret in the clear with `--encrypt-to`; exit status and stdout
  agree; a line on the terminal holds nothing of an earlier one; the GPU is gone
  before the key is built.
* *Tuning.* The finalists are the fastest measured, the chosen one the best of
  them; an unmeasured variant is never handed out; tuning ends.
* *Cache.* Only a variant tuned on this device by this version is taken from it.
* *Resources.* Nothing is used after it was released, released twice or kept.
* *NVRTC discovery.* A usable build is found; the newest is preferred.
* *SHA-1 arithmetic.* The kernel computes the last two words of the fingerprint, on
  either backend and for every key and timestamp.
* *Prefixes.* GPU and CPU take the same key IDs for matches; wrong digits are
  counted as a reader of the prefix counts them; the number of expected scans is
  true; a prefix is shown as it was given.

## 2. Plan and state of the work

Modules, in the order in which they were built, and what composes what.

| Order | Module | What it is | State |
|---|---|---|---|
| 1 | `BatchSearch` | abstract: what one `search_batch` promises | done |
| 2 | `SearchBatch` | engine and kernels; implements `BatchSearch` | checked, proved (`SearchBatchProofs`) |
| 3 | `VanitySearch` | abstract: what `search` promises | done |
| 4 | `HostSearch` | the loop, over an engine that keeps `BatchSearch`'s promise or one that does not; implements `VanitySearch` | checked, proved (`HostSearchProofs`) |
| 5 | `Cli` | the program around the search, with the terminal | checked in `Program`, proved (`ProgramProofs`) |
| 6 | `Tuning` | one tuning pass | checked, proved (`TuningProofs`) |
| 7 | `TuningCache` | processes sharing the cache file | checked, proved (`TuningCacheProofs`) |
| 8 | `EngineResources` | ownership of libraries, context, buffers, modules | checked in `Program`, proved (`EngineProofs`) |
| 9 | `NvrtcSearch` | which NVRTC is loaded | checked alone and in `Program`, Linux names; proved (`ProgramProofs`) |
| 10 | `Program` | `Cli`, `EngineResources` and `NvrtcSearch` together; implements the first two | checked, proved (`ProgramProofs`) |
| 11 | `HexPrefix` | prefixes as operators: parsing, counting, packing | checked in `Candidate`, proved (`CandidateProofs`) |
| 12 | `PrefixMatch` | the kernel's prefix loop over what `HexPrefix` packed | checked in `Candidate`, proved (`CandidateProofs`) |
| 13 | `Sha1Rounds` | the kernel's rounds beside the reference's | checked in `Candidate`, proved (`CandidateProofs`) |
| 14 | `Candidate` | `Sha1Rounds`, then `PrefixMatch`: all of `RUN_CANDIDATE` | checked, proved (`CandidateProofs`) |
| 15 | `Induction` | induction and recursion over the natural numbers, as lemmas to cite | proved |

What could still be added: the layout of the block that is hashed
(`FingerprintSearch::new`) and of the key packet, and NVRTC's names on Windows.
Every safety property and every refinement that a run checks is also proved; the
three liveness properties are left to TLC (end of section 5).

## 3. Modules and code

`src/src/` is the crate. `PROJECT.json` maps every definition to its lines; this
section gives the correspondence in words.

### BatchSearch, SearchBatch

`SearchBatch` is one engine. `pc` is the host's place in `search_batch`; the
variables `start`, `count`, `answer`, `prefixes_ready` are its arguments, result
and the test for `prefix_count == 0`. `best` is the 32-bit cell on the device.
`lane`, `index`, `group` and `iteration` are the registers of each lane that steer
it: whether it is at a poll, scanning or gone, its `index`, the groups since the
last poll, the outer loop's counter of the full-batch kernel.

| Action | Code |
|---|---|
| `prepare_prefixes`, `prepare_search` | the two uploads; each may change which timestamps match |
| `search_batch` | the call, and its refusal without prefixes |
| `ResetBest`, `launch_kernel`, `Synchronize`, `ReadBest` | the copy of the not-found mark, the launch with its rounding and choice of kernel, the wait, the copy back |
| `ApiError` | any checked call fails |
| `Poll` | `load_best_timestamp` of a warp and the comparison after it |
| `Hit` | a candidate matches: `atomicMin` and return |
| `Miss` | a group of four candidates without a match, and the loop's condition |

Both kernels are there: `KernelFor` chooses, `Tried` and `AtEnd` differ. SHA-1 and
the comparison with the prefixes are the set `hits` of timestamps that match what
is on the device. A group of four is one step because it touches shared memory at
most once, and then the lane is gone. A poll is one step of all the warp's active
lanes because it is warp-synchronous; the comparison that follows is local to a
lane and is merged into it. What a poll reads once the lane that should read has
left is what the two platforms give: `0xFFFFFFFF` on HIP, and on CUDA any value,
one per lane, since `__shfl_sync` from an exited lane is undefined.

`BatchSearch` has the same call in one step: `Ask`, then `Answer` with a value that
satisfies `Promised`, or `Fail`.

### VanitySearch, HostSearch

`HostSearch` is `search`: `OpenEngine` (the engine and the prefixes), `ReadClock`
(`timestamp_count_through` of the clock), `NextKey` (the head of the loop: the
attempt is counted, the limit tested, a seed drawn, the base words uploaded),
`ScanBatch` (one batch, the two checks of the answer, the counting), `BatchFails`,
`KeyDone`, and `Tick`, the clock going on. `device_key` is the key whose words are
on the device, separate from `key`, the one the loop is at, so that an answer for
the wrong key would be seen. The engine is a set of possible answers,
`EngineAnswers`: with `EngineTrusted` those `BatchSearch` allows, otherwise every
`Option<u32>`. This is how the two specifications compose: `SearchBatch` is shown to
implement `BatchSearch`, and `HostSearch` uses only that.

`VanitySearch` knows keys, the creation times at which they match, and a horizon:
a key is accepted with its earliest time, or turned down because it has none.

### Cli

One action per statement of `run` that can fail or writes. Texts are what they
disclose: `"seed"`, `"redacted"`, `"plain"`, `"encrypted"`. The recipient's file may
be missing, useless or usable, and change at any time; the user may interrupt
anywhere; a write to stdout may break half way and `print!` then panics. A key
block is the kinds of its lines, with up to two armor headers, which
`strip_armor_headers` removes.

The terminal's last line is `columns`: for each column that has been written, the
number of the rendering whose character it shows, or 0 for a space.
`render_progress_line` writes a carriage return, its text and the padding,
`clear_progress_line` spaces, and everything else goes through `Say`, which ends the
line. The code measures its texts in bytes and the terminal in columns; they differ
by `ExtraBytes`, for a device whose name is not ASCII. `glued` is what was said on a
line that still showed progress: an error in the middle of a search, from the engine
or the randomness, is (`search` returns without clearing the line, and
`main` prints `Error:` behind it); nothing else may be.

### Tuning

`tune_variant`: `Upload`, `Build`, `Measure` (both benchmarks of a variant and
`push_finalist`), `AllTried`; then for each finalist `WarmUp`, `Repeat`, `Compare`;
`Conclude`. The nested loops over compile options are one loop in the same order.
A speed is what a benchmark measured and differs between two runs of a variant;
`measured` and `sustained` record what was measured, for the properties.
`total` keeps only whether any batch was counted: 0, or odd, or even.

### TuningCache

Each process does `Start`, `Load`, `BuildCached` or `Tune`, `StoreOpen`,
`StoreWrite`, and can `Exit` (or be killed) anywhere; `Delete` is the user removing
the file. `fs::write` is two steps, the truncation and the write, with other
processes in between; the write may be cut short by a full disk. What another
process wrote after the truncation is overlaid, so the end of a longer entry
survives on lines of its own. Numbers keep their digits because a number cut
short still parses.

### EngineResources

`gpu` is what is held of the driver. Clones are counted by who holds them: `api`,
`modules` and `variants` are the owners of a clone of the libraries' `Arc`, `rc[m]` the
owners of a clone of module `m`'s `Rc`, where 0 is the value just built and a number is
the variant with that work size. `context`, `memory` and `loaded` are what exists in the
driver; `Open` says whether the libraries are loaded. There is one operator per constructor and
per `Drop`; `misuse` is set by a call into libraries that are closed, a second
release, or a launch without its module or buffers. An error drops the locals, last
first; the error of a sustained benchmark first drops the finalists, in any order
(`Unwind`); a built engine drops its fields in the order they are declared. Freeing
what went with the CUDA context is refused by the driver and ignored by the code, so
it is no misuse.

### NvrtcSearch

`Collect` gathers the candidates, `Skip` and `Try` go through them, `GiveUp` ends the
search without one. `Idle` is before the call and, with `Forget`, after it: the
function keeps nothing. A file name is the digits after `libnvrtc.so.`; names are
compared as text, as in the code (`Less`), and what the sort of a directory's names
leaves is the sequence of them that is ordered by it (`NewestFirst`).

### Program

`run` calls `search`, `search` opens the engine, uses it and drops it, and opening the
CUDA engine calls `load_nvrtc`. There is one thread, so the three modules take turns:
`OpeningStep`, `FindNvrtc` and `LoadCuda` while `run` is at `"open"`, `SearchStep` between
the progress lines, and `SearchEnds`, in which the engine goes with the stack frame of
`search`, whatever the reason of its return. An interruption may come at any of these
steps and leaves everything to the operating system.

### Sha1Rounds

`KernelStep` is a round of the kernel, in place, with the names of the registers
cycling; `PortStep` and `EmulationStep` are the rounds of the two copies that the unit
tests run in place of the kernel. The reference, `sha1_state`, is the textbook loop of
`src/fingerprint.rs`. Everything is symbolic, so that agreement is for all values: a
message word is a set of (base word, rotation), whose XOR is the symmetric difference;
a register is the number of the round whose sum it holds, and how far it was rotated;
a sum is the record of its terms; a round function is its truth table. The two loops
of `sha1_state` are recursive functions: `Expand` adds one word (`NextWord`) in each turn,
`sha1_state[r]` are the registers before round `r`. Rounds 16 to 76
take their word from the hand-written table `KernelRotations` and the constants
`c_16s` to `c_76s` the code derives once per key (`Constants`), some with the round
constant added in advance (`c_K`). The two copies in the tests have tables of their own, which
are written out too: they agree with the kernel's only if all three are right.
`Recover` is the shortcut that leaves out rounds 77 to 79.

### HexPrefix, PrefixMatch

A word is the set of its one bits, a bit is its digit and its place in the digit, and
shifts, masks and halves are what they do to such sets; so the trick that collapses
a digit to its lowest bit (`Collapse`) is modelled bit by bit, with the bits that cross
from one digit to the next. `parse` is `HexPrefix::parse`, from trimming to the mask.
`match_count` and `set_search_space_size` are the estimates shown to the user. Where the
code computes in `f64`, the model rounds as it does: `f64(a, b)` is a / b with `SIGNIFICAND`
bits kept, to the nearest and to the even one of two, and it is taken of each count, after
each addition and of the reciprocal. Chances are given in units of one key ID of all, and the
reciprocal in parts of `ONE`; both units are powers of two, so that the numbers round as the
fractions of the code do. The loops are recursive functions whose argument counts the turns: `ValueOf` shifts in digit by digit, and in `match_count` the
functions `binom`, `pow15` and `count` are the loop's three variables.

`PrefixMatch` is the way of prefixes through the program: `Parse` (and packing for the
device), `NextCandidate` (any key ID), `ComparePrefix` for one prefix after the other,
`NoPrefixLeft`.

### Candidate

Both in a row, as in `RUN_CANDIDATE`: the rounds end with the two words of the key ID,
and the prefixes are compared with them. As the key is arbitrary so is the key ID.

## 4. Runs

| Run | Bounds | Shows |
|---|---|---|
| `batch_cuda` | u32::MAX 63, 4 lanes, warps and blocks of 2, 12 candidates per lane, a poll every 2 groups | every interleaving gives the earliest match; the invariants behind that |
| `batch_capped` | u32::MAX 31, one block of 4, 8 candidates per lane, a poll after every group, HIP | a launch that covers 32 timestamps while the batch is capped at 31; implements `BatchSearch`; a batch returns |
| `search_safe` | u32::MAX 7, batches of 8 capped to 7, two keys, limits none, 0, 1, 2, clocks -1 to 8, 3 attempts | with an engine that keeps its promise: nothing skipped, reproducible, ends, implements `VanitySearch` |
| `search_untrusted` | the same with batches of 3 and at most one match per key | with an engine that answers anything: results genuine, counters true |
| `search_reserved` | as `search_safe`, batches of 3 | finding 1 |
| `program` | all arguments; lines of 2 or 3 columns, 1 extra byte; 4 builds, 2 work sizes, 2 finalists; 2 directories, NVRTC 9 and 12, at most 2 places | the streams, the terminal and the exit status; every order of acquiring, failing and dropping on both backends, with HIP before CUDA; NVRTC found; the GPU gone before the key is built |
| `cli_redacted` | all arguments | finding 2 |
| `tuning` | 2 builds, 2 work sizes, 2 finalists, speeds 1 to 3, 2 clock units | finalists, choice, end |
| `cache_shared` | 2 processes, 2 devices, 2 options, 2 work sizes | the shared file under races, kills, a full disk, deletion |
| `cache_slot` | 1 process, 2 devices | finding 3 |
| `nvrtc_newest` | 1 directory, versions 9 and 12, any of them usable | finding 4 |
| `candidate` | all rounds, symbolically, on both backends and in both copies of the tests; key IDs of 4 digits of 2 bits, 4 bits of significand, prefixes of every length, alone or in pairs, 0 to 5 errors | the kernel's SHA-1; the verdict on every key ID; parsing and estimates |

Why the bounds are enough.

* *Batches.* Two warps of two lanes are the least with a leader, a follower and a
  rival in another warp. Twelve candidates per lane are three groups, so a poll
  falls between groups and stale values survive one; the requests of the MC module
  are full batches, tails that end in each of the four candidates, a range shorter
  than a block (padding lanes) and one that ends at the reserved value.
* *Host search.* With u32::MAX at 7 every relation of clock to range occurs: before
  the epoch, inside, one below, at and past the maximum. Batches of 7 and 3 give a
  count that fills a u32, more than one batch and a short last one. Two keys let a
  search turn one down and accept the other; three attempts pass each limit. The
  clock stops at `MaxClock` and an unlimited search of keys without a match at
  `MaxAttempts`; these two are the only bounds that cut behaviours.
* *Tuning.* Four variants for two finalists insert at every place, tie and
  truncate; more builds add nothing, as the loop keeps only the list.
* *Cache.* Two processes are needed for a race and two suffice for a pair of
  writers over one file. The options 8 and 16 and the work sizes 5 and 10 have
  different lengths, so a tail remains and a number can be cut. Processes and
  devices are interchangeable, so both are symmetry sets.
* *Program.* Four builds exceed two finalists and the module being measured. Two
  lengths of a line, one byte apart from their columns, shrink and grow. Two
  directories and two places allow a directory listed twice, a name installed in both
  and refused in one, and a place that is empty. 607,944 states.
* *Candidate.* The rounds need no bound: they are symbolic, and all of them are run.
  Four digits of two bits are two digits in each half, so that a prefix ends in
  the middle of a half, at its end, in the other half and at the end of the key
  ID, and a bit can cross between digits and be lost between halves. Errors go from none to
  more than there are digits; the texts include the marker, spaces, a digit too many and
  characters that are none; pairs of prefixes are equal, nested, overlapping or
  disjoint, and three fill more than the two that `MAX_PREFIXES` admits. A significand of
  4 bits beside key IDs of 8 is as short as the 53 beside 64 of the code: counts are rounded,
  a chance of 13 key IDs in 256 is lost beside a sure match, and the reciprocal of 5 in 256
  is 52, which is more than the true 51.2.

`CHECK_DEADLOCK FALSE` is set where the system stops: a failed engine makes no more
calls, a search ends, a program exits, tuning returns. The cache has it for
uniformity with them; a process can always start again.

Every property of a passing run has a mutant in `PROJECT.json`: a definition of
the model changed as a slip in the code would, under which the run must fail. The
mutated forms are the operators marked "Bug:" next to the definition they replace.

### Fairness

* `SearchBatch`: weak fairness of the host's calls (they return) and of each lane's
  step (the GPU runs the resident lanes; a poll waits for the active lanes of the
  warp only). Nothing obliges the caller to ask, or a call to fail. `BatchReturns`
  uses it.
* `HostSearch`: weak fairness of the loop's own step. It is a single thread that is
  scheduled and whose calls return. `BatchFails` and `Tick` are not fair: the end
  must not depend on an error or on the clock. `Terminates` speaks only of searches
  that must end: a given seed, a limit, or a reportable match for every key.
* `Tuning`: weak fairness of `Tune`. `Delay` is not fair, so the clock advances only
  by batches; `TuningEnds` rests on the refusal of a batch whose duration is zero.
* The other modules state safety only and have none.

## 5. Proofs

The proof modules prove the following for every value of the constants that
satisfies the named assumptions. (`EngineProofs` holds the invariant of the resources
on which `ProgramProofs` builds, `Induction` what all inductions over numbers rest on.)

| Theorem | Statement |
|---|---|
| `SearchBatchProofs!TypeCorrect` | `Spec => []TypeOK` |
| `SearchBatchProofs!EarliestAnswerCorrect`, `BestIsAHitCorrect`, `NothingAbandonedCorrect`, `LeaderLeftFirstCorrect` | the four safety invariants of the batch runs |
| `SearchBatchProofs!PromiseKept` | `Spec => KeepsPromise`: the engine implements `BatchSearch` |
| `HostSearchProofs!TypeCorrect`, `GenuineResultCorrect`, `CountersTrueCorrect` | without any assumption on the engine's answers |
| `HostSearchProofs!NothingSkippedCorrect`, `ReproducibleCorrect` | with an engine that keeps its promise (`EngineTrusted`) |
| `HostSearchProofs!PromiseKept` | `ASSUME EngineTrusted PROVE Spec => KeepsPromise`: the loop implements `VanitySearch` |
| `TuningProofs!TypeCorrect`, `FinalistsFastestCorrect`, `ChosenIsBestCorrect`, `NeverUntestedCorrect` | all the safety invariants of `tuning` |
| `TuningCacheProofs!TypeCorrect`, `TunedHereCorrect`, `LastStoreBelievedCorrect` | the invariants of `cache_shared` |
| `ProgramProofs!ProgramIsCli`, `ProgramIsResources` | the program behaves as `CliSpec` and as `ResourcesSpec` |
| `ProgramProofs!TypeOKHolds`, `SecretStaysHidden`, `StatusCanBeTrusted`, `TerminalIsClean` | types, `NeverInTheClear`, `StatusTellsOutput`, `ProgressLineClean` |
| `ProgramProofs!NothingMisused`, `NothingIsLeaked`, `ModulesAreBounded` | `NoMisuse`, `NothingLeaks`, `ModulesBounded`, for any number of builds, work sizes and finalists |
| `ProgramProofs!GpuIsGoneFirst` | `GpuGoneFirst` |
| `ProgramProofs!UsableIsNotMissed` | `UsableNotMissed`, for any finite set of versions and any number of directories |
| `CandidateProofs!CandidateMatches` | the prefix loop of `Candidate` behaves as `MatchSpec` |
| `CandidateProofs!MatchTypeOKHolds`, `TakesWhatMatchesHolds` | types, and that the kernel's verdict on two halves is the CPU's on the whole key ID, for digits and key IDs of any size |
| `CandidateProofs!ShownAsGivenHolds` | what is shown of a parsed prefix is the digits of its text |
| `CandidateProofs!CountsWrongDigitsHolds` | `error_count` is the number of digits in which the key ID differs from the text |
| `CandidateProofs!MatchCountTrueHolds` | `match_count` is the share of the key IDs that match, for every prefix and number of errors |
| `CandidateProofs!ExpectedUpToRoundingHolds` | up to the roundings of `f64`, the search space shown for a set of prefixes is at most the expected one, however they overlap, and at least the one for disjoint matches |
| `CandidateProofs!FiveKeyIds` | at the sizes of the code, the search space shown for five whole key IDs is above the expected one, by rounding |
| `CandidateProofs!RoundsInvHolds`, `SameRoundsHolds`, `SameKeyWordsHolds` | the kernel's SHA-1, its table of rotations and both copies in the tests compute what `sha1_state` does; so do the two words at the end |

*Assumptions.* `GeometryAssumption`: whole warps in a block, whole blocks in a
launch, candidates per lane a positive multiple of four, no more lanes than
u32::MAX. The code builds it so (`from_compiled`, the candidate constants).
`RequestAssumption`: a range ends within the timestamps, and so does what the
full-batch kernel covers; `search` asks for a full batch only at multiples of the
batch size. `HitsAssumption`, `HostAssumption`, and `CandidatesAssumption` of `Tuning`:
kinds of the constants, and that there is something to try. `CandidatesAssumption` of
`TuningCache`: no global work size is, in digits, the beginning of another, as is so for
the five of `src/src/gpu/mod.rs`; a short write could otherwise leave a wrong candidate. `LengthsAssumption`
(a progress line is not empty), `CountsAssumption` (there is a build, a work size and a
finalist), `SizesAssumption` (a digit has a bit, half a key ID a digit, an `f64` a bit of
significand),
`RequestsAssumption` and `NvrtcAssumption` (a directory holds finitely many builds) give the
kinds of the constants of `Cli`, `EngineResources`, `HexPrefix`, `PrefixMatch` and
`NvrtcSearch`. The rounds of SHA-1 need no assumption. TLC evaluates them in every run of the module.

*The engine.* `NothingAbandoned` is not inductive by itself: a lane that leaves at a
poll must be known to leave nothing behind, and a lane's `index` says something
only if it lies in the lane's residue class. The inductive invariant adds: the
request still satisfies its assumption and the launch fits it (`RequestInv`,
`LaunchInv`); the cell is empty or a match (`CellInv`); where a lane is, as a
function of the groups it has run, so that a full-batch lane ends exactly at the
end of the range (`PositionInv`); everything a lane has passed is covered by the
cell (`ScannedInv`); and the active lanes of a warp go from poll to poll in step
with their leader, and once it has left, the cell is no later than where they will
poll next, or they poll no more (`WarpInv`). The last part is what makes the
undefined broadcast harmless: the leader is the first of its warp in the order of
timestamps, so what made it leave, a match or a polled value, beats all that the
others try after their next poll, and leaving there on an arbitrary value loses
nothing. The step lemma has one case per action. `EarliestAnswer` follows when all lanes are done;
the refinement maps `ReadBest` to `Answer` and every lane's step to a stutter.

*The host.* Two layers. `HInv` (`TypeOK`, `LoopInv` on the shape of the loop,
`ScanInv` on what is known while a key is scanned, `GenuineResult`, `CountersTrue`) holds without trusting the engine:
`found` is set only behind the two checks. `CInv` adds, for a trusted engine,
`NothingSkipped` and `Reproducible`: below `batch_start` the current key has no
match, which each `None` extends by one batch. The refinement maps
`timestamp_count` to the horizon and `key_attempts`, less the key in hand, to the
keys turned down.

*The tuning.* `FinalistsFastest` is inductive with `ScanInv`: no variant measured so far
comes after the one being measured, so that among equals the list keeps the earlier.
Its step is the lemma `PushKeepsFastest` about `push_finalist`, which says of every place
of insertion which element falls off and that all that stay beat it.
`NeverUntested` needs `FinalistsFastest` (no finalists means nothing was measured) and
that a loop that went on past a candidate measured it or kept its error. `ChosenIsBest`
needs `ChoiceInv`: the best so far is the first best of the sustained benchmarks so far.

*The cache.* `TunedHere` speaks of processes, but what makes it true is in the file.
`FileInv` says that whatever a load of the file as it is would give a device was tuned on
it; `VariantInv` that the variant a process builds, stores or uses was. A whole write
gives its device its variant, whatever follows on later lines (`ParseWhole`); a short one
gives at most the same (`ParseCut`, by the assumption above).

*The command line.* `StageInv` relates the statement `run` has reached to what it
has said and holds: from the building of the key on, the finding and the right seed line have been
announced; at the encryption, it was asked for; at the printing, the output is one whole
block in the form asked for; nothing is on stdout before. `ScreenInv` is `ProgressLineClean`
and, outside the search and before its first progress line, a terminal that shows
nothing; that the padding is enough is the lemma on `render_progress_line`, by
arithmetic on `progress_line_len` and the bytes beyond the columns.

*The resources.* `Holds(g, api, vs, own, extra)` is an account of `gpu`: the clones of the
`Arc` are those of the owners `api`, of the variants `vs` and of the modules that have an
`Rc`; the clones of a module's `Rc` are those of its variants in `vs` and of the value just
built, if it is in `own`; a module is on the device if it has an owner or is in `extra`, the one
that is loaded and has none yet; and nothing was misused. Each constructor and each `Drop`
has a lemma that says how it changes the account, whatever else is held; so a whole
sequence of drops is followed by citing one lemma after the other. `OwnersInv` says who
the owners are at each place of the opening, `VariantsInv` that the variants are the
finalists and the best one, that these are distinct, of earlier builds or sizes, and no
more than allowed. `NothingLeaks` is the empty account, `ModulesBounded` counts its
variants.

*The program.* Each step of `Program` is a step of `CliSpec` or leaves its variables
alone, and likewise `ResourcesSpec`; the two invariants carry over. `JointInv` relates
where `run` is to where the opening is, which gives `GpuGoneFirst`.

*NVRTC.* `NvrtcInv`: every usable build in a directory to look into, and every bare name
that is, is among the candidates, and each candidate before the next one was refused. That
nothing is lost on the way rests on `FlattenSeq` and on `NewestFirst`: an ordered sequence of
a finite set of names exists, by induction on its size, and lists them all.

*Induction and recursion.* What is proved by induction is given to the lemmas of
`Induction` as the set of the numbers it holds of. That every set of numbers has a least one
(`Least`) follows from the strict order on finite sets being well-founded, through the
intervals from zero. A recursive function is in TLA+ the CHOOSE of a function that satisfies
its equation, so that what it computes may be used only once there is one: `Recursion` says
that a first value and a function of the number of the step give the values up to any
number. Each loop of `HexPrefix` and `Sha1Rounds` has a lemma that says, from this, what it
computes in a step (`ValueSteps`, `CountSteps`, `ExpandContinues`, `StateSteps` and so on).

*The prefixes.* `MatchInv` adds to the types that the prefixes are the texts as parsed
(`ParsedAsGiven`), that `packed` is what `pack` gives and that no prefix passed so far
matches. The heart of the verdict is that the wrong digits of a word are those of its two
halves (`HalvesCount`): `CollapseDef` shows that the shifts carry no bit of one digit into
another's lowest bit, at the edge of a half either, and the digits of the halves are
then disjoint. `NoneWrong` is the shortcut for no errors. That a prefix stands for its text
(`ParsedStands`) goes through the bits of a number: those of a digit make the digit, and
shifting in one digit more moves all the others up by one place. `ShownAsGiven` and
`CountsWrongDigits` follow.

*The counting.* `match_count` never divides with a remainder: its running coefficients are
those of Pascal's triangle (`RunningCoefficients`). The key IDs with exactly k wrong digits
among those of the prefix are counted digit by digit, from words of no digits up: a digit
within the prefix is right in one way or wrong in all others, one behind it is free
(`PrefixDigit`, `FreeDigit`), so that the number is a coefficient times the powers
(`PrefixCount`, `WholeCount`). For several prefixes the key IDs are counted once
(`TakenForOne`) and once for each prefix that takes them (`TakenForEach`), prefix by prefix
(`OnePrefixMore`); the first count is at most the second.

*The roundings.* `Rounded` is what the rest needs of `f64`: the result is off by at most one
part in `ONE`, either way. `Nearest` gives it, as the bits dropped leave at least half of
`ONE` (`Drops`); that there is such a number of bits, which the CHOOSE of `f64` asks for, is
by induction (`PointExists`). Each addition then moves the sum away from the exact
one by one part more (`OneTermMore`), so that after l prefixes, with the rounding of each count,
it is within l + 1 parts (`SumOfTheTaken`); `ExpectedScans` adds the one of the
reciprocal, for which `Reciprocal` also shows that the units lose nothing.

The comment at `src/src/fingerprint.rs:174` promises "a lower bound on the true expected
count". `FiveKeyIds` shows that this is so up to rounding only: with 16 digits of 4 bits
and 53 bits of significand, five different whole key IDs and no errors give
3689348814741910528, and five times that is 2^64 + 1024. So `ExpectedUpToRounding` counts the
roundings, at most 66 parts in 2^53 for the 64 prefixes the code admits. The comment also says
what the number is for, a percentage, and there the difference cannot be seen. It is proved at
the sizes of the code, not shown by a run, and therefore not in the list of section 6.

*The rounds of SHA-1.* All is symbolic, so these are statements about every key and
timestamp. (1) `ScheduleApart`: each word of the schedule is its constant, XORed with the
rotations of `w1` in the table. By induction over the words: the XOR of four words and its
rotation take constants and rotations apart (`TakesApart`, as no rotation is by 31), and each
of the 61 entries of the table follows from the four that the schedule takes for it
(`RotationsFollow`). (2) `SameFunctions`: the optimized round functions of both backends have
the truth tables of the reference. (3) `AddedInAdvance`: the constants are those of the
rounds. (4) `RoundsInv`, the inductive invariant: the registers are the reference's before
this round, under the names that cycle (`NamesCycle`) or, in the port of the tests, shifted;
from the hoisted rounds on (`HoistedFollows`), and after the last one for the two that are
still used. TLC has checked it as an invariant of `candidate`. (5) The last three rounds only
move and rotate these two (`RecoverKeeps`), and the last eight bytes are those of the fourth
and fifth word (`LastBytes`).

*Only model-checked*: the liveness properties `BatchReturns`, `Terminates` and
`TuningEnds`, which rest on fairness and are out of the prover's reach. The four runs that
refute a claim show a counterexample and have nothing to prove.

## 6. Findings

1. `search_reserved`: with the clock at or past 2^32 - 1 seconds the search counts
   and asks for the timestamp 2^32 - 1, which is the engine's not-found mark, and then
   reports that all timestamps were searched (`src/src/search.rs:184`).
2. `cli_redacted`: the seed is announced as "included in the encrypted output" before
   the recipient's file has been looked at (`src/src/main.rs:99`); if that fails there
   is no output and the key is lost.
3. `cache_slot`: the README promises a result cached per device; the cache has room
   for one device per backend, so devices used in turn are tuned each time
   (`src/src/gpu/cuda.rs:1211`).
4. `nvrtc_newest`: "Prefer the highest-versioned NVRTC build" compares file names as
   text, so version 9 goes before version 12 (`src/src/gpu/cuda.rs:1391`).

## 7. Not modelled

* *Numbers of SHA-1.* Its constants and initial values are symbols: that the kernel
  and the reference use the same numbers, and that these are SHA-1's, was read, not
  checked. Nor is the addition modelled: two sums are equal when their terms are.
  Read line by line, and written out in `Sha1Rounds`, were the 61 entries of each of the three
  tables; the register names of the 75 steps are the cycle in `Names`.
* *From candidate to batch.* `SearchBatch` takes the set `hits` of matching timestamps as
  given and `Candidate` shows, for one candidate, that the kernel's verdict is the
  right one; the two are not one state machine. `GenuineResult` does not rest on either:
  the host recomputes on the CPU.
* *The layout of the hashed block* (`FingerprintSearch::new`) and the decoding of the seed
  (`seed_from_hex`): plain conversions. That the timestamp is word 1 of the block, alone,
  is what `Sha1Rounds` takes from the first.
* *The range of `f64`* and of `u128` in the number of expected scans: a sum of chances is between
  2^-64 and 64, so neither the exponent of an `f64` nor a branch that returns `u128::MAX` is
  reached. Sums, one and more, are modelled: with overlapping prefixes the sum may exceed
  one, and the number is then 0, unless the excess is so small that it is rounded away, when it
  is 1.
* *The OpenPGP packets and the encryption*: done by the Sequoia library; the
  program's part is the order of the calls and their failures (`Cli`).
* *Several search engines at once*: the program opens one.
* *Windows library names, the names tried for the ROCm and HIP libraries, error texts,
  formatting of numbers, times and speeds, argument parsing by `clap`.*
* *Weak memory beyond the poll.* The cell is one 32-bit word accessed with atomics and
  volatile loads; a poll may act on a value that is stale by any number of steps of
  other lanes between two polls, but each read itself returns the cell's
  current value. A read that lags behind is an earlier poll's value, which
  is larger or the not-found mark, and makes a lane stay longer, never leave early.

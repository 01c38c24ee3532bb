----------------------------- MODULE EngineProofs -----------------------------
(***************************************************************************)
(* Proofs about EngineResources, for every number of builds, work sizes    *)
(* and finalists: every clone of an Arc or an Rc is accounted for, hence   *)
(* nothing is used after it was released, nothing leaks, and the modules   *)
(* on the device are bounded.                                              *)
(***************************************************************************)
EXTENDS EngineResources, FiniteSetTheorems, TLAPS

-----------------------------------------------------------------------------
(* The inductive invariant.                                                *)

\* The sizes of the variants in vs that are of module m.
SizesOf(vs, m) == {s \in 1..WorkSizes : <<m, s>> \in vs}

\* Every clone is accounted for: g is what is held when the owners in api, the
\* variants in vs and the built values of the modules in own exist, and the
\* modules in extra are on the device with no owner yet.
Holds(g, api, vs, own, extra) ==
    /\ g \in Gpu /\ ~ g.misuse
    /\ g.api = api /\ g.variants = vs
    /\ \A m \in Modules : g.rc[m] = SizesOf(vs, m) \cup (IF m \in own THEN {0} ELSE {})
    /\ g.modules = {m \in Modules : g.rc[m] # {}}
    /\ "context" \in api <=> g.context = "live"
    /\ g.memory = IF g.context = "destroyed" THEN {} ELSE Buffers \cap api
    /\ g.loaded = IF g.context = "destroyed" THEN {} ELSE g.modules \cup extra

Own == IF pc \in {"measure", "built", "keep"} THEN {build} ELSE {}
Extra == IF pc = "functions" THEN {build} ELSE {}

Closed == {"choose", "load", "failed", "end"}

\* Who is there at each place of the opening.
OwnersInv ==
    /\ pc \in Closed => gpu.api = {}
    /\ pc \notin Closed => "engine" \in gpu.api
    /\ "program" \in gpu.api <=> pc = "module"
    /\ pc \notin Closed \cup {"device", "context", "buffers"} => Buffers \subseteq gpu.api
    /\ pc \in {"choose", "load", "device", "context"} \/ backend = "hip" => gpu.context = "none"
    /\ pc = "context" => backend = "cuda"
    /\ pc \notin {"failed", "end"} => gpu.context # "destroyed"

\* The variants there are, and that they are of earlier builds or sizes.
VariantsInv ==
    /\ finalists \cap best = {}
    /\ \A v, w \in best : v = w
    /\ best # {} => pc \in {"sustain", "unwind", "run"}
    /\ pc = "run" => best # {} /\ finalists = {}
    /\ pc \in Closed \cup {"device", "context", "buffers", "tune"} => finalists = {}
    /\ purpose = "cached" => finalists = {}
    /\ pc = "keep" => purpose = "cached"
    /\ pc \in {"measure", "built", "next"} => purpose = "tuning"
    /\ pc \in {"program", "module", "functions"} => \A v \in finalists : v[1] < build
    /\ pc = "measure" => \A v \in finalists : v[1] < build \/ (v[1] = build /\ v[2] < size)
    /\ pc \in {"built", "next"} => \A v \in finalists : v[1] <= build
    /\ IsFiniteSet(finalists \cup best) /\ Cardinality(finalists \cup best) <= FINALIST_COUNT

KindsInv ==
    /\ asked \in {"none", "hip", "cuda", "bad"} /\ backend \in {"hip", "cuda"}
    /\ pc \in Locations
    /\ purpose \in {"cached", "tuning"}
    /\ build \in Modules /\ size \in 1..WorkSizes

ResourcesInv ==
    /\ KindsInv
    /\ Holds(gpu, gpu.api, finalists \cup best, Own, Extra)
    /\ OwnersInv /\ VariantsInv

-----------------------------------------------------------------------------
(* What each constructor and each Drop does to the account.                *)

LEMMA CallFinds ==
    ASSUME NEW g \in Gpu, ~ g.misuse, Open(g)
    PROVE  Call(g) = g
BY DEF Gpu, Call

LEMMA CloneApiHolds ==
    ASSUME NEW g, NEW api, NEW vs, NEW own, NEW extra, Holds(g, api, vs, own, extra),
           NEW owner \in {"engine", "program"}
    PROVE  /\ Holds(CloneApi(g, owner), api \cup {owner}, vs, own, extra)
           /\ CloneApi(g, owner).context = g.context
BY DEF Holds, CloneApi, Gpu, Buffers

LEMMA DropApiHolds ==
    ASSUME NEW g, NEW api, NEW vs, NEW own, NEW extra, Holds(g, api, vs, own, extra),
           NEW owner \in {"engine", "program"}
    PROVE  /\ Holds(DropApi(g, owner), api \ {owner}, vs, own, extra)
           /\ DropApi(g, owner).context = g.context
BY DEF Holds, DropApi, Gpu, Buffers

LEMMA CreateContextHolds ==
    ASSUME NEW g, NEW api, NEW vs, NEW own, NEW extra, Holds(g, api, vs, own, extra),
           api # {}, g.context # "destroyed"
    PROVE  /\ Holds(CreateContext(g), api \cup {"context"}, vs, own, extra)
           /\ CreateContext(g).context = "live"
<1>1. Call(g) = g
  BY CallFinds DEF Holds, Open
<1> DEFINE h == CreateContext(g)
<1>8. /\ h \in Gpu
      /\ h.api = api \cup {"context"} /\ h.modules = g.modules /\ h.variants = g.variants /\ h.context = "live"
      /\ h.memory = g.memory /\ h.loaded = g.loaded /\ h.rc = g.rc /\ h.misuse = g.misuse
  BY <1>1 DEF Holds, CreateContext, CloneApi, Gpu, Buffers
<1> HIDE DEF h
<1>9. Holds(h, api \cup {"context"}, vs, own, extra)
  BY <1>8 DEF Holds, Buffers
<1> QED
  BY <1>8, <1>9 DEF h

LEMMA DropContextHolds ==
    ASSUME NEW g, NEW api, NEW vs, NEW own, NEW extra, Holds(g, api, vs, own, extra)
    PROVE  /\ Holds(DropContext(g), api \ {"context"}, vs, own, extra)
           /\ DropContext(g).context = IF "context" \in api THEN "destroyed" ELSE g.context
<1>1. CASE "context" \notin api
  BY <1>1 DEF Holds, DropContext, Gpu
<1>2. CASE "context" \in api
  <2>1. Call(g) = g
    BY <1>2, CallFinds DEF Holds, Open
  <2> DEFINE h == DropContext(g)
  <2>8. /\ h \in Gpu
        /\ h.api = api \ {"context"} /\ h.modules = g.modules /\ h.variants = g.variants /\ h.context = "destroyed"
        /\ h.memory = {} /\ h.loaded = {} /\ h.rc = g.rc /\ h.misuse = g.misuse
    BY <1>2, <2>1 DEF Holds, DropContext, DropApi, Gpu, Buffers
  <2> HIDE DEF h
  <2>9. Holds(h, api \ {"context"}, vs, own, extra)
    BY <2>8 DEF Holds, Buffers
  <2> QED
    BY <1>2, <2>8, <2>9 DEF h
<1> QED
  BY <1>1, <1>2

LEMMA AllocateHolds ==
    ASSUME NEW g, NEW api, NEW vs, NEW own, NEW extra, Holds(g, api, vs, own, extra),
           NEW b \in Buffers, api # {}, g.context # "destroyed"
    PROVE  /\ Holds(Allocate(g, b), api \cup {b}, vs, own, extra)
           /\ Allocate(g, b).context = g.context
<1>1. Call(g) = g
  BY CallFinds DEF Holds, Open
<1> DEFINE h == Allocate(g, b)
<1>8. /\ h \in Gpu
      /\ h.api = api \cup {b} /\ h.modules = g.modules /\ h.variants = g.variants /\ h.context = g.context
      /\ h.memory = g.memory \cup {b} /\ h.loaded = g.loaded /\ h.rc = g.rc /\ h.misuse = g.misuse
  BY <1>1 DEF Holds, Allocate, CloneApi, Gpu, Buffers
<1> HIDE DEF h
<1>9. Holds(h, api \cup {b}, vs, own, extra)
  BY <1>8 DEF Holds, Buffers
<1> QED
  BY <1>8, <1>9 DEF h

LEMMA DropBufferHolds ==
    ASSUME NEW g, NEW api, NEW vs, NEW own, NEW extra, Holds(g, api, vs, own, extra),
           NEW b \in Buffers
    PROVE  /\ Holds(DropBuffer(g, b), api \ {b}, vs, own, extra)
           /\ DropBuffer(g, b).context = g.context
<1>1. CASE b \notin api
  BY <1>1 DEF Holds, DropBuffer, Gpu
<1>2. CASE b \in api
  <2>1. Call(g) = g
    BY <1>2, CallFinds DEF Holds, Open
  <2> DEFINE h == DropBuffer(g, b)
  <2>8. /\ h \in Gpu
        /\ h.api = api \ {b} /\ h.modules = g.modules /\ h.variants = g.variants /\ h.context = g.context
        /\ h.memory = g.memory \ {b} /\ h.loaded = g.loaded /\ h.rc = g.rc /\ h.misuse = FALSE
    BY <1>2, <2>1 DEF Holds, DropBuffer, DropApi, Gpu, Buffers
  <2> HIDE DEF h
  <2>9. Holds(h, api \ {b}, vs, own, extra)
    BY <2>8 DEF Holds, Buffers
  <2> QED
    BY <2>8, <2>9 DEF h
<1> QED
  BY <1>1, <1>2

\* A kernel of a loaded module finds its module and its buffers.
LEMMA LaunchHolds ==
    ASSUME NEW g, NEW api, NEW vs, NEW own, NEW extra, Holds(g, api, vs, own, extra),
           g.context # "destroyed", Buffers \subseteq api, NEW m \in g.loaded
    PROVE  Launch(g, m) = g
<1>1. Call(g) = g
  BY CallFinds DEF Holds, Open, Buffers
<1>2. m \in g.loaded /\ g.memory = Buffers /\ g \in Gpu /\ g.misuse = FALSE
  BY DEF Holds, Gpu
<1> QED
  BY <1>1, <1>2 DEF Launch, Gpu

-----------------------------------------------------------------------------
(* Modules and variants.                                                   *)

LEMMA LoadModuleHolds ==
    ASSUME NEW g, NEW api, NEW vs, Holds(g, api, vs, {}, {}),
           NEW m \in Modules, api # {}, g.context # "destroyed"
    PROVE  /\ Holds(LoadModule(g, m), api, vs, {}, {m})
           /\ LoadModule(g, m).context = g.context
<1>1. Call(g) = g
  BY CallFinds DEF Holds, Open
<1> DEFINE h == LoadModule(g, m)
<1>2. /\ h \in Gpu
      /\ h.api = api /\ h.modules = g.modules /\ h.variants = g.variants /\ h.context = g.context
      /\ h.memory = g.memory /\ h.loaded = g.loaded \cup {m} /\ h.rc = g.rc /\ h.misuse = g.misuse
  BY <1>1 DEF Holds, LoadModule, Gpu
<1> HIDE DEF h
<1>3. Holds(h, api, vs, {}, {m})
  BY <1>2 DEF Holds
<1> QED
  BY <1>2, <1>3 DEF h

\* A module that no variant uses is unloaded when its entry points are missing,
LEMMA UnloadHolds ==
    ASSUME NEW g, NEW api, NEW vs, NEW m \in Modules, Holds(g, api, vs, {}, {m}),
           SizesOf(vs, m) = {}, api # {}, g.context # "destroyed"
    PROVE  /\ Holds(UnloadModule(g, m), api, vs, {}, {})
           /\ UnloadModule(g, m).context = g.context
<1>1. Call(g) = g
  BY CallFinds DEF Holds, Open
<1>2. m \notin g.modules /\ g.loaded = g.modules \cup {m}
  BY DEF Holds
<1> DEFINE h == UnloadModule(g, m)
<1>3. /\ h \in Gpu
      /\ h.api = api /\ h.modules = g.modules /\ h.variants = g.variants /\ h.context = g.context
      /\ h.memory = g.memory /\ h.loaded = g.loaded \ {m} /\ h.rc = g.rc /\ h.misuse = FALSE
  BY <1>1, <1>2 DEF Holds, UnloadModule, Gpu
<1> HIDE DEF h
<1>4. Holds(h, api, vs, {}, {})
  BY <1>2, <1>3 DEF Holds
<1> QED
  BY <1>3, <1>4 DEF h

\* or gets its owner when they are there.
LEMMA NewModuleHolds ==
    ASSUME NEW g, NEW api, NEW vs, NEW m \in Modules, Holds(g, api, vs, {}, {m}),
           SizesOf(vs, m) = {}
    PROVE  /\ Holds(NewModule(g, m), api, vs, {m}, {})
           /\ NewModule(g, m).context = g.context
<1> DEFINE h == NewModule(g, m)
           rc == [g.rc EXCEPT ![m] = {0}]
<1>1. g.rc \in [Modules -> SUBSET (0..WorkSizes)] /\ rc \in [Modules -> SUBSET (0..WorkSizes)]
  BY CountsAssumption DEF Holds, Gpu
<1>2. h = [g EXCEPT !.modules = @ \cup {m}, !.rc = rc]
  BY DEF NewModule, Holds, Gpu
<1> HIDE DEF h, rc
<1>3. /\ h \in Gpu
      /\ h.api = api /\ h.modules = g.modules \cup {m} /\ h.variants = g.variants
      /\ h.context = g.context /\ h.memory = g.memory /\ h.loaded = g.loaded
      /\ h.rc = rc /\ h.misuse = g.misuse
  BY <1>1, <1>2 DEF Holds, Gpu
<1>4. /\ h.rc[m] = {0}
      /\ \A k \in Modules \ {m} : h.rc[k] = g.rc[k]
  BY <1>1, <1>3 DEF rc
<1>5. Holds(h, api, vs, {m}, {})
  BY <1>3, <1>4 DEF Holds
<1> QED
  BY <1>3, <1>5 DEF h

LEMMA SizesOfOneMore ==
    ASSUME NEW vs, NEW m, NEW s \in 1..WorkSizes, NEW k
    PROVE  SizesOf(vs \cup {<<m, s>>}, k) = SizesOf(vs, k) \cup (IF k = m THEN {s} ELSE {})
BY DEF SizesOf

LEMMA NewVariantHolds ==
    ASSUME NEW g, NEW api, NEW vs, NEW own, Holds(g, api, vs, own, {}),
           NEW m \in own \cap Modules, NEW s \in 1..WorkSizes
    PROVE  /\ Holds(NewVariant(g, <<m, s>>), api, vs \cup {<<m, s>>}, own, {})
           /\ NewVariant(g, <<m, s>>).context = g.context
<1> DEFINE v == <<m, s>>
           h == NewVariant(g, v)
           rc == [g.rc EXCEPT ![m] = @ \cup {s}]
<1>0. v \in Variants /\ v[1] = m /\ v[2] = s /\ g \in Gpu /\ g.variants = vs
  BY DEF Variants, Holds
<1>1. rc \in [Modules -> SUBSET (0..WorkSizes)]
  <2>1. g.rc \in [Modules -> SUBSET (0..WorkSizes)] /\ s \in 0..WorkSizes
    BY <1>0, CountsAssumption DEF Gpu
  <2> QED
    BY <2>1
<1>2. h = [g EXCEPT !.variants = vs \cup {v}, !.rc = rc]
  <2> HIDE DEF v
  <2>1. h = [g EXCEPT !.variants = @ \cup {v}, !.rc[m] = @ \cup {s}]
    BY <1>0 DEF NewVariant
  <2> QED
    BY <1>0, <2>1 DEF Gpu
<1> HIDE DEF h, v, rc
<1>3. /\ h \in Gpu
      /\ h.api = g.api /\ h.modules = g.modules /\ h.variants = vs \cup {v}
      /\ h.context = g.context /\ h.memory = g.memory /\ h.loaded = g.loaded
      /\ h.rc = rc /\ h.misuse = g.misuse
  BY <1>0, <1>1, <1>2 DEF Gpu
<1>4. /\ h.rc[m] = g.rc[m] \cup {s} /\ 0 \in g.rc[m]
      /\ \A k \in Modules \ {m} : h.rc[k] = g.rc[k]
  <2>1. g.rc \in [Modules -> SUBSET (0..WorkSizes)]
    BY <1>0 DEF Gpu
  <2> QED
    BY <1>3, <2>1 DEF Holds, rc
<1>5. \A k \in Modules : h.rc[k] = SizesOf(h.variants, k) \cup (IF k \in own THEN {0} ELSE {})
  <2> TAKE k \in Modules
  <2>0. SizesOf(vs \cup {v}, k) = SizesOf(vs, k) \cup (IF k = m THEN {s} ELSE {})
    BY SizesOfOneMore DEF v
  <2>1. SizesOf(h.variants, k) = SizesOf(vs, k) \cup (IF k = m THEN {s} ELSE {})
    BY <1>3, <2>0
  <2>2. g.rc[k] = SizesOf(vs, k) \cup (IF k \in own THEN {0} ELSE {})
    BY DEF Holds
  <2>3. h.rc[k] = g.rc[k] \cup (IF k = m THEN {s} ELSE {})
    BY <1>4
  <2> QED
    BY <2>1, <2>2, <2>3
<1>6. h.modules = {k \in Modules : h.rc[k] # {}}
  BY <1>3, <1>4 DEF Holds
<1>7. Holds(h, api, vs \cup {v}, own, {})
  BY <1>3, <1>5, <1>6 DEF Holds
<1> QED
  BY <1>3, <1>7 DEF h, v

\* A clone of a module's Rc goes, with the last one the module.
Dropped(h, g, m, holder) ==
    LET gone == IF g.rc[m] = {holder} THEN {m} ELSE {}
    IN  /\ h \in Gpu
        /\ h.api = g.api /\ h.modules = g.modules \ gone /\ h.variants = g.variants
        /\ h.context = g.context /\ h.memory = g.memory /\ h.loaded = g.loaded \ gone
        /\ h.rc = [g.rc EXCEPT ![m] = @ \ {holder}] /\ h.misuse = FALSE

LEMMA DropModuleFields ==
    ASSUME NEW g \in Gpu, ~ g.misuse, NEW m \in g.modules, NEW holder \in g.rc[m],
           m \in g.loaded \/ g.context = "destroyed"
    PROVE  Dropped(DropModule(g, m, holder), g, m, holder)
<1> SUFFICES LET h == DropModule(g, m, holder)
                 gone == IF g.rc[m] = {holder} THEN {m} ELSE {}
             IN  /\ h \in Gpu
                 /\ h.api = g.api /\ h.modules = g.modules \ gone /\ h.variants = g.variants
                 /\ h.context = g.context /\ h.memory = g.memory /\ h.loaded = g.loaded \ gone
                 /\ h.rc = [g.rc EXCEPT ![m] = @ \ {holder}] /\ h.misuse = FALSE
  BY DEF Dropped
<1>1. Call(g) = g
  BY CallFinds DEF Open
<1>2. m \in Modules
  BY DEF Gpu
<1> DEFINE u == UnloadModule(g, m)
<1>3. /\ u \in Gpu
      /\ u.api = g.api /\ u.modules = g.modules /\ u.variants = g.variants /\ u.context = g.context
      /\ u.memory = g.memory /\ u.loaded = g.loaded \ {m} /\ u.rc = g.rc /\ u.misuse = FALSE
  BY <1>1 DEF UnloadModule, Gpu
<1> HIDE DEF u
<1>4. CASE g.rc[m] = {holder}
  <2>1. DropModule(g, m, holder) = [u EXCEPT !.rc[m] = {}, !.modules = @ \ {m}]
    BY <1>4 DEF DropModule, u
  <2>2. [g.rc EXCEPT ![m] = {}] = [g.rc EXCEPT ![m] = @ \ {holder}]
    BY <1>4
  <2> DEFINE h == [u EXCEPT !.rc[m] = {}, !.modules = @ \ {m}]
  <2>3. /\ h.api = u.api /\ h.modules = u.modules \ {m} /\ h.variants = u.variants
        /\ h.context = u.context /\ h.memory = u.memory /\ h.loaded = u.loaded
        /\ h.rc = [u.rc EXCEPT ![m] = {}] /\ h.misuse = u.misuse
    BY <1>3 DEF Gpu
  <2>4. h \in Gpu
    BY <1>2, <1>3 DEF Gpu
  <2> HIDE DEF h
  <2> QED
    BY <1>3, <1>4, <2>1, <2>2, <2>3, <2>4 DEF h
<1>5. CASE g.rc[m] # {holder}
  <2>1. DropModule(g, m, holder) = [g EXCEPT !.rc[m] = @ \ {holder}]
    BY <1>5 DEF DropModule
  <2> QED
    BY <1>2, <1>5, <2>1 DEF Gpu
<1> QED
  BY <1>4, <1>5

\* The value built is dropped: the module stays if a variant is left of it.
LEMMA DropBuiltHolds ==
    ASSUME NEW g, NEW api, NEW vs, NEW m \in Modules, Holds(g, api, vs, {m}, {})
    PROVE  /\ Holds(DropModule(g, m, 0), api, vs, {}, {})
           /\ DropModule(g, m, 0).context = g.context
<1> DEFINE h == DropModule(g, m, 0)
           gone == IF g.rc[m] = {0} THEN {m} ELSE {}
<1>1. /\ g \in Gpu /\ ~ g.misuse /\ m \in g.modules /\ 0 \in g.rc[m]
      /\ m \in g.loaded \/ g.context = "destroyed"
  BY DEF Holds
<1>2. /\ h \in Gpu
      /\ h.api = g.api /\ h.modules = g.modules \ gone /\ h.variants = g.variants
      /\ h.context = g.context /\ h.memory = g.memory /\ h.loaded = g.loaded \ gone
      /\ h.rc = [g.rc EXCEPT ![m] = @ \ {0}] /\ h.misuse = FALSE
  <2>1. Dropped(h, g, m, 0)
    BY <1>1, DropModuleFields
  <2> HIDE DEF h
  <2> QED
    BY <2>1 DEF Dropped
<1> HIDE DEF h
<1>3. /\ h.rc[m] = g.rc[m] \ {0}
      /\ \A k \in Modules \ {m} : h.rc[k] = g.rc[k]
  BY <1>1, <1>2 DEF Gpu
<1>4. 0 \notin SizesOf(vs, m)
  BY CountsAssumption DEF SizesOf
<1>5. \A k \in Modules : h.rc[k] = SizesOf(vs, k)
  <2> TAKE k \in Modules
  <2>1. g.rc[k] = SizesOf(vs, k) \cup (IF k \in {m} THEN {0} ELSE {})
    BY DEF Holds
  <2> QED
    BY <1>3, <1>4, <2>1
<1>6. h.modules = {k \in Modules : h.rc[k] # {}}
  BY <1>1, <1>2, <1>3 DEF Holds
<1>7. Holds(h, api, vs, {}, {})
  BY <1>2, <1>5, <1>6 DEF Holds
<1> QED
  BY <1>2, <1>7 DEF h

\* A variant is dropped: so is its module if nothing is left of it.
LEMMA DropVariantHolds ==
    ASSUME NEW g, NEW api, NEW vs, NEW own, Holds(g, api, vs, own, {}), NEW v \in vs
    PROVE  /\ Holds(DropVariant(g, v), api, vs \ {v}, own, {})
           /\ DropVariant(g, v).context = g.context
<1>1. g \in Gpu /\ ~ g.misuse /\ g.variants = vs /\ v \in Variants
  BY DEF Holds, Gpu
<1>2. PICK m \in Modules, s \in 1..WorkSizes : v = <<m, s>>
  BY <1>1 DEF Variants
<1>3. v[1] = m /\ v[2] = s
  BY <1>2
<1> DEFINE f == [g EXCEPT !.variants = @ \ {v}]
           h == DropModule(f, m, s)
           gone == IF f.rc[m] = {s} THEN {m} ELSE {}
<1>4. h = DropVariant(g, v)
  BY <1>3 DEF DropVariant
<1>5. /\ f \in Gpu
      /\ f.api = g.api /\ f.modules = g.modules /\ f.variants = vs \ {v} /\ f.context = g.context
      /\ f.memory = g.memory /\ f.loaded = g.loaded /\ f.rc = g.rc /\ f.misuse = g.misuse
  BY <1>1 DEF Gpu
<1>6. s \in SizesOf(vs, m)
  BY <1>2 DEF SizesOf
<1>7. m \in g.modules /\ s \in g.rc[m] /\ (m \in g.loaded \/ g.context = "destroyed")
  BY <1>6 DEF Holds
<1> HIDE DEF f
<1>8. /\ h \in Gpu
      /\ h.api = f.api /\ h.modules = f.modules \ gone /\ h.variants = f.variants
      /\ h.context = f.context /\ h.memory = f.memory /\ h.loaded = f.loaded \ gone
      /\ h.rc = [f.rc EXCEPT ![m] = @ \ {s}] /\ h.misuse = FALSE
  <2>1. f \in Gpu /\ ~ f.misuse /\ m \in f.modules /\ s \in f.rc[m]
        /\ (m \in f.loaded \/ f.context = "destroyed")
    BY <1>1, <1>5, <1>7
  <2>2. Dropped(h, f, m, s)
    BY <2>1, DropModuleFields
  <2> HIDE DEF h
  <2> QED
    BY <2>2 DEF Dropped
<1> HIDE DEF h
<1>9. /\ h.rc[m] = g.rc[m] \ {s}
      /\ \A k \in Modules \ {m} : h.rc[k] = g.rc[k]
  <2>1. g.rc \in [Modules -> SUBSET (0..WorkSizes)]
    BY <1>1 DEF Gpu
  <2> QED
    BY <1>5, <1>8, <2>1
<1>10. \A k \in Modules : h.rc[k] = SizesOf(vs \ {v}, k) \cup (IF k \in own THEN {0} ELSE {})
  <2> TAKE k \in Modules
  <2>1. SizesOf(vs \ {v}, k) = SizesOf(vs, k) \ (IF k = m THEN {s} ELSE {})
    <3>1. SizesOf(vs \ {<<m, s>>}, k) = SizesOf(vs, k) \ (IF k = m THEN {s} ELSE {})
      BY DEF SizesOf
    <3> QED
      BY <1>2, <3>1
  <2>2. g.rc[k] = SizesOf(vs, k) \cup (IF k \in own THEN {0} ELSE {})
    BY DEF Holds
  <2>3. s # 0
    BY CountsAssumption
  <2> QED
    BY <1>9, <2>1, <2>2, <2>3
<1>11. h.modules = {k \in Modules : h.rc[k] # {}}
  BY <1>5, <1>7, <1>8, <1>9 DEF Holds
<1>12. Holds(h, api, vs \ {v}, own, {})
  BY <1>5, <1>8, <1>10, <1>11 DEF Holds
<1> QED
  BY <1>4, <1>5, <1>8, <1>12

\* An error of new releases everything but the variants it has none of.
LEMMA DropLocalsHolds ==
    ASSUME NEW g, Holds(g, g.api, {}, {}, {}), "program" \notin g.api
    PROVE  /\ Holds(DropLocals(g), {}, {}, {}, {})
           /\ DropLocals(g).context = IF "context" \in g.api THEN "destroyed" ELSE g.context
<1> DEFINE a == DropBuffer(g, "prefixes")
           b == DropBuffer(a, "best_timestamp")
           c == DropBuffer(b, "base_words")
           d == DropContext(c)
<1>1. /\ Holds(a, g.api \ {"prefixes"}, {}, {}, {}) /\ a.context = g.context
  BY DropBufferHolds DEF Buffers
<1> HIDE DEF a
<1>2. /\ Holds(b, (g.api \ {"prefixes"}) \ {"best_timestamp"}, {}, {}, {}) /\ b.context = g.context
  BY <1>1, DropBufferHolds DEF Buffers
<1> HIDE DEF b
<1>3. /\ Holds(c, ((g.api \ {"prefixes"}) \ {"best_timestamp"}) \ {"base_words"}, {}, {}, {})
      /\ c.context = g.context
  BY <1>2, DropBufferHolds DEF Buffers
<1> HIDE DEF c
<1> DEFINE api == ((g.api \ {"prefixes"}) \ {"best_timestamp"}) \ {"base_words"}
<1>4. /\ Holds(d, api \ {"context"}, {}, {}, {})
      /\ d.context = IF "context" \in api THEN "destroyed" ELSE g.context
  BY <1>3, DropContextHolds
<1> HIDE DEF d
<1>5. Holds(DropApi(d, "engine"), (api \ {"context"}) \ {"engine"}, {}, {}, {})
  BY <1>4, DropApiHolds
<1>6. (api \ {"context"}) \ {"engine"} = {} /\ ("context" \in api <=> "context" \in g.api)
  BY DEF Holds, Gpu, Buffers
<1>7. DropApi(d, "engine").context = d.context
  BY <1>4, DropApiHolds
<1> QED
  BY <1>4, <1>5, <1>6, <1>7 DEF DropLocals, a, b, c, d

-----------------------------------------------------------------------------
(* Every step keeps the account.                                           *)

\* The account of the next state, stated of its values.
LEMMA NextHolds ==
    ASSUME Holds(gpu', gpu'.api, finalists' \cup best', Own', Extra')
    PROVE  Holds(gpu, gpu.api, finalists \cup best, Own, Extra)'
BY DEF Holds, SizesOf

LEMMA ApiHeld ==
    ASSUME NEW g, NEW api, NEW vs, NEW own, NEW extra, Holds(g, api, vs, own, extra)
    PROVE  g.api = api /\ Holds(g, g.api, vs, own, extra)
BY DEF Holds

LEMMA CallNow == ResourcesInv /\ pc \notin Closed => Call(gpu) = gpu
BY CallFinds DEF ResourcesInv, OwnersInv, Holds, Open

LEMMA ResourcesInvInit == ResourcesInit => ResourcesInv
<1> SUFFICES ASSUME ResourcesInit PROVE ResourcesInv
  OBVIOUS
<1>1. gpu = NothingHeld /\ pc = "choose" /\ finalists = {} /\ best = {} /\ build = 0 /\ size = 1
      /\ backend = "hip" /\ purpose = "cached"
  BY DEF ResourcesInit
<1>2. KindsInv
  BY CountsAssumption DEF ResourcesInit, KindsInv, Locations, Modules
<1>3. Holds(gpu, gpu.api, {}, {}, {})
  BY <1>1 DEF Holds, NothingHeld, Gpu, SizesOf
<1>4. OwnersInv
  BY <1>1 DEF OwnersInv, NothingHeld, Closed
<1>5. VariantsInv
  BY <1>1, FS_EmptySet, CountsAssumption DEF VariantsInv
<1> QED
  BY <1>1, <1>2, <1>3, <1>4, <1>5 DEF ResourcesInv, Own, Extra

\* An error of new, when there is no variant.
LEMMA FailStep ==
    ASSUME ResourcesInv, NEW g, Fail(g),
           Holds(g, g.api, {}, {}, {}), "program" \notin g.api, backend = "hip" => g.context = "none",
           finalists = {}, best = {}, UNCHANGED <<asked, backend, finalists, best>>, KindsInv'
    PROVE  ResourcesInv'
<1>1. pc' = "failed" /\ gpu' = DropLocals(g)
  BY DEF Fail
<1>2. /\ Holds(gpu', {}, {}, {}, {})
      /\ gpu'.context = IF "context" \in g.api THEN "destroyed" ELSE g.context
  BY <1>1, DropLocalsHolds
<1>3. gpu'.api = {} /\ Holds(gpu', gpu'.api, {}, {}, {})
  BY <1>2, ApiHeld
<1>4. Holds(gpu, gpu.api, finalists \cup best, Own, Extra)'
  BY <1>1, <1>3, NextHolds DEF Own, Extra
<1>5. backend = "hip" => "context" \notin g.api
  BY DEF Holds
<1>6. OwnersInv'
  BY <1>1, <1>2, <1>3, <1>5 DEF OwnersInv, Closed
<1>7. VariantsInv'
  BY <1>1, FS_EmptySet, CountsAssumption DEF VariantsInv
<1> QED
  BY <1>4, <1>6, <1>7 DEF ResourcesInv

LEMMA ChooseStep == ResourcesInv /\ Choose => ResourcesInv'
<1> SUFFICES ASSUME ResourcesInv, Choose PROVE ResourcesInv'
  OBVIOUS
<1>1. /\ pc = "choose" /\ pc' \in {"load", "end"} /\ backend' \in {"hip", "cuda"}
      /\ UNCHANGED <<asked, gpu, purpose, build, size, finalists, best>>
  BY DEF Choose, tuning
<1>2. KindsInv'
  BY <1>1 DEF ResourcesInv, KindsInv, Locations
<1>3. Holds(gpu, gpu.api, finalists \cup best, Own, Extra)'
  BY <1>1, NextHolds DEF ResourcesInv, Own, Extra
<1>4. OwnersInv'
  BY <1>1 DEF ResourcesInv, OwnersInv, Closed
<1>5. VariantsInv'
  BY <1>1 DEF ResourcesInv, VariantsInv, Closed
<1> QED
  BY <1>2, <1>3, <1>4, <1>5 DEF ResourcesInv

LEMMA LoadApiStep == ResourcesInv /\ LoadApi => ResourcesInv'
<1> SUFFICES ASSUME ResourcesInv, LoadApi PROVE ResourcesInv'
  OBVIOUS
<1>1. /\ pc = "load" /\ pc' \in {"device", "failed"}
      /\ pc' = "device" => gpu' = CloneApi(gpu, "engine")
      /\ pc' = "failed" => gpu' = gpu
      /\ UNCHANGED <<asked, backend, purpose, build, size, finalists, best>>
  BY DEF LoadApi, tuning
<1>2. KindsInv'
  BY <1>1 DEF ResourcesInv, KindsInv, Locations
<1>3. Holds(gpu, gpu.api, finalists \cup best, {}, {}) /\ gpu.api = {}
  BY <1>1 DEF ResourcesInv, Own, Extra, OwnersInv, Closed
<1>4. /\ Holds(gpu', gpu'.api, finalists' \cup best', {}, {})
      /\ gpu'.context = gpu.context
      /\ gpu'.api = IF pc' = "device" THEN {"engine"} ELSE {}
  <2>1. CASE pc' = "failed"
    BY <1>1, <1>3, <2>1
  <2>2. CASE pc' = "device"
    <3>1. /\ Holds(CloneApi(gpu, "engine"), gpu.api \cup {"engine"}, finalists \cup best, {}, {})
          /\ CloneApi(gpu, "engine").context = gpu.context
      BY <1>3, CloneApiHolds
    <3>2. /\ gpu'.context = gpu.context /\ gpu'.api = {"engine"}
          /\ Holds(gpu', gpu'.api, finalists \cup best, {}, {})
      BY <1>1, <1>3, <2>2, <3>1, ApiHeld
    <3> QED
      BY <1>1, <2>2, <3>2
  <2> QED
    BY <1>1, <2>1, <2>2
<1>5. Holds(gpu, gpu.api, finalists \cup best, Own, Extra)'
  BY <1>1, <1>4, NextHolds DEF Own, Extra
<1>6. OwnersInv'
  BY <1>1, <1>4 DEF ResourcesInv, OwnersInv, Closed
<1>7. VariantsInv'
  BY <1>1 DEF ResourcesInv, VariantsInv, Closed
<1> QED
  BY <1>2, <1>5, <1>6, <1>7 DEF ResourcesInv

LEMMA SelectDeviceStep == ResourcesInv /\ SelectDevice => ResourcesInv'
<1> SUFFICES ASSUME ResourcesInv, SelectDevice PROVE ResourcesInv'
  OBVIOUS
<1>1. /\ pc = "device" /\ Call(gpu) = gpu
      /\ UNCHANGED <<asked, backend, purpose, build, size, finalists, best>>
      /\ finalists = {} /\ best = {}
  BY CallNow DEF SelectDevice, tuning, Closed, ResourcesInv, VariantsInv
<1>2. Holds(gpu, gpu.api, {}, {}, {}) /\ "program" \notin gpu.api /\ gpu.context = "none"
  BY <1>1 DEF ResourcesInv, Own, Extra, OwnersInv
<1>3. CASE Fail(gpu)
  <2>1. KindsInv'
    BY <1>1, <1>3 DEF Fail, ResourcesInv, KindsInv, Locations
  <2> QED
    BY <1>1, <1>2, <1>3, <2>1, FailStep
<1>4. CASE pc' = (IF backend = "cuda" THEN "context" ELSE "buffers") /\ gpu' = gpu
  <2>1. KindsInv'
    BY <1>1, <1>4 DEF ResourcesInv, KindsInv, Locations
  <2>2. Holds(gpu, gpu.api, finalists \cup best, Own, Extra)'
    BY <1>1, <1>2, <1>4, NextHolds DEF Own, Extra
  <2>3. OwnersInv'
    BY <1>1, <1>2, <1>4 DEF ResourcesInv, OwnersInv, Closed
  <2>4. VariantsInv'
    BY <1>1, <1>4 DEF ResourcesInv, VariantsInv, Closed
  <2> QED
    BY <2>1, <2>2, <2>3, <2>4 DEF ResourcesInv
<1> QED
  BY <1>1, <1>3, <1>4 DEF SelectDevice

LEMMA OpenContextStep == ResourcesInv /\ OpenContext => ResourcesInv'
<1> SUFFICES ASSUME ResourcesInv, OpenContext PROVE ResourcesInv'
  OBVIOUS
<1>1. /\ pc = "context" /\ Call(gpu) = gpu
      /\ UNCHANGED <<asked, backend, purpose, build, size, finalists, best>>
      /\ finalists = {} /\ best = {} /\ backend = "cuda"
  BY CallNow DEF OpenContext, tuning, Closed, ResourcesInv, VariantsInv, OwnersInv
<1>2. Holds(gpu, gpu.api, {}, {}, {}) /\ "program" \notin gpu.api /\ gpu.context = "none"
      /\ "engine" \in gpu.api
  BY <1>1 DEF ResourcesInv, Own, Extra, OwnersInv, Closed
<1>3. CASE Fail(gpu)
  <2>1. KindsInv'
    BY <1>1, <1>3 DEF Fail, ResourcesInv, KindsInv, Locations
  <2> QED
    BY <1>1, <1>2, <1>3, <2>1, FailStep
<1>4. CASE pc' = "buffers" /\ gpu' = CreateContext(gpu)
  <2>1. KindsInv'
    BY <1>1, <1>4 DEF ResourcesInv, KindsInv, Locations
  <2>2. Holds(gpu', gpu.api \cup {"context"}, {}, {}, {}) /\ gpu'.context = "live"
    BY <1>2, <1>4, CreateContextHolds
  <2>3. gpu'.api = gpu.api \cup {"context"} /\ Holds(gpu', gpu'.api, {}, {}, {})
    BY <2>2, ApiHeld
  <2>4. Holds(gpu, gpu.api, finalists \cup best, Own, Extra)'
    BY <1>1, <1>4, <2>3, NextHolds DEF Own, Extra
  <2>5. OwnersInv'
    BY <1>1, <1>2, <1>4, <2>2, <2>3 DEF ResourcesInv, OwnersInv, Closed
  <2>6. VariantsInv'
    BY <1>1, <1>4 DEF ResourcesInv, VariantsInv, Closed
  <2> QED
    BY <2>1, <2>4, <2>5, <2>6 DEF ResourcesInv
<1> QED
  BY <1>1, <1>3, <1>4 DEF OpenContext

LEMMA AllocateNextStep == ResourcesInv /\ AllocateNext => ResourcesInv'
<1> SUFFICES ASSUME ResourcesInv, AllocateNext PROVE ResourcesInv'
  OBVIOUS
<1>1. /\ pc = "buffers" /\ Call(gpu) = gpu
      /\ UNCHANGED <<asked, backend, purpose, build, size, finalists, best>>
      /\ finalists = {} /\ best = {}
  BY CallNow DEF AllocateNext, tuning, Closed, ResourcesInv, VariantsInv
<1>2. /\ Holds(gpu, gpu.api, {}, {}, {}) /\ "program" \notin gpu.api /\ gpu.context # "destroyed"
      /\ "engine" \in gpu.api /\ (backend = "hip" => gpu.context = "none")
  BY <1>1 DEF ResourcesInv, Own, Extra, OwnersInv, Closed
<1>3. CASE Fail(gpu)
  <2>1. KindsInv'
    BY <1>1, <1>3 DEF Fail, ResourcesInv, KindsInv, Locations
  <2> QED
    BY <1>1, <1>2, <1>3, <2>1, FailStep
<1>4. ASSUME NEW b \in Buffers, gpu' = Allocate(gpu, b), UNCHANGED pc
      PROVE  ResourcesInv'
  <2>1. KindsInv'
    BY <1>1, <1>4 DEF ResourcesInv, KindsInv
  <2>2. Holds(gpu', gpu.api \cup {b}, {}, {}, {}) /\ gpu'.context = gpu.context
    BY <1>2, <1>4, AllocateHolds
  <2>3. gpu'.api = gpu.api \cup {b} /\ Holds(gpu', gpu'.api, {}, {}, {})
    BY <2>2, ApiHeld
  <2>4. Holds(gpu, gpu.api, finalists \cup best, Own, Extra)'
    BY <1>1, <1>4, <2>3, NextHolds DEF Own, Extra
  <2>5. OwnersInv'
    BY <1>1, <1>2, <1>4, <2>2, <2>3 DEF ResourcesInv, OwnersInv, Closed, Buffers
  <2>6. VariantsInv'
    BY <1>1, <1>4 DEF ResourcesInv, VariantsInv, Closed
  <2> QED
    BY <2>1, <2>4, <2>5, <2>6 DEF ResourcesInv
<1> QED
  BY <1>1, <1>3, <1>4 DEF AllocateNext, Buffers

\* The tuning begins, or its uploads fail.
LEMMA StartTuningStep ==
    ASSUME ResourcesInv, StartTuning, pc \in {"buffers", "tune"}, Buffers \subseteq gpu.api,
           UNCHANGED <<asked, backend, size, finalists, best>>
    PROVE  ResourcesInv'
<1>1. /\ Call(gpu) = gpu /\ finalists = {} /\ best = {}
      /\ purpose' = "tuning" /\ build' = 1
  BY CallNow DEF StartTuning, Closed, ResourcesInv, VariantsInv
<1>2. /\ Holds(gpu, gpu.api, {}, {}, {}) /\ "program" \notin gpu.api /\ gpu.context # "destroyed"
      /\ "engine" \in gpu.api /\ (backend = "hip" => gpu.context = "none")
  BY <1>1 DEF ResourcesInv, Own, Extra, OwnersInv, Closed
<1>3. pc' \in {"program", "failed"} => KindsInv'
  BY <1>1, CountsAssumption DEF ResourcesInv, KindsInv, Locations, Modules
<1>4. CASE Fail(gpu)
  <2>1. KindsInv'
    BY <1>3, <1>4 DEF Fail
  <2> QED
    BY <1>1, <1>2, <1>4, <2>1, FailStep
<1>5. CASE pc' = "program" /\ gpu' = gpu
  <2>1. Holds(gpu, gpu.api, finalists \cup best, Own, Extra)'
    BY <1>1, <1>2, <1>5, NextHolds DEF Own, Extra
  <2>2. OwnersInv'
    BY <1>1, <1>2, <1>5 DEF OwnersInv, Closed
  <2>3. VariantsInv'
    BY <1>1, <1>5 DEF ResourcesInv, VariantsInv, Closed
  <2> QED
    BY <1>3, <1>5, <2>1, <2>2, <2>3 DEF ResourcesInv
<1> QED
  BY <1>1, <1>4, <1>5 DEF StartTuning

LEMMA LoadCachedStep == ResourcesInv /\ LoadCached => ResourcesInv'
<1> SUFFICES ASSUME ResourcesInv, LoadCached PROVE ResourcesInv'
  OBVIOUS
<1>1. /\ pc = "buffers" /\ Buffers \subseteq gpu.api
      /\ UNCHANGED <<asked, backend, size, finalists, best>>
      /\ finalists = {} /\ best = {}
  BY DEF LoadCached, ResourcesInv, VariantsInv
<1>2. CASE StartTuning
  BY <1>1, <1>2, StartTuningStep
<1>3. CASE pc' = "program" /\ purpose' = "cached" /\ build' = 0 /\ UNCHANGED gpu
  <2>1. KindsInv'
    BY <1>1, <1>3, CountsAssumption DEF ResourcesInv, KindsInv, Locations, Modules
  <2>2. Holds(gpu, gpu.api, finalists \cup best, Own, Extra)'
    BY <1>1, <1>3, NextHolds DEF ResourcesInv, Own, Extra
  <2>3. OwnersInv'
    BY <1>1, <1>3 DEF ResourcesInv, OwnersInv, Closed
  <2>4. VariantsInv'
    BY <1>1, <1>3 DEF ResourcesInv, VariantsInv, Closed
  <2> QED
    BY <2>1, <2>2, <2>3, <2>4 DEF ResourcesInv
<1> QED
  BY <1>2, <1>3 DEF LoadCached

LEMMA RetuneStep == ResourcesInv /\ Retune => ResourcesInv'
<1> SUFFICES ASSUME ResourcesInv, Retune PROVE ResourcesInv'
  OBVIOUS
<1>1. /\ pc = "tune" /\ Buffers \subseteq gpu.api /\ StartTuning
      /\ UNCHANGED <<asked, backend, size, finalists, best>>
  BY DEF Retune, ResourcesInv, OwnersInv, Closed
<1> QED
  BY <1>1, StartTuningStep

\* A module could not be built, and no more of it is left.
LEMMA BuildFailedStep ==
    ASSUME ResourcesInv, NEW g, BuildFailed(g), pc \in {"program", "module", "functions"},
           Holds(g, g.api, finalists, {}, {}), g.api = gpu.api \ {"program"}, g.context = gpu.context,
           UNCHANGED <<asked, backend, purpose, build, finalists, best>>, size' \in 1..WorkSizes
    PROVE  ResourcesInv'
<1>1. pc' = (IF purpose = "cached" THEN "tune" ELSE "next") /\ gpu' = g /\ best = {} /\ best' = {}
      /\ finalists' = finalists
  BY DEF BuildFailed, ResourcesInv, VariantsInv
<1>2. KindsInv'
  BY <1>1 DEF ResourcesInv, KindsInv, Locations
<1>3. finalists' \cup best' = finalists
  BY <1>1
<1>4. Holds(gpu', gpu'.api, finalists' \cup best', {}, {})
  BY <1>1, <1>3
<1>5. Holds(gpu, gpu.api, finalists \cup best, Own, Extra)'
  BY <1>1, <1>4, NextHolds DEF Own, Extra
<1>6. OwnersInv'
  BY <1>1 DEF ResourcesInv, OwnersInv, Closed, Buffers
<1>7. \A v \in finalists : v[1] < build /\ v[1] <= build
  <2>1. \A v \in finalists : v[1] < build
    BY DEF ResourcesInv, VariantsInv
  <2>2. finalists \subseteq Variants
    BY DEF Holds, Gpu
  <2>3. \A v \in Variants : v[1] \in Int
    BY CountsAssumption DEF Variants, Modules
  <2>4. build \in Int
    BY CountsAssumption DEF ResourcesInv, KindsInv, Modules
  <2> QED
    BY <2>1, <2>2, <2>3, <2>4
<1>8. VariantsInv'
  BY <1>1, <1>7 DEF ResourcesInv, VariantsInv, KindsInv, Closed
<1> QED
  BY <1>2, <1>5, <1>6, <1>8 DEF ResourcesInv

LEMMA CompileStep == ResourcesInv /\ Compile => ResourcesInv'
<1> SUFFICES ASSUME ResourcesInv, Compile PROVE ResourcesInv'
  OBVIOUS
<1> DEFINE created == CreateProgram(gpu)
<1>1. /\ pc = "program" /\ Call(gpu) = gpu /\ best = {}
      /\ UNCHANGED <<asked, backend, purpose, build, size, finalists, best>>
  BY CallNow DEF Compile, tuning, Closed, ResourcesInv, VariantsInv
<1>2. /\ Holds(gpu, gpu.api, finalists, {}, {}) /\ "program" \notin gpu.api
      /\ size \in 1..WorkSizes
  BY <1>1 DEF ResourcesInv, Own, Extra, OwnersInv, KindsInv
<1>3. /\ Holds(created, gpu.api \cup {"program"}, finalists, {}, {})
      /\ created.context = gpu.context
  <2>1. created = CloneApi(gpu, "program")
    BY <1>1 DEF CreateProgram
  <2>2. /\ Holds(CloneApi(gpu, "program"), gpu.api \cup {"program"}, finalists, {}, {})
        /\ CloneApi(gpu, "program").context = gpu.context
    BY <1>2, CloneApiHolds
  <2> QED
    BY <2>1, <2>2
<1> HIDE DEF created
<1>4. created.api = gpu.api \cup {"program"} /\ Holds(created, created.api, finalists, {}, {})
  BY <1>3, ApiHeld
<1>5. CASE BuildFailed(Call(gpu))
  <2>1. BuildFailed(gpu) /\ gpu.api = gpu.api \ {"program"}
    BY <1>1, <1>2, <1>5
  <2> QED
    BY <1>1, <1>2, <2>1, BuildFailedStep
<1>6. CASE BuildFailed(DropProgram(created))
  <2> DEFINE dropped == DropProgram(created)
  <2>1. Call(created) = created
    BY <1>4, CallFinds DEF Holds, Open
  <2>2. dropped = DropApi(created, "program")
    BY <2>1 DEF DropProgram
  <2>3. /\ Holds(dropped, created.api \ {"program"}, finalists, {}, {})
        /\ dropped.context = created.context
    <3>1. /\ Holds(DropApi(created, "program"), created.api \ {"program"}, finalists, {}, {})
          /\ DropApi(created, "program").context = created.context
      BY <1>4, DropApiHolds
    <3> QED
      BY <2>2, <3>1
  <2> HIDE DEF dropped
  <2>4. /\ dropped.api = gpu.api \ {"program"} /\ Holds(dropped, dropped.api, finalists, {}, {})
        /\ dropped.context = gpu.context
    BY <1>2, <1>3, <1>4, <2>3, ApiHeld
  <2> QED
    BY <1>1, <1>2, <1>6, <2>4, BuildFailedStep DEF dropped
<1>7. CASE pc' = "module" /\ gpu' = created
  <2>1. KindsInv'
    BY <1>1, <1>7 DEF ResourcesInv, KindsInv, Locations
  <2>2. finalists' \cup best' = finalists
    BY <1>1
  <2>3. Holds(gpu, gpu.api, finalists \cup best, Own, Extra)'
    BY <1>4, <1>7, <2>2, NextHolds DEF Own, Extra
  <2>4. OwnersInv'
    BY <1>1, <1>3, <1>4, <1>7 DEF ResourcesInv, OwnersInv, Closed
  <2>5. VariantsInv'
    BY <1>1, <1>7 DEF ResourcesInv, VariantsInv, Closed
  <2> QED
    BY <2>1, <2>3, <2>4, <2>5 DEF ResourcesInv
<1> QED
  BY <1>5, <1>6, <1>7 DEF Compile, created

\* No variant is of the module that is being built.
LEMMA BuildIsNew ==
    ASSUME ResourcesInv, pc \in {"program", "module", "functions"}
    PROVE  SizesOf(finalists, build) = {} /\ best = {}
<1>1. \A v \in finalists : v[1] < build
  BY DEF ResourcesInv, VariantsInv
<1>2. build \in Int
  BY CountsAssumption DEF ResourcesInv, KindsInv, Modules
<1>3. best = {}
  BY DEF ResourcesInv, VariantsInv
<1>4. \A s : <<build, s>> \notin finalists
  BY <1>1, <1>2
<1> QED
  BY <1>3, <1>4 DEF SizesOf

LEMMA LoadOnDeviceStep == ResourcesInv /\ LoadOnDevice => ResourcesInv'
<1> SUFFICES ASSUME ResourcesInv, LoadOnDevice PROVE ResourcesInv'
  OBVIOUS
<1> DEFINE g == DropProgram(gpu)
           h == LoadModule(g, build)
<1>1. /\ pc = "module" /\ Call(gpu) = gpu /\ best = {} /\ SizesOf(finalists, build) = {}
      /\ UNCHANGED <<asked, backend, purpose, build, size, finalists, best>>
  BY CallNow, BuildIsNew DEF LoadOnDevice, tuning, Closed
<1>2. /\ Holds(gpu, gpu.api, finalists, {}, {}) /\ "engine" \in gpu.api
      /\ size \in 1..WorkSizes /\ build \in Modules /\ gpu.context # "destroyed"
  BY <1>1 DEF ResourcesInv, Own, Extra, OwnersInv, KindsInv, Closed
<1>3. /\ Holds(g, gpu.api \ {"program"}, finalists, {}, {})
      /\ g.context = gpu.context
  <2>1. g = DropApi(gpu, "program")
    BY <1>1 DEF DropProgram
  <2>2. /\ Holds(DropApi(gpu, "program"), gpu.api \ {"program"}, finalists, {}, {})
        /\ DropApi(gpu, "program").context = gpu.context
    BY <1>2, DropApiHolds
  <2> QED
    BY <2>1, <2>2
<1> HIDE DEF g
<1>4. g.api = gpu.api \ {"program"} /\ Holds(g, g.api, finalists, {}, {}) /\ "engine" \in g.api
  BY <1>2, <1>3, ApiHeld
<1>5. CASE BuildFailed(Call(g))
  <2>1. BuildFailed(g)
    BY <1>4, <1>5, CallFinds DEF Holds, Open
  <2> QED
    BY <1>1, <1>2, <1>3, <1>4, <2>1, BuildFailedStep
<1>6. CASE pc' = "functions" /\ gpu' = h
  <2>1. /\ Holds(h, g.api, finalists, {}, {build}) /\ h.context = gpu.context
    BY <1>2, <1>3, <1>4, LoadModuleHolds
  <2> HIDE DEF h
  <2>2. h.api = g.api /\ Holds(h, h.api, finalists, {}, {build})
    BY <2>1, ApiHeld
  <2>3. KindsInv'
    BY <1>1, <1>6 DEF ResourcesInv, KindsInv, Locations
  <2>4. finalists' \cup best' = finalists
    BY <1>1
  <2>5. Holds(gpu, gpu.api, finalists \cup best, Own, Extra)'
    BY <1>1, <1>6, <2>2, <2>4, NextHolds DEF Own, Extra
  <2>6. OwnersInv'
    BY <1>1, <1>4, <1>6, <2>1, <2>2 DEF ResourcesInv, OwnersInv, Closed, Buffers
  <2>7. VariantsInv'
    BY <1>1, <1>6 DEF ResourcesInv, VariantsInv, Closed
  <2> QED
    BY <2>3, <2>5, <2>6, <2>7 DEF ResourcesInv
<1> QED
  BY <1>5, <1>6 DEF LoadOnDevice, g

LEMMA FunctionsStep == ResourcesInv /\ Functions => ResourcesInv'
<1> SUFFICES ASSUME ResourcesInv, Functions PROVE ResourcesInv'
  OBVIOUS
<1>1. /\ pc = "functions" /\ Call(gpu) = gpu /\ best = {} /\ SizesOf(finalists, build) = {}
      /\ UNCHANGED <<asked, backend, purpose, build, finalists, best>> /\ size' = 1
  BY CallNow, BuildIsNew DEF Functions, Closed
<1>2. /\ Holds(gpu, gpu.api, finalists, {}, {build}) /\ "engine" \in gpu.api
      /\ "program" \notin gpu.api
      /\ size' \in 1..WorkSizes /\ build \in Modules /\ gpu.context # "destroyed"
  BY <1>1, CountsAssumption DEF ResourcesInv, Own, Extra, OwnersInv, KindsInv, Closed
<1>3. CASE BuildFailed(UnloadAfterError(Call(gpu)))
  <2> DEFINE g == UnloadModule(gpu, build)
  <2>1. BuildFailed(g)
    BY <1>1, <1>3 DEF UnloadAfterError
  <2>2. Holds(g, gpu.api, finalists, {}, {}) /\ g.context = gpu.context
    BY <1>1, <1>2, UnloadHolds
  <2> HIDE DEF g
  <2>3. g.api = gpu.api \ {"program"} /\ Holds(g, g.api, finalists, {}, {})
    BY <1>2, <2>2, ApiHeld
  <2> QED
    BY <1>1, <1>2, <2>1, <2>2, <2>3, BuildFailedStep
<1>4. CASE /\ gpu' = NewModule(Call(gpu), build)
           /\ pc' = IF purpose = "tuning" THEN "measure" ELSE "keep"
  <2>1. Holds(gpu', gpu.api, finalists, {build}, {}) /\ gpu'.context = gpu.context
    BY <1>1, <1>2, <1>4, NewModuleHolds
  <2>2. gpu'.api = gpu.api /\ Holds(gpu', gpu'.api, finalists, {build}, {})
    BY <2>1, ApiHeld
  <2>3. KindsInv'
    BY <1>1, <1>2, <1>4 DEF ResourcesInv, KindsInv, Locations
  <2>4. finalists' \cup best' = finalists
    BY <1>1
  <2>5. Holds(gpu, gpu.api, finalists \cup best, Own, Extra)'
    BY <1>1, <1>4, <2>2, <2>4, NextHolds DEF Own, Extra
  <2>6. OwnersInv'
    BY <1>1, <1>2, <1>4, <2>1, <2>2 DEF ResourcesInv, OwnersInv, Closed
  <2>7. VariantsInv'
    BY <1>1, <1>4 DEF ResourcesInv, VariantsInv, KindsInv, Closed
  <2> QED
    BY <2>3, <2>5, <2>6, <2>7 DEF ResourcesInv
<1> QED
  BY <1>3, <1>4 DEF Functions

\* The cached variant takes over the only other clone of its module.
LEMMA KeepStep == ResourcesInv /\ Keep => ResourcesInv'
<1> SUFFICES ASSUME ResourcesInv, Keep PROVE ResourcesInv'
  OBVIOUS
<1> DEFINE v == <<build, size>>
           g == NewVariant(gpu, v)
<1>1. /\ pc = "keep" /\ pc' = "run" /\ finalists = {} /\ best = {} /\ best' = {v}
      /\ gpu' = DropModule(g, build, 0)
      /\ UNCHANGED <<asked, backend, purpose, build, size, finalists>>
  BY DEF Keep, ResourcesInv, VariantsInv
<1>2. /\ Holds(gpu, gpu.api, {}, {build}, {}) /\ build \in Modules /\ size \in 1..WorkSizes
  BY <1>1 DEF ResourcesInv, Own, Extra, KindsInv
<1>3. Holds(g, gpu.api, {} \cup {v}, {build}, {}) /\ g.context = gpu.context
  BY <1>2, NewVariantHolds
<1> HIDE DEF g
<1>4. Holds(g, gpu.api, {v}, {build}, {})
  BY <1>3
<1> HIDE DEF v
<1>5. Holds(gpu', gpu.api, {v}, {}, {}) /\ gpu'.context = gpu.context
  BY <1>1, <1>2, <1>3, <1>4, DropBuiltHolds
<1>6. gpu'.api = gpu.api /\ Holds(gpu', gpu'.api, {v}, {}, {})
  BY <1>5, ApiHeld
<1>7. KindsInv'
  BY <1>1 DEF ResourcesInv, KindsInv, Locations
<1>8. finalists' \cup best' = {v} /\ finalists' = {} /\ best' = {v}
  BY <1>1
<1>9. Holds(gpu, gpu.api, finalists \cup best, Own, Extra)'
  BY <1>1, <1>6, <1>8, NextHolds DEF Own, Extra
<1>10. OwnersInv'
  BY <1>1, <1>5, <1>6 DEF ResourcesInv, OwnersInv, Closed
<1>11. IsFiniteSet({v}) /\ Cardinality({v}) = 1 /\ 1 <= FINALIST_COUNT
  BY FS_Singleton, CountsAssumption
<1>12. VariantsInv'
  BY <1>1, <1>8, <1>11 DEF ResourcesInv, VariantsInv, Closed
<1> QED
  BY <1>7, <1>9, <1>10, <1>12 DEF ResourcesInv

LEMMA BuiltStep == ResourcesInv /\ Built => ResourcesInv'
<1> SUFFICES ASSUME ResourcesInv, Built PROVE ResourcesInv'
  OBVIOUS
<1>1. /\ pc = "built" /\ pc' = "next" /\ gpu' = DropModule(gpu, build, 0)
      /\ UNCHANGED <<asked, backend, purpose, build, size, finalists, best>>
  BY DEF Built, tuning, DropBuild
<1>2. Holds(gpu, gpu.api, finalists \cup best, {build}, {}) /\ build \in Modules
  BY <1>1 DEF ResourcesInv, Own, Extra, KindsInv
<1>3. Holds(gpu', gpu.api, finalists \cup best, {}, {}) /\ gpu'.context = gpu.context
  BY <1>1, <1>2, DropBuiltHolds
<1>4. gpu'.api = gpu.api /\ Holds(gpu', gpu'.api, finalists \cup best, {}, {})
  BY <1>3, ApiHeld
<1>5. KindsInv'
  BY <1>1 DEF ResourcesInv, KindsInv, Locations
<1>6. Holds(gpu, gpu.api, finalists \cup best, Own, Extra)'
  BY <1>1, <1>4, NextHolds DEF Own, Extra
<1>7. OwnersInv'
  BY <1>1, <1>3, <1>4 DEF ResourcesInv, OwnersInv, Closed
<1>8. VariantsInv'
  BY <1>1 DEF ResourcesInv, VariantsInv, Closed
<1> QED
  BY <1>5, <1>6, <1>7, <1>8 DEF ResourcesInv

LEMMA NextBuildStep == ResourcesInv /\ NextBuild => ResourcesInv'
<1> SUFFICES ASSUME ResourcesInv, NextBuild PROVE ResourcesInv'
  OBVIOUS
<1>1. /\ pc = "next" /\ UNCHANGED <<asked, backend, gpu, purpose, size, finalists, best>>
      /\ \/ build < Builds /\ build' = build + 1 /\ pc' = "program"
         \/ pc' = "sustain" /\ build' = build
  BY DEF NextBuild
<1>2. build \in Int /\ build \in Modules /\ Builds \in Nat
  BY CountsAssumption DEF ResourcesInv, KindsInv, Modules
<1>3. KindsInv'
  BY <1>1, <1>2 DEF ResourcesInv, KindsInv, Locations, Modules
<1>4. Holds(gpu, gpu.api, finalists \cup best, Own, Extra)'
  BY <1>1, NextHolds DEF ResourcesInv, Own, Extra
<1>5. OwnersInv'
  BY <1>1 DEF ResourcesInv, OwnersInv, Closed
<1>6. \A v \in finalists : v[1] <= build /\ v[1] \in Int
  <2>1. \A v \in finalists : v[1] <= build
    BY <1>1 DEF ResourcesInv, VariantsInv
  <2>2. finalists \subseteq Variants
    BY DEF ResourcesInv, Holds, Gpu
  <2>3. \A v \in Variants : v[1] \in Int
    BY CountsAssumption DEF Variants, Modules
  <2> QED
    BY <2>1, <2>2, <2>3
<1>7. \A v \in finalists : v[1] < build + 1
  BY <1>2, <1>6
<1>8. VariantsInv'
  BY <1>1, <1>7 DEF ResourcesInv, VariantsInv, Closed
<1> QED
  BY <1>3, <1>4, <1>5, <1>8 DEF ResourcesInv

\* What is known of a variant: its module is on the device while the engine lives.
LEMMA VariantLoaded ==
    ASSUME NEW g, NEW api, NEW vs, NEW own, Holds(g, api, vs, own, {}), g.context # "destroyed",
           NEW v \in vs
    PROVE  v[1] \in g.loaded
<1>1. v \in Variants
  BY DEF Holds, Gpu
<1>2. PICK m \in Modules, s \in 1..WorkSizes : v = <<m, s>>
  BY <1>1 DEF Variants
<1>3. s \in SizesOf(vs, m)
  BY <1>2 DEF SizesOf
<1>4. m \in g.modules
  BY <1>3 DEF Holds
<1> QED
  BY <1>2, <1>4 DEF Holds

LEMMA DropBestHolds ==
    ASSUME NEW g, NEW api, NEW vs, Holds(g, api, vs, {}, {}), best \subseteq vs,
           \A v, w \in best : v = w
    PROVE  /\ Holds(DropBest(g), api, vs \ best, {}, {})
           /\ DropBest(g).context = g.context
<1>1. CASE best = {}
  <2>1. vs \ best = vs
    BY <1>1
  <2> QED
    BY <1>1, <2>1 DEF DropBest
<1>2. CASE best # {}
  <2>1. PICK v \in best : v = CHOOSE w \in best : TRUE
    BY <1>2
  <2>2. DropBest(g) = DropVariant(g, v)
    BY <1>2, <2>1 DEF DropBest
  <2>3. best = {v}
    OBVIOUS
  <2>4. /\ Holds(DropVariant(g, v), api, vs \ {v}, {}, {})
        /\ DropVariant(g, v).context = g.context
    BY DropVariantHolds
  <2> QED
    BY <2>2, <2>3, <2>4
<1> QED
  BY <1>1, <1>2

\* One variant more, of which one is dropped at once or all the finalists are
\* kept that there is room for.
LEMMA MeasureStep == ResourcesInv /\ Measure => ResourcesInv'
<1> SUFFICES ASSUME ResourcesInv, Measure PROVE ResourcesInv'
  OBVIOUS
<1> DEFINE v == <<build, size>>
           new == NewVariant(gpu, v)
           all == finalists \cup {v}
<1>1. /\ pc = "measure" /\ best = {} /\ best' = {}
      /\ UNCHANGED <<asked, backend, purpose, build>>
      /\ \/ size < WorkSizes /\ size' = size + 1 /\ pc' = "measure"
         \/ size' = size /\ pc' = "built"
  BY DEF Measure, ResourcesInv, VariantsInv
<1>2. /\ Holds(gpu, gpu.api, finalists, {build}, {})
      /\ build \in Modules /\ size \in 1..WorkSizes /\ build \in Int /\ size \in Int
      /\ gpu.context # "destroyed" /\ Buffers \subseteq gpu.api
  BY <1>1, CountsAssumption DEF ResourcesInv, Own, Extra, KindsInv, OwnersInv, Closed, Modules
<1>3. /\ Holds(new, gpu.api, all, {build}, {}) /\ new.context = gpu.context
  BY <1>2, NewVariantHolds
<1>4. v[1] = build /\ v[2] = size /\ v \in all
  OBVIOUS
<1>5. Launch(new, build) = new
  <2>1. v[1] \in new.loaded
    <3> HIDE DEF v, new
    <3> QED
      BY <1>2, <1>3, <1>4, VariantLoaded
  <2> HIDE DEF v, new
  <2> QED
    BY <1>2, <1>3, <1>4, <2>1, LaunchHolds
<1> HIDE DEF new, v
<1>6. v \notin finalists
  BY <1>1, <1>2, <1>4 DEF ResourcesInv, VariantsInv
<1>7. IsFiniteSet(finalists) /\ Cardinality(finalists) <= FINALIST_COUNT
  BY <1>1 DEF ResourcesInv, VariantsInv
<1>8. IsFiniteSet(all) /\ Cardinality(all) = Cardinality(finalists) + 1 /\ Cardinality(finalists) \in Nat
  BY <1>6, <1>7, FS_AddElement, FS_CardinalityType
<1> DEFINE Kept == /\ Holds(gpu', gpu.api, finalists', {build}, {}) /\ gpu'.context = gpu.context
                   /\ finalists' \subseteq all
                   /\ IsFiniteSet(finalists') /\ Cardinality(finalists') <= FINALIST_COUNT
<1>9. Kept
  <2>1. CASE gpu' = DropVariant(new, v) /\ UNCHANGED finalists
    <3>1. /\ Holds(DropVariant(new, v), gpu.api, all \ {v}, {build}, {})
          /\ DropVariant(new, v).context = new.context
      BY <1>3, <1>4, DropVariantHolds
    <3>2. all \ {v} = finalists
      BY <1>6
    <3> QED
      BY <1>3, <1>7, <2>1, <3>1, <3>2
  <2>2. CASE ~ Overfull(all) /\ gpu' = new /\ finalists' = all
    BY <1>3, <1>8, <2>2, CountsAssumption DEF Overfull
  <2>3. ASSUME NEW last \in all, gpu' = DropVariant(new, last), finalists' = all \ {last}
        PROVE  Kept
    <3>1. /\ Holds(DropVariant(new, last), gpu.api, all \ {last}, {build}, {})
          /\ DropVariant(new, last).context = new.context
      BY <1>3, DropVariantHolds
    <3>2. IsFiniteSet(all \ {last}) /\ Cardinality(all \ {last}) = Cardinality(all) - 1
      BY <1>8, FS_RemoveElement
    <3> QED
      BY <1>3, <1>7, <1>8, <2>3, <3>1, <3>2, CountsAssumption
  <2> QED
    BY <1>5, <2>1, <2>2, <2>3 DEF Measure, v, new
<1>10. gpu'.api = gpu.api /\ Holds(gpu', gpu'.api, finalists', {build}, {})
  BY <1>9, ApiHeld
<1>11. KindsInv'
  BY <1>1, <1>2, CountsAssumption DEF ResourcesInv, KindsInv, Locations
<1>12. finalists' \cup best' = finalists'
  BY <1>1
<1>13. Holds(gpu, gpu.api, finalists \cup best, Own, Extra)'
  BY <1>1, <1>10, <1>12, NextHolds DEF Own, Extra
<1>14. OwnersInv'
  BY <1>1, <1>9, <1>10 DEF ResourcesInv, OwnersInv, Closed
<1>15. /\ \A w \in all : w[1] <= build
       /\ \A w \in all : w[1] < build \/ (w[1] = build /\ w[2] < size + 1)
  <2>1. \A w \in finalists : w[1] < build \/ (w[1] = build /\ w[2] < size)
    BY <1>1 DEF ResourcesInv, VariantsInv
  <2>2. \A w \in finalists : w[1] \in Int /\ w[2] \in Int
    <3>1. finalists \subseteq Variants
      BY <1>2 DEF Holds, Gpu
    <3>2. \A w \in Variants : w[1] \in Int /\ w[2] \in Int
      BY CountsAssumption DEF Variants, Modules
    <3> QED
      BY <3>1, <3>2
  <2> QED
    BY <1>2, <1>4, <2>1, <2>2
<1>16. VariantsInv'
  <2>1. build' = build
    BY <1>1
  <2>2. purpose' = "tuning" /\ pc' \in {"measure", "built"} /\ best' = {}
    BY <1>1 DEF ResourcesInv, VariantsInv
  <2>3. finalists' \subseteq all
    BY <1>9
  <2>4. IsFiniteSet(finalists' \cup best') /\ Cardinality(finalists' \cup best') <= FINALIST_COUNT
    BY <1>9, <1>12
  <2> HIDE DEF Kept, all
  <2>5. pc' = "measure" => \A w \in finalists' : w[1] < build' \/ (w[1] = build' /\ w[2] < size')
    BY <1>1, <1>15, <2>3
  <2>6. \A w \in finalists' : w[1] <= build'
    BY <1>15, <2>1, <2>3, Zenon
  <2> QED
    BY <2>2, <2>4, <2>5, <2>6 DEF VariantsInv, Closed
<1> QED
  BY <1>11, <1>13, <1>14, <1>16 DEF ResourcesInv

\* Steps that drop variants of which the others are kept, at the end of the tuning.
LEMMA FewerVariants ==
    ASSUME ResourcesInv, pc \in {"sustain", "unwind"}, pc' \in {"sustain", "unwind"},
           UNCHANGED <<asked, backend, purpose, build, size>>,
           Holds(gpu', gpu.api, finalists' \cup best', {}, {}), gpu'.context = gpu.context,
           finalists' \subseteq finalists, best' \subseteq finalists \cup best,
           finalists' \cap best' = {}, \A v, w \in best' : v = w
    PROVE  ResourcesInv'
<1>1. gpu'.api = gpu.api /\ Holds(gpu', gpu'.api, finalists' \cup best', {}, {})
  BY ApiHeld
<1>2. KindsInv'
  BY DEF ResourcesInv, KindsInv, Locations
<1>3. Holds(gpu, gpu.api, finalists \cup best, Own, Extra)'
  BY <1>1, NextHolds DEF Own, Extra
<1>4. OwnersInv'
  BY <1>1 DEF ResourcesInv, OwnersInv, Closed
<1>5. /\ IsFiniteSet(finalists \cup best) /\ Cardinality(finalists \cup best) <= FINALIST_COUNT
      /\ purpose = "cached" => finalists = {}
  BY DEF ResourcesInv, VariantsInv
<1>6. finalists' \cup best' \in SUBSET (finalists \cup best)
  OBVIOUS
<1>7. /\ IsFiniteSet(finalists' \cup best')
      /\ Cardinality(finalists' \cup best') <= Cardinality(finalists \cup best)
  BY <1>5, <1>6, FS_Subset
<1>8. IsFiniteSet(finalists' \cup best') /\ Cardinality(finalists' \cup best') <= FINALIST_COUNT
  BY <1>5, <1>7, FS_CardinalityType, CountsAssumption
<1>9. VariantsInv'
  BY <1>5, <1>8 DEF VariantsInv, Closed
<1> QED
  BY <1>2, <1>3, <1>4, <1>9 DEF ResourcesInv

LEMMA SustainStep == ResourcesInv /\ Sustain => ResourcesInv'
<1> SUFFICES ASSUME ResourcesInv, Sustain PROVE ResourcesInv'
  OBVIOUS
<1> DEFINE vs == finalists \cup best
<1>1. /\ pc = "sustain" /\ UNCHANGED <<asked, backend, purpose, build, size>>
      /\ Holds(gpu, gpu.api, vs, {}, {}) /\ gpu.context # "destroyed"
      /\ Buffers \subseteq gpu.api /\ finalists \cap best = {} /\ \A v, w \in best : v = w
  BY DEF Sustain, ResourcesInv, Own, Extra, OwnersInv, VariantsInv, Closed
<1>2. PICK v \in finalists :
          LET g == Launch(gpu, v[1])
          IN  \/ pc' = "unwind" /\ gpu' = g /\ UNCHANGED <<finalists, best>>
              \/ /\ best' = {v} /\ gpu' = DropBest(g)
                 /\ finalists' = finalists \ {v} /\ UNCHANGED pc
              \/ /\ best # {} /\ gpu' = DropVariant(g, v)
                 /\ finalists' = finalists \ {v} /\ UNCHANGED <<pc, best>>
  BY DEF Sustain
<1>3. Launch(gpu, v[1]) = gpu
  BY <1>1, VariantLoaded, LaunchHolds
<1>4. CASE pc' = "unwind" /\ gpu' = gpu /\ UNCHANGED <<finalists, best>>
  BY <1>1, <1>4, FewerVariants
<1>5. CASE /\ best' = {v} /\ gpu' = DropBest(gpu)
           /\ finalists' = finalists \ {v} /\ UNCHANGED pc
  <2>1. Holds(gpu', gpu.api, vs \ best, {}, {}) /\ gpu'.context = gpu.context
    BY <1>1, <1>5, DropBestHolds
  <2>2. vs \ best = finalists' \cup best'
    BY <1>1, <1>5
  <2>3. Holds(gpu', gpu.api, finalists' \cup best', {}, {})
    BY <2>1, <2>2
  <2> QED
    BY <1>1, <1>5, <2>1, <2>3, FewerVariants
<1>6. CASE /\ gpu' = DropVariant(gpu, v)
           /\ finalists' = finalists \ {v} /\ UNCHANGED <<pc, best>>
  <2>1. Holds(gpu', gpu.api, vs \ {v}, {}, {}) /\ gpu'.context = gpu.context
    BY <1>1, <1>6, DropVariantHolds
  <2>2. vs \ {v} = finalists' \cup best'
    BY <1>1, <1>6
  <2>3. Holds(gpu', gpu.api, finalists' \cup best', {}, {})
    BY <2>1, <2>2
  <2> QED
    BY <1>1, <1>6, <2>1, <2>3, FewerVariants
<1> QED
  BY <1>2, <1>3, <1>4, <1>5, <1>6

LEMMA UnwindStep == ResourcesInv /\ Unwind => ResourcesInv'
<1> SUFFICES ASSUME ResourcesInv, Unwind PROVE ResourcesInv'
  OBVIOUS
<1> DEFINE vs == finalists \cup best
<1>1. /\ pc = "unwind" /\ UNCHANGED <<asked, backend, purpose, build, size>>
      /\ Holds(gpu, gpu.api, vs, {}, {}) /\ "program" \notin gpu.api
      /\ (backend = "hip" => gpu.context = "none")
      /\ finalists \cap best = {} /\ \A v, w \in best : v = w
  BY DEF Unwind, ResourcesInv, Own, Extra, OwnersInv, VariantsInv, Closed
<1>2. ASSUME NEW v \in finalists, gpu' = DropVariant(gpu, v), finalists' = finalists \ {v},
             UNCHANGED <<pc, best>>
      PROVE  ResourcesInv'
  <2>1. Holds(gpu', gpu.api, vs \ {v}, {}, {}) /\ gpu'.context = gpu.context
    BY <1>1, <1>2, DropVariantHolds
  <2>2. vs \ {v} = finalists' \cup best'
    BY <1>1, <1>2
  <2>3. Holds(gpu', gpu.api, finalists' \cup best', {}, {})
    BY <2>1, <2>2
  <2> QED
    BY <1>1, <1>2, <2>1, <2>3, FewerVariants
<1>3. CASE gpu' = DropBest(gpu) /\ best' = {} /\ UNCHANGED <<pc, finalists>>
  <2>1. Holds(gpu', gpu.api, vs \ best, {}, {}) /\ gpu'.context = gpu.context
    BY <1>1, <1>3, DropBestHolds
  <2>2. vs \ best = finalists' \cup best'
    BY <1>1, <1>3
  <2>3. Holds(gpu', gpu.api, finalists' \cup best', {}, {})
    BY <2>1, <2>2
  <2> QED
    BY <1>1, <1>3, <2>1, <2>3, FewerVariants
<1>4. CASE finalists \cup best = {} /\ Fail(gpu) /\ UNCHANGED <<finalists, best>>
  <2>1. KindsInv'
    BY <1>1, <1>4 DEF Fail, ResourcesInv, KindsInv, Locations
  <2>2. Holds(gpu, gpu.api, {}, {}, {}) /\ finalists = {} /\ best = {}
    BY <1>1, <1>4
  <2> QED
    BY <1>1, <1>4, <2>1, <2>2, FailStep
<1> QED
  BY <1>2, <1>3, <1>4 DEF Unwind

LEMMA ConcludeStep == ResourcesInv /\ Conclude => ResourcesInv'
<1> SUFFICES ASSUME ResourcesInv, Conclude PROVE ResourcesInv'
  OBVIOUS
<1>1. /\ pc = "sustain" /\ UNCHANGED <<asked, backend, purpose, build, size, finalists, best>>
      /\ finalists = {}
      /\ Holds(gpu, gpu.api, finalists \cup best, {}, {}) /\ "program" \notin gpu.api
      /\ (backend = "hip" => gpu.context = "none")
  BY DEF Conclude, tuning, ResourcesInv, Own, Extra, OwnersInv
<1>2. CASE best = {} /\ Fail(gpu)
  <2>1. KindsInv'
    BY <1>1, <1>2 DEF Fail, ResourcesInv, KindsInv, Locations
  <2>2. Holds(gpu, gpu.api, {}, {}, {})
    BY <1>1, <1>2
  <2> QED
    BY <1>1, <1>2, <2>1, <2>2, FailStep
<1>3. CASE best # {} /\ pc' = "run" /\ UNCHANGED gpu
  <2>1. KindsInv'
    BY <1>1, <1>3 DEF ResourcesInv, KindsInv, Locations
  <2>2. Holds(gpu, gpu.api, finalists \cup best, Own, Extra)'
    BY <1>1, <1>3, NextHolds DEF Own, Extra
  <2>3. OwnersInv'
    BY <1>1, <1>3 DEF ResourcesInv, OwnersInv, Closed
  <2>4. VariantsInv'
    BY <1>1, <1>3 DEF ResourcesInv, VariantsInv, Closed
  <2> QED
    BY <2>1, <2>2, <2>3, <2>4 DEF ResourcesInv
<1> QED
  BY <1>2, <1>3 DEF Conclude

LEMMA LaunchBestStep == ResourcesInv /\ LaunchBest => ResourcesInv'
<1> SUFFICES ASSUME ResourcesInv, LaunchBest PROVE ResourcesInv'
  OBVIOUS
<1>1. /\ pc = "run" /\ UNCHANGED <<asked, backend, pc, purpose, build, size, finalists, best>>
      /\ Holds(gpu, gpu.api, finalists \cup best, {}, {}) /\ gpu.context # "destroyed"
      /\ Buffers \subseteq gpu.api
  BY DEF LaunchBest, tuning, ResourcesInv, Own, Extra, OwnersInv, Closed
<1>2. PICK v \in best : gpu' = Launch(gpu, v[1])
  BY DEF LaunchBest
<1>3. v[1] \in gpu.loaded
  BY <1>1, VariantLoaded
<1>4. gpu' = gpu
  BY <1>1, <1>2, <1>3, LaunchHolds
<1>5. KindsInv'
  BY <1>1 DEF ResourcesInv, KindsInv
<1>6. Holds(gpu, gpu.api, finalists \cup best, Own, Extra)'
  BY <1>1, <1>4, NextHolds DEF Own, Extra
<1>7. OwnersInv'
  BY <1>1, <1>4 DEF ResourcesInv, OwnersInv
<1>8. VariantsInv'
  BY <1>1 DEF ResourcesInv, VariantsInv
<1> QED
  BY <1>5, <1>6, <1>7, <1>8 DEF ResourcesInv

\* The context goes before the buffers and the module, and takes them along.
LEMMA DropEngineStep == ResourcesInv /\ DropEngine => ResourcesInv'
<1> SUFFICES ASSUME ResourcesInv, DropEngine PROVE ResourcesInv'
  OBVIOUS
<1> DEFINE a == DropApi(gpu, "engine")
           b == DropContext(a)
           c == DropBuffer(b, "base_words")
           d == DropBuffer(c, "best_timestamp")
           e == DropBuffer(d, "prefixes")
           api == (gpu.api \ {"engine"}) \ {"context"}
           rest == ((api \ {"base_words"}) \ {"best_timestamp"}) \ {"prefixes"}
<1>1. /\ pc = "run" /\ pc' = "end" /\ best' = {} /\ finalists' = {}
      /\ gpu' = DropBest(e)
      /\ UNCHANGED <<asked, backend, purpose, build, size>>
  BY DEF DropEngine, ResourcesInv, VariantsInv
<1>2. /\ Holds(gpu, gpu.api, best, {}, {}) /\ "program" \notin gpu.api
      /\ (backend = "hip" => gpu.context = "none") /\ \A v, w \in best : v = w
  <2>1. finalists \cup best = best
    BY <1>1 DEF ResourcesInv, VariantsInv
  <2> QED
    BY <1>1, <2>1 DEF ResourcesInv, Own, Extra, OwnersInv, VariantsInv
<1>3. Holds(a, gpu.api \ {"engine"}, best, {}, {}) /\ a.context = gpu.context
  BY <1>2, DropApiHolds
<1> HIDE DEF a
<1>4. /\ Holds(b, api, best, {}, {})
      /\ b.context = IF "context" \in gpu.api \ {"engine"} THEN "destroyed" ELSE gpu.context
  BY <1>3, DropContextHolds
<1> HIDE DEF b
<1>5. Holds(c, api \ {"base_words"}, best, {}, {}) /\ c.context = b.context
  BY <1>4, DropBufferHolds DEF Buffers
<1> HIDE DEF c
<1>6. Holds(d, (api \ {"base_words"}) \ {"best_timestamp"}, best, {}, {}) /\ d.context = b.context
  BY <1>5, DropBufferHolds DEF Buffers
<1> HIDE DEF d
<1>7. Holds(e, rest, best, {}, {}) /\ e.context = b.context
  BY <1>6, DropBufferHolds DEF Buffers
<1> HIDE DEF e
<1>8. rest = {}
  BY <1>2 DEF Holds, Gpu, Buffers
<1>9. /\ Holds(gpu', {}, {}, {}, {}) /\ gpu'.context = b.context
  <2>1. /\ Holds(DropBest(e), rest, best \ best, {}, {}) /\ DropBest(e).context = e.context
    BY <1>2, <1>7, DropBestHolds
  <2>2. best \ best = {}
    OBVIOUS
  <2> QED
    BY <1>1, <1>7, <1>8, <2>1, <2>2
<1>10. gpu'.api = {} /\ Holds(gpu', gpu'.api, {}, {}, {})
  BY <1>9, ApiHeld
<1>11. KindsInv'
  BY <1>1 DEF ResourcesInv, KindsInv, Locations
<1>12. finalists' \cup best' = {}
  BY <1>1
<1>13. Holds(gpu, gpu.api, finalists \cup best, Own, Extra)'
  BY <1>1, <1>10, <1>12, NextHolds DEF Own, Extra
<1>14. backend = "hip" => gpu'.context = "none"
  <2>1. backend = "hip" => "context" \notin gpu.api
    BY <1>2 DEF Holds
  <2> QED
    BY <1>2, <1>4, <1>9, <2>1
<1>15. OwnersInv'
  BY <1>1, <1>10, <1>14 DEF OwnersInv, Closed
<1>16. VariantsInv'
  BY <1>1, <1>12, FS_EmptySet, CountsAssumption DEF VariantsInv
<1> QED
  BY <1>11, <1>13, <1>15, <1>16 DEF ResourcesInv

LEMMA NextBackendStep == ResourcesInv /\ NextBackend => ResourcesInv'
<1> SUFFICES ASSUME ResourcesInv, NextBackend PROVE ResourcesInv'
  OBVIOUS
<1>1. /\ pc = "failed" /\ UNCHANGED <<asked, gpu, purpose, build, size, finalists, best>>
      /\ \/ backend = "hip" /\ backend' = "cuda" /\ pc' = "load"
         \/ pc' = "end" /\ backend' = backend
  BY DEF NextBackend, tuning
<1>2. KindsInv'
  BY <1>1 DEF ResourcesInv, KindsInv, Locations
<1>3. Holds(gpu, gpu.api, finalists \cup best, Own, Extra)'
  BY <1>1, NextHolds DEF ResourcesInv, Own, Extra
<1>4. OwnersInv'
  BY <1>1 DEF ResourcesInv, OwnersInv, Closed
<1>5. VariantsInv'
  BY <1>1 DEF ResourcesInv, VariantsInv, Closed
<1> QED
  BY <1>2, <1>3, <1>4, <1>5 DEF ResourcesInv

-----------------------------------------------------------------------------
(* What follows from the account.                                          *)

LEMMA ResourcesInvNext == ResourcesInv /\ [ResourcesNext]_resource_vars => ResourcesInv'
<1> SUFFICES ASSUME ResourcesInv, [ResourcesNext]_resource_vars
             PROVE  ResourcesInv'
  OBVIOUS
<1>1. CASE Opening
  BY <1>1, ChooseStep, LoadApiStep, SelectDeviceStep, OpenContextStep, AllocateNextStep,
     LoadCachedStep, RetuneStep, CompileStep, LoadOnDeviceStep, FunctionsStep, KeepStep,
     MeasureStep, BuiltStep, NextBuildStep, SustainStep, UnwindStep, ConcludeStep,
     NextBackendStep DEF Opening
<1>2. CASE LaunchBest
  BY <1>2, LaunchBestStep
<1>3. CASE DropEngine
  BY <1>3, DropEngineStep
<1>4. CASE UNCHANGED resource_vars
  <2>1. UNCHANGED <<asked, backend, pc, gpu, purpose, build, size, finalists, best>>
    BY <1>4 DEF resource_vars, tuning
  <2>2. Holds(gpu, gpu.api, finalists \cup best, Own, Extra)'
    BY <2>1, NextHolds DEF ResourcesInv, Own, Extra
  <2> QED
    BY <2>1, <2>2 DEF ResourcesInv, KindsInv, OwnersInv, VariantsInv
<1> QED
  BY <1>1, <1>2, <1>3, <1>4 DEF ResourcesNext

\* Along every execution of the opening and the use of an engine every clone of
\* an Arc or an Rc is accounted for.
THEOREM ResourcesInvHolds == ResourcesSpec => []ResourcesInv
BY ResourcesInvInit, ResourcesInvNext, PTL DEF ResourcesSpec

LEMMA ResourcesTypes == ResourcesInv => ResourcesTypeOK
<1> SUFFICES ASSUME ResourcesInv PROVE ResourcesTypeOK
  OBVIOUS
<1>1. gpu \in Gpu /\ finalists \cup best \subseteq Variants
  BY DEF ResourcesInv, Holds, Gpu
<1>2. IsFiniteSet(finalists \cup best) /\ Cardinality(finalists \cup best) <= FINALIST_COUNT
  BY DEF ResourcesInv, VariantsInv
<1>3. IsFiniteSet(finalists) /\ Cardinality(finalists) <= Cardinality(finalists \cup best)
  BY <1>2, FS_Subset
<1>4. Cardinality(finalists) <= FINALIST_COUNT
  BY <1>2, <1>3, FS_CardinalityType, CountsAssumption
<1> QED
  BY <1>1, <1>4 DEF ResourcesInv, KindsInv, ResourcesTypeOK

LEMMA ResourcesNoMisuse == ResourcesInv => NoMisuse
BY DEF ResourcesInv, Holds, NoMisuse

LEMMA ResourcesClosed == ResourcesInv => NothingLeaks
<1> SUFFICES ASSUME ResourcesInv, pc \in {"failed", "end"}
             PROVE  /\ ~ Open(gpu) /\ gpu.context # "live"
                    /\ gpu.memory = {} /\ gpu.loaded = {}
                    /\ \A m \in Modules : gpu.rc[m] = {}
  BY DEF NothingLeaks
<1>1. gpu.api = {} /\ finalists \cup best = {}
  BY DEF ResourcesInv, OwnersInv, VariantsInv, Closed
<1>2. Holds(gpu, {}, {}, {}, {})
  BY <1>1 DEF ResourcesInv, Own, Extra
<1> QED
  BY <1>2 DEF Holds, SizesOf, Open

LEMMA ResourcesBounded == ResourcesInv => ModulesBounded
<1> SUFFICES ASSUME ResourcesInv PROVE ModulesBounded
  OBVIOUS
<1> DEFINE vs == finalists \cup best
           firsts == {v[1] : v \in vs}
<1>1. IsFiniteSet(vs) /\ Cardinality(vs) <= FINALIST_COUNT
  BY DEF ResourcesInv, VariantsInv
<1>2. IsFiniteSet(firsts) /\ Cardinality(firsts) <= Cardinality(vs)
  <2>1. [v \in vs |-> v[1]] \in Surjection(vs, firsts)
    BY DEF Surjection
  <2> HIDE DEF vs, firsts
  <2> QED
    BY <1>1, <2>1, FS_Surjection
<1>3. Holds(gpu, gpu.api, vs, Own, Extra) /\ Own \cup Extra \subseteq {build}
  BY DEF ResourcesInv, Own, Extra
<1>4. \A m \in Modules : SizesOf(vs, m) # {} => m \in firsts
  <2> TAKE m \in Modules
  <2> HAVE SizesOf(vs, m) # {}
  <2>1. PICK s : <<m, s>> \in vs
    BY DEF SizesOf
  <2>2. <<m, s>>[1] = m
    OBVIOUS
  <2> HIDE DEF vs
  <2> QED
    BY <2>1, <2>2
<1>5. gpu.loaded \subseteq firsts \cup {build}
  <2> HIDE DEF firsts, vs
  <2> QED
    BY <1>3, <1>4 DEF Holds
<1>6. /\ IsFiniteSet(firsts \cup {build}) /\ Cardinality(firsts) \in Nat
      /\ Cardinality(firsts \cup {build}) <= Cardinality(firsts) + 1
  <2> HIDE DEF firsts
  <2> QED
    BY <1>2, FS_AddElement, FS_CardinalityType
<1>7. /\ IsFiniteSet(gpu.loaded) /\ Cardinality(gpu.loaded) <= Cardinality(firsts \cup {build})
  <2> HIDE DEF firsts
  <2> QED
    BY <1>5, <1>6, FS_Subset
<1>8. Cardinality(gpu.loaded) <= FINALIST_COUNT + 1
  <2> HIDE DEF firsts, vs
  <2>1. /\ Cardinality(gpu.loaded) \in Nat /\ Cardinality(vs) \in Nat
        /\ Cardinality(firsts \cup {build}) \in Nat
    BY <1>1, <1>6, <1>7, FS_CardinalityType
  <2> QED
    BY <1>1, <1>2, <1>6, <1>7, <2>1, CountsAssumption
<1>9. pc = "run" => \E v \in best : gpu.loaded = {v[1]}
  <2> HAVE pc = "run"
  <2>1. best # {} /\ finalists = {} /\ (\A v, w \in best : v = w) /\ gpu.context # "destroyed"
    BY DEF ResourcesInv, VariantsInv, OwnersInv
  <2>2. PICK v : v \in best
    BY <2>1
  <2>3. vs = {v}
    BY <2>1, <2>2
  <2>4. Holds(gpu, gpu.api, {v}, {}, {})
    BY <1>3, <2>3 DEF Own, Extra
  <2>5. v[1] \in gpu.loaded
    BY <2>1, <2>4, VariantLoaded
  <2>6. firsts = {v[1]}
    BY <2>3
  <2>7. gpu.loaded \subseteq {v[1]}
    <3> HIDE DEF firsts, vs
    <3>1. /\ gpu.loaded \subseteq gpu.modules
          /\ \A m \in gpu.modules : m \in Modules /\ gpu.rc[m] # {}
          /\ \A m \in Modules : gpu.rc[m] = SizesOf({v}, m)
      BY <2>4 DEF Holds
    <3>2. \A m \in gpu.modules : SizesOf(vs, m) # {}
      BY <2>3, <3>1
    <3> QED
      BY <1>4, <2>6, <3>1, <3>2
  <2> QED
    BY <2>2, <2>5, <2>7
<1> QED
  BY <1>8, <1>9 DEF ModulesBounded
=============================================================================

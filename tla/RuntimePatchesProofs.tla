------------------------ MODULE RuntimePatchesProofs ------------------------
(***************************************************************************)
(* Theorems of RuntimePatches, for any number of threads: drivers are only *)
(* constructed after the patches, and as long as constructions do not      *)
(* overlap, asyncio is left as it was found.  With two threads, wrappers   *)
(* are at most two deep.                                                   *)
(***************************************************************************)
EXTENDS RuntimePatches, TLAPS

IInv == TypeOK /\ PatchesInStep /\ LoopInStep

-----------------------------------------------------------------------------
(* What the two tables say: which function is read and replaced where, and *)
(* that the one that is instrumented is none of the originals.             *)
LEMMA TableFacts ==
  ASSUME NEW p \in Patches
  PROVE  /\ Len(Originals[p]) \in 1..5
         /\ Len(Targets[p]) \in {Len(Originals[p]), Len(Originals[p]) + 1}
         /\ Len(Targets[p]) <= 6
         /\ \A i \in 1..Len(Originals[p]) :
              /\ Originals[p][i] \in Names
              /\ Originals[p][i] # "graphiti.add"
              /\ Targets[p][i] = Originals[p][i]
         /\ \A i \in 1..Len(Targets[p]) : Targets[p][i] \in Names
<1>. DEFINE F == <<"node.save_bulk", "edge.save_bulk", "node.save",
                    "edge.save", "bulk_utils.add">>
            E == <<"semaphore_gather", "search">>
<1>1. /\ F \in Seq(Names) /\ Len(F) = 5
      /\ \A i \in 1..5 : F[i] \in Names /\ F[i] # "graphiti.add"
  BY DEF Names
<1>2. /\ E \in Seq(Names) /\ Len(E) = 2
      /\ \A i \in 1..2 : E[i] \in Names /\ E[i] # "graphiti.add"
  BY DEF Names
<1>. DEFINE G == <<"node.save_bulk", "edge.save_bulk", "node.save",
                    "edge.save", "bulk_utils.add", "graphiti.add">>
<1>3. /\ Len(G) = 6
      /\ \A i \in 1..6 : G[i] \in Names
      /\ \A i \in 1..5 : G[i] = F[i]
  BY DEF Names
<1>4. /\ Originals["falkor"] = F /\ Targets["falkor"] = G
      /\ Originals["edges"] = E /\ Targets["edges"] = E
  BY DEF Originals, Targets
<1>. HIDE DEF F, E, G
<1>5. CASE p = "falkor"
  <2>1. Originals[p] = F /\ Targets[p] = G
    BY <1>4, <1>5
  <2>2. Len(Originals[p]) = 5 /\ Len(Targets[p]) = 6
    BY <1>1, <1>3, <2>1
  <2>3. \A i \in 1..5 : /\ Originals[p][i] \in Names
                        /\ Originals[p][i] # "graphiti.add"
                        /\ Targets[p][i] = Originals[p][i]
    BY <1>1, <1>3, <2>1
  <2>4. \A i \in 1..6 : Targets[p][i] \in Names
    BY <1>3, <2>1
  <2>. QED  BY <2>2, <2>3, <2>4
<1>6. CASE p = "edges"
  <2>1. Originals[p] = E /\ Targets[p] = E
    BY <1>4, <1>6
  <2>2. Len(Originals[p]) = 2 /\ Len(Targets[p]) = 2
    BY <1>2, <2>1
  <2>3. \A i \in 1..2 : /\ Originals[p][i] \in Names
                        /\ Originals[p][i] # "graphiti.add"
                        /\ Targets[p][i] = Originals[p][i]
    BY <1>2, <2>1
  <2>. QED  BY <2>2, <2>3
<1>. QED  BY <1>5, <1>6 DEF Patches

(* A wrapper has its own layer, and keeps those of what it wraps.          *)
LEMMA WrapFacts ==
  ASSUME NEW f \in Seq(Layers), NEW layer \in Layers
  PROVE  /\ Wrap(layer, f) \in Seq(Layers)
         /\ Has(Wrap(layer, f), layer)
<1>1. Wrap(layer, f) \in Seq(Layers) /\ Len(Wrap(layer, f)) = Len(f) + 1
  BY DEF Wrap
<1>2. Wrap(layer, f)[1] = layer
  BY DEF Wrap
<1>3. 1 \in 1..Len(Wrap(layer, f))
  BY <1>1
<1>. QED  BY <1>1, <1>2, <1>3 DEF Has

LEMMA InitInv == Init => IInv
<1>. SUFFICES ASSUME Init PROVE IInv
  OBVIOUS
<1>1. TypeOK
  <2>1. <<>> \in Seq(Layers) /\ <<>> \in Seq(Seq(Layers))
    OBVIOUS
  <2>2. fn \in [Names -> Seq(Layers)] /\ held \in [Threads -> Seq(Seq(Layers))]
    BY <2>1 DEF Init
  <2>3. /\ at \in [Threads -> Stages] /\ patch \in [Threads -> Patches]
        /\ k \in [Threads -> 1..7] /\ flags \subseteq Layers
        /\ saved \in [Threads -> {"original", "raising"}]
        /\ getLoop \in {"original", "raising"}
    BY DEF Init, Patches, Stages
  <2>4. overlap \in BOOLEAN /\ indexTask \in BOOLEAN
    BY DEF Init
  <2>5. \A t \in Threads : at[t] = "idle" /\ held[t] = <<>>
    BY DEF Init
  <2>. QED  BY <2>2, <2>3, <2>4, <2>5 DEF TypeOK
<1>2. PatchesInStep
  BY DEF Init, PatchesInStep
<1>3. LoopInStep
  BY DEF Init, LoopInStep, Constructing
<1>. QED  BY <1>1, <1>2, <1>3 DEF IInv

-----------------------------------------------------------------------------
(* Type correctness.                                                       *)

LEMMA GoesFacts ==
  ASSUME TypeOK, NEW t \in Threads, NEW stage \in Stages, Goes(t, stage)
  PROVE  /\ at' \in [Threads -> Stages]
         /\ at'[t] = stage
         /\ \A u \in Threads : u # t => at'[u] = at[u]
BY DEF TypeOK, Goes

LEMMA GoesOnFacts ==
  ASSUME TypeOK, NEW t \in Threads, GoesOn(t)
  PROVE  /\ at' \in [Threads -> Stages] /\ patch' \in [Threads -> Patches]
         /\ \A u \in Threads : u # t => at'[u] = at[u] /\ patch'[u] = patch[u]
         /\ \/ patch[t] = "falkor" /\ at'[t] = "check" /\ patch'[t] = "edges"
            \/ patch[t] = "edges" /\ at'[t] = "save" /\ patch'[t] = "edges"
<1>1. CASE patch[t] = "falkor"
  <2>1. Goes(t, "check") /\ patch' = [patch EXCEPT ![t] = "edges"]
    BY <1>1 DEF GoesOn
  <2>2. "check" \in Stages /\ "edges" \in Patches
    BY DEF Stages, Patches
  <2>. QED  BY <1>1, <2>1, <2>2, GoesFacts DEF TypeOK
<1>2. CASE patch[t] # "falkor"
  <2>1. Goes(t, "save") /\ patch' = patch
    BY <1>2 DEF GoesOn
  <2>2. "save" \in Stages /\ patch[t] = "edges"
    BY <1>2 DEF TypeOK, Stages, Patches
  <2>. QED  BY <2>1, <2>2, GoesFacts DEF TypeOK
<1>. QED  BY <1>1, <1>2

(* The part of the type that speaks of one thread at a time.               *)
InHand(t) ==
  /\ at[t] = "instrument" => Len(held[t]) = 1
  /\ at[t] = "read" => /\ k[t] <= Len(Originals[patch[t]])
                       /\ Len(held[t]) = k[t] - 1
  /\ at[t] = "write" => /\ k[t] <= Len(Targets[patch[t]]) + 1
                        /\ Len(held[t]) = Len(Originals[patch[t]])
  /\ at[t] \notin {"instrument", "read", "write"} => held[t] = <<>>

Simple ==
  /\ getLoop \in {"original", "raising"}
  /\ flags \subseteq Layers
  /\ saved \in [Threads -> {"original", "raising"}]

Places ==
  /\ at \in [Threads -> Stages]
  /\ patch \in [Threads -> Patches]
  /\ k \in [Threads -> 1..7]

Functions ==
  /\ fn \in [Names -> Seq(Layers)]
  /\ held \in [Threads -> Seq(Seq(Layers))]

LEMMA TypeParts ==
  TypeOK <=> /\ Simple /\ Places /\ Functions
             /\ overlap \in BOOLEAN /\ indexTask \in BOOLEAN
             /\ \A t \in Threads : InHand(t)
BY DEF TypeOK, Simple, Places, Functions, InHand

(* What a thread that is about to wrap has in its hands.                   *)
LEMMA WrittenFacts ==
  ASSUME TypeOK, NEW t \in Threads, at[t] = "write",
         k[t] <= Len(Targets[patch[t]])
  PROVE  /\ patch[t] \in Patches /\ patch[t] \in Layers
         /\ k[t] \in 1..Len(Targets[patch[t]])
         /\ Targets[patch[t]][k[t]] \in Names
         /\ held[t][OriginalOf(patch[t], k[t])] \in Seq(Layers)
<1>1. patch[t] \in Patches /\ patch[t] \in Layers
  BY DEF TypeOK, Layers
<1>2. k[t] \in Nat /\ k[t] >= 1
  <2>1. k \in [Threads -> 1..7]
    BY DEF TypeOK
  <2>. QED  BY <2>1
<1>3. Len(held[t]) = Len(Originals[patch[t]]) /\ held[t] \in Seq(Seq(Layers))
  BY TypeParts DEF InHand, Functions
<1>4. Len(Originals[patch[t]]) \in Nat /\ Len(Originals[patch[t]]) >= 1
  <2>1. Len(Originals[patch[t]]) \in 1..5
    BY <1>1, TableFacts
  <2>2. \A n : n \in 1..5 => n \in Nat /\ n >= 1
    OBVIOUS
  <2>. QED  BY <2>1, <2>2
<1>5. Len(Targets[patch[t]]) \in Nat
  <2>1. Len(Targets[patch[t]]) \in
          {Len(Originals[patch[t]]), Len(Originals[patch[t]]) + 1}
    BY <1>1, TableFacts
  <2>. QED  BY <1>4, <2>1
<1>6. OriginalOf(patch[t], k[t]) \in 1..Len(held[t])
  BY <1>2, <1>3, <1>4 DEF OriginalOf
<1>7. k[t] \in 1..Len(Targets[patch[t]])
  BY <1>2, <1>5
<1>8. Targets[patch[t]][k[t]] \in Names
  BY <1>1, <1>7, TableFacts
<1>. QED  BY <1>1, <1>3, <1>6, <1>7, <1>8

LEMMA StepSimple ==
  ASSUME TypeOK, [Next]_vars
  PROVE  Simple' /\ overlap' \in BOOLEAN /\ indexTask' \in BOOLEAN
<1>1. CASE UNCHANGED vars
  BY <1>1 DEF TypeOK, Simple, vars
<1>2. ASSUME NEW t \in Threads,
             Begin(t) \/ ReadOriginal(t) \/ WriteWrapper(t) \/ CheckFlag(t)
      PROVE  Simple' /\ overlap' \in BOOLEAN /\ indexTask' \in BOOLEAN
  <2>1. UNCHANGED <<getLoop, flags, saved, overlap, indexTask>>
    BY <1>2 DEF Begin, ReadOriginal, WriteWrapper, CheckFlag
  <2>. QED  BY <2>1 DEF TypeOK, Simple
<1>3. ASSUME NEW t \in Threads, Instrument(t) \/ SetFlag(t)
      PROVE  Simple' /\ overlap' \in BOOLEAN /\ indexTask' \in BOOLEAN
  <2>1. /\ \E f \in Layers : flags' = flags \union {f}
        /\ UNCHANGED <<getLoop, saved, overlap, indexTask>>
    BY <1>3 DEF Instrument, SetFlag, TypeOK, Layers
  <2>. QED  BY <2>1 DEF TypeOK, Simple
<1>4. ASSUME NEW t \in Threads, SaveLoop(t)
      PROVE  Simple' /\ overlap' \in BOOLEAN /\ indexTask' \in BOOLEAN
  <2>1. Simple' /\ UNCHANGED indexTask
    BY <1>4 DEF SaveLoop, TypeOK, Simple
  <2>2. overlap' \in BOOLEAN
    BY <1>4 DEF SaveLoop
  <2>. QED  BY <2>1, <2>2 DEF TypeOK
<1>5. ASSUME NEW t \in Threads, SwapLoop(t) \/ RestoreLoop(t)
      PROVE  Simple' /\ overlap' \in BOOLEAN /\ indexTask' \in BOOLEAN
  <2>1. Simple' /\ UNCHANGED <<overlap, indexTask>>
    BY <1>5 DEF SwapLoop, RestoreLoop, TypeOK, Simple
  <2>. QED  BY <2>1 DEF TypeOK
<1>6. ASSUME NEW t \in Threads, ConstructDriver(t)
      PROVE  Simple' /\ overlap' \in BOOLEAN /\ indexTask' \in BOOLEAN
  <2>1. Simple' /\ UNCHANGED overlap
    BY <1>6 DEF ConstructDriver, TypeOK, Simple
  <2>2. indexTask' \in BOOLEAN
    BY <1>6 DEF ConstructDriver
  <2>. QED  BY <2>1, <2>2 DEF TypeOK
<1>. QED  BY <1>1, <1>2, <1>3, <1>4, <1>5, <1>6 DEF Next

LEMMA OthersKeep ==
  ASSUME NEW u \in Threads, InHand(u),
         at'[u] = at[u], patch'[u] = patch[u], k'[u] = k[u], held'[u] = held[u]
  PROVE  InHand(u)'
BY DEF InHand

(* What a step does to a function of the threads at one of them.           *)
LEMMA UpdateFacts ==
  ASSUME NEW S, NEW f \in [Threads -> S], NEW t \in Threads, NEW v \in S,
         NEW g, g = [f EXCEPT ![t] = v]
  PROVE  /\ g \in [Threads -> S] /\ g[t] = v
         /\ \A u \in Threads : u # t => g[u] = f[u]
OBVIOUS

Structure == Places /\ Functions /\ \A u \in Threads : InHand(u)

LEMMA EmptyFacts == <<>> \in Seq(Seq(Layers)) /\ Len(<<>>) = 0
OBVIOUS

LEMMA StepBegin ==
  ASSUME TypeOK, NEW t \in Threads, Begin(t)
  PROVE  Structure'
<1>0. /\ Places /\ Functions /\ \A u \in Threads : InHand(u)
      /\ at[t] = "idle" /\ held[t] = <<>>
  BY TypeParts DEF InHand, Begin
<1>1. patch' \in [Threads -> Patches] /\ \A u \in Threads : u # t => patch'[u] = patch[u]
  BY <1>0 DEF Begin, Places, Patches
<1>2. k' = k /\ fn' = fn
  BY DEF Begin
<1>3. CASE t = Dispatcher /\ "instrumented" \notin flags
  <2>1. Goes(t, "instrument") /\ held' = [held EXCEPT ![t] = <<fn["graphiti.add"]>>]
    BY <1>3 DEF Begin
  <2>2. <<fn["graphiti.add"]>> \in Seq(Seq(Layers)) /\ Len(<<fn["graphiti.add"]>>) = 1
    BY <1>0 DEF Functions, Names
  <2>3. /\ held' \in [Threads -> Seq(Seq(Layers))] /\ Len(held'[t]) = 1
        /\ \A u \in Threads : u # t => held'[u] = held[u]
    BY <1>0, <2>1, <2>2 DEF Functions
  <2>4. /\ at' \in [Threads -> Stages] /\ at'[t] = "instrument"
        /\ \A u \in Threads : u # t => at'[u] = at[u]
    BY <2>1, GoesFacts DEF Stages
  <2>5. InHand(t)'
    BY <2>3, <2>4 DEF InHand
  <2>6. \A u \in Threads : InHand(u)'
    BY <1>0, <1>1, <1>2, <2>3, <2>4, <2>5, OthersKeep
  <2>. QED  BY <1>0, <1>1, <1>2, <2>3, <2>4, <2>6 DEF Structure, Places, Functions
<1>4. CASE ~ (t = Dispatcher /\ "instrumented" \notin flags)
  <2>1. Goes(t, "check") /\ held' = held
    BY <1>4 DEF Begin
  <2>2. /\ at' \in [Threads -> Stages] /\ at'[t] = "check"
        /\ \A u \in Threads : u # t => at'[u] = at[u]
    BY <2>1, GoesFacts DEF Stages
  <2>3. InHand(t)'
    BY <1>0, <2>1, <2>2 DEF InHand
  <2>4. \A u \in Threads : InHand(u)'
    BY <1>0, <1>1, <1>2, <2>1, <2>2, <2>3, OthersKeep
  <2>. QED  BY <1>0, <1>1, <1>2, <2>1, <2>2, <2>4 DEF Structure, Places, Functions
<1>. QED  BY <1>3, <1>4

LEMMA StepInstrument ==
  ASSUME TypeOK, NEW t \in Threads, Instrument(t)
  PROVE  Structure'
<1>0. /\ Places /\ Functions /\ \A u \in Threads : InHand(u)
      /\ at[t] = "instrument" /\ Len(held[t]) = 1
  BY TypeParts DEF InHand, Instrument
<1>1. held[t][1] \in Seq(Layers)
  <2>1. held[t] \in Seq(Seq(Layers)) /\ 1 \in 1..Len(held[t])
    BY <1>0 DEF Functions
  <2>. QED  BY <2>1
<1>2. Wrap("instrumented", held[t][1]) \in Seq(Layers)
  <2>1. "instrumented" \in Layers
    BY DEF Layers
  <2>. QED  BY <1>1, <2>1, WrapFacts
<1>3. fn' \in [Names -> Seq(Layers)]
  BY <1>0, <1>2 DEF Instrument, Functions
<1>4. /\ held' \in [Threads -> Seq(Seq(Layers))] /\ held'[t] = <<>>
      /\ \A u \in Threads : u # t => held'[u] = held[u]
  BY <1>0, EmptyFacts DEF Instrument, Functions
<1>5. /\ at' \in [Threads -> Stages] /\ at'[t] \in {"check", "idle"}
      /\ \A u \in Threads : u # t => at'[u] = at[u]
  <2>1. Goes(t, "check") \/ Goes(t, "idle")
    BY DEF Instrument
  <2>2. "check" \in Stages /\ "idle" \in Stages
    BY DEF Stages
  <2>. QED  BY <2>1, <2>2, GoesFacts
<1>6. patch' = patch /\ k' = k
  BY DEF Instrument
<1>7. InHand(t)'
  BY <1>4, <1>5 DEF InHand
<1>8. \A u \in Threads : InHand(u)'
  BY <1>0, <1>4, <1>5, <1>6, <1>7, OthersKeep
<1>. QED  BY <1>0, <1>3, <1>4, <1>5, <1>6, <1>8 DEF Structure, Places, Functions

LEMMA StepCheckFlag ==
  ASSUME TypeOK, NEW t \in Threads, CheckFlag(t)
  PROVE  Structure'
<1>0. /\ Places /\ Functions /\ \A u \in Threads : InHand(u)
      /\ at[t] = "check" /\ held[t] = <<>> /\ patch[t] \in Patches
  BY TypeParts DEF InHand, CheckFlag, Places
<1>1. fn' = fn /\ held' = held
  BY DEF CheckFlag
<1>2. CASE patch[t] \in flags
  <2>1. GoesOn(t) /\ k' = k
    BY <1>2 DEF CheckFlag
  <2>2. InHand(t)'
    BY <1>0, <1>1, <2>1, GoesOnFacts DEF InHand
  <2>3. \A u \in Threads : InHand(u)'
    BY <1>0, <1>1, <2>1, <2>2, GoesOnFacts, OthersKeep
  <2>. QED  BY <1>0, <1>1, <2>1, <2>3, GoesOnFacts DEF Structure, Places, Functions
<1>3. CASE patch[t] \notin flags
  <2>1. Goes(t, "read") /\ k' = [k EXCEPT ![t] = 1] /\ patch' = patch
    BY <1>3 DEF CheckFlag
  <2>2. /\ at' \in [Threads -> Stages] /\ at'[t] = "read"
        /\ \A u \in Threads : u # t => at'[u] = at[u]
    BY <2>1, GoesFacts DEF Stages
  <2>3. /\ k' \in [Threads -> 1..7] /\ k'[t] = 1
        /\ \A u \in Threads : u # t => k'[u] = k[u]
    BY <1>0, <2>1 DEF Places
  <2>4. Len(Originals[patch[t]]) \in 1..5
    BY <1>0, TableFacts
  <2>5. 1 <= Len(Originals[patch[t]]) /\ Len(<<>>) = 1 - 1
    <3>1. \A n : n \in 1..5 => 1 <= n
      OBVIOUS
    <3>2. Len(<<>>) = 0 /\ 1 - 1 = 0
      OBVIOUS
    <3>. QED  BY <2>4, <3>1, <3>2
  <2>6. InHand(t)'
    BY <1>0, <1>1, <2>1, <2>2, <2>3, <2>5 DEF InHand
  <2>7. \A u \in Threads : InHand(u)'
    BY <1>0, <1>1, <2>1, <2>2, <2>3, <2>6, OthersKeep
  <2>. QED  BY <1>0, <1>1, <2>1, <2>2, <2>3, <2>7 DEF Structure, Places, Functions
<1>. QED  BY <1>2, <1>3

LEMMA StepReadOriginal ==
  ASSUME TypeOK, NEW t \in Threads, ReadOriginal(t)
  PROVE  Structure'
<1>0. /\ Places /\ Functions /\ \A u \in Threads : InHand(u)
      /\ at[t] = "read" /\ patch[t] \in Patches /\ patch' = patch /\ fn' = fn
  BY TypeParts DEF ReadOriginal, Places
<1>. DEFINE n == Len(Originals[patch[t]])
            f == fn[Originals[patch[t]][k[t]]]
<1>1. n \in 1..5 /\ n \in Nat /\ n >= 1
  <2>1. n \in 1..5
    BY <1>0, TableFacts
  <2>2. \A m : m \in 1..5 => m \in Nat /\ m >= 1
    OBVIOUS
  <2>. QED  BY <2>1, <2>2
<1>2. k[t] \in 1..7 /\ k[t] <= n /\ Len(held[t]) = k[t] - 1
      /\ held[t] \in Seq(Seq(Layers))
  BY <1>0 DEF InHand, Places, Functions
<1>3. f \in Seq(Layers)
  <2>1. k[t] \in 1..n
    BY <1>1, <1>2
  <2>2. Originals[patch[t]][k[t]] \in Names
    BY <1>0, <2>1, TableFacts
  <2>. QED  BY <1>0, <2>2 DEF Functions
<1>4. held' = [held EXCEPT ![t] = Append(@, f)]
  BY DEF ReadOriginal
<1>. HIDE DEF f
<1>5. /\ Append(held[t], f) \in Seq(Seq(Layers))
      /\ Len(Append(held[t], f)) = k[t]
  BY <1>2, <1>3
<1>6. /\ held' \in [Threads -> Seq(Seq(Layers))] /\ Len(held'[t]) = k[t]
      /\ \A u \in Threads : u # t => held'[u] = held[u]
  BY <1>0, <1>4, <1>5 DEF Functions
<1>7. CASE k[t] < n
  <2>1. k' = [k EXCEPT ![t] = @ + 1] /\ at' = at
    BY <1>7 DEF ReadOriginal
  <2>2. k[t] + 1 \in 1..7 /\ k[t] + 1 <= n /\ k[t] = (k[t] + 1) - 1
    <3>1. \A a \in 1..7, b \in 1..5 :
            a < b => a + 1 \in 1..7 /\ a + 1 <= b /\ a = (a + 1) - 1
      OBVIOUS
    <3>. QED  BY <1>1, <1>2, <1>7, <3>1
  <2>3. /\ k' \in [Threads -> 1..7] /\ k'[t] = k[t] + 1
        /\ \A u \in Threads : u # t => k'[u] = k[u]
    BY <1>0, <2>1, <2>2 DEF Places
  <2>4. InHand(t)'
    BY <1>0, <1>6, <2>1, <2>2, <2>3 DEF InHand
  <2>5. \A u \in Threads : InHand(u)'
    BY <1>0, <1>6, <2>1, <2>3, <2>4, OthersKeep
  <2>. QED  BY <1>0, <1>6, <2>1, <2>3, <2>5 DEF Structure, Places, Functions
<1>8. CASE ~ (k[t] < n)
  <2>1. k' = [k EXCEPT ![t] = 1] /\ Goes(t, "write")
    BY <1>8 DEF ReadOriginal
  <2>2. k[t] = n
    BY <1>1, <1>2, <1>8
  <2>3. /\ k' \in [Threads -> 1..7] /\ k'[t] = 1
        /\ \A u \in Threads : u # t => k'[u] = k[u]
    BY <1>0, <2>1 DEF Places
  <2>4. /\ at' \in [Threads -> Stages] /\ at'[t] = "write"
        /\ \A u \in Threads : u # t => at'[u] = at[u]
    BY <2>1, GoesFacts DEF Stages
  <2>5. 1 <= Len(Targets[patch[t]]) + 1
    <3>1. Len(Targets[patch[t]]) \in {n, n + 1}
      BY <1>0, TableFacts
    <3>. QED  BY <1>1, <3>1
  <2>6. InHand(t)'
    BY <1>0, <1>6, <2>2, <2>3, <2>4, <2>5 DEF InHand
  <2>7. \A u \in Threads : InHand(u)'
    BY <1>0, <1>6, <2>3, <2>4, <2>6, OthersKeep
  <2>. QED  BY <1>0, <1>6, <2>3, <2>4, <2>7 DEF Structure, Places, Functions
<1>. QED  BY <1>7, <1>8

LEMMA StepWriteWrapper ==
  ASSUME TypeOK, NEW t \in Threads, WriteWrapper(t)
  PROVE  Structure'
<1>0. /\ Places /\ Functions /\ \A u \in Threads : InHand(u)
      /\ at[t] = "write" /\ k[t] <= Len(Targets[patch[t]])
      /\ at' = at /\ patch' = patch /\ held' = held
  BY TypeParts DEF WriteWrapper
<1>. DEFINE f == held[t][OriginalOf(patch[t], k[t])]
            n == Len(Targets[patch[t]])
<1>1. /\ patch[t] \in Patches /\ patch[t] \in Layers /\ f \in Seq(Layers)
      /\ k[t] \in 1..n
  BY <1>0, WrittenFacts
<1>2. n \in Nat /\ n <= 6
  <2>1. Len(Originals[patch[t]]) \in 1..5 /\ n <= 6
        /\ n \in {Len(Originals[patch[t]]), Len(Originals[patch[t]]) + 1}
    BY <1>1, TableFacts
  <2>2. \A a \in 1..5 : a \in Nat /\ a + 1 \in Nat
    OBVIOUS
  <2>. QED  BY <2>1, <2>2
<1>3. Wrap(patch[t], f) \in Seq(Layers)
  BY <1>1, WrapFacts
<1>4. fn' = [fn EXCEPT ![Targets[patch[t]][k[t]]] = Wrap(patch[t], f)]
      /\ k' = [k EXCEPT ![t] = @ + 1]
  BY DEF WriteWrapper
<1>. HIDE DEF f, n
<1>5. fn' \in [Names -> Seq(Layers)]
  BY <1>0, <1>3, <1>4 DEF Functions
<1>6. k[t] + 1 \in 1..7 /\ k[t] + 1 <= n + 1
  BY <1>1, <1>2
<1>7. /\ k' \in [Threads -> 1..7] /\ k'[t] = k[t] + 1
      /\ \A u \in Threads : u # t => k'[u] = k[u]
  BY <1>0, <1>4, <1>6 DEF Places
<1>8. InHand(t)'
  BY <1>0, <1>6, <1>7 DEF InHand, n
<1>9. \A u \in Threads : InHand(u)'
  BY <1>0, <1>7, <1>8, OthersKeep
<1>. QED  BY <1>0, <1>5, <1>7, <1>9 DEF Structure, Places, Functions

LEMMA StepSetFlag ==
  ASSUME TypeOK, NEW t \in Threads, SetFlag(t)
  PROVE  Structure'
<1>0. /\ Places /\ Functions /\ \A u \in Threads : InHand(u)
      /\ fn' = fn /\ k' = k /\ GoesOn(t)
  BY TypeParts DEF SetFlag
<1>1. /\ held' \in [Threads -> Seq(Seq(Layers))] /\ held'[t] = <<>>
      /\ \A u \in Threads : u # t => held'[u] = held[u]
  BY <1>0, EmptyFacts DEF SetFlag, Functions
<1>2. InHand(t)'
  BY <1>0, <1>1, GoesOnFacts DEF InHand
<1>3. \A u \in Threads : InHand(u)'
  BY <1>0, <1>1, <1>2, GoesOnFacts, OthersKeep
<1>. QED  BY <1>0, <1>1, <1>3, GoesOnFacts DEF Structure, Places, Functions

LEMMA StepLoop ==
  ASSUME TypeOK, NEW t \in Threads,
         SaveLoop(t) \/ SwapLoop(t) \/ ConstructDriver(t) \/ RestoreLoop(t)
  PROVE  Structure'
<1>0. /\ Places /\ Functions /\ \A u \in Threads : InHand(u)
      /\ at[t] \in {"save", "swap", "construct", "restore"}
      /\ fn' = fn /\ k' = k /\ patch' = patch /\ held' = held
  BY TypeParts DEF SaveLoop, SwapLoop, ConstructDriver, RestoreLoop
<1>1. \E stage \in {"swap", "construct", "restore", "idle"} : Goes(t, stage)
  BY DEF SaveLoop, SwapLoop, ConstructDriver, RestoreLoop
<1>2. PICK stage \in {"swap", "construct", "restore", "idle"} : Goes(t, stage)
  BY <1>1
<1>3. /\ at' \in [Threads -> Stages] /\ at'[t] = stage
      /\ \A u \in Threads : u # t => at'[u] = at[u]
  <2>1. stage \in Stages
    BY DEF Stages
  <2>. QED  BY <1>2, <2>1, GoesFacts
<1>4. InHand(t)'
  BY <1>0, <1>3 DEF InHand
<1>5. \A u \in Threads : InHand(u)'
  BY <1>0, <1>3, <1>4, OthersKeep
<1>. QED  BY <1>0, <1>3, <1>5 DEF Structure, Places, Functions

LEMMA TypeStep == TypeOK /\ [Next]_vars => TypeOK'
<1>. SUFFICES ASSUME TypeOK, [Next]_vars PROVE TypeOK'
  OBVIOUS
<1>1. Simple' /\ overlap' \in BOOLEAN /\ indexTask' \in BOOLEAN
  BY StepSimple
<1>2. Structure'
  <2>1. CASE UNCHANGED vars
    <3>1. Structure
      BY TypeParts DEF Structure
    <3>. QED  BY <2>1, <3>1 DEF vars, Structure, Places, Functions, InHand
  <2>2. CASE Next
    BY <2>2, StepBegin, StepInstrument, StepCheckFlag, StepReadOriginal,
       StepWriteWrapper, StepSetFlag, StepLoop DEF Next
  <2>. QED  BY <2>1, <2>2
<1>3. (Simple /\ Places /\ Functions /\ overlap \in BOOLEAN
       /\ indexTask \in BOOLEAN /\ \A t \in Threads : InHand(t))'
  BY <1>1, <1>2 DEF Structure
<1>. QED  BY <1>3, TypeParts, PTL

-----------------------------------------------------------------------------
(* The patches.                                                            *)

(* No patch replaces what the other wraps.                                 *)
LEMMA Disjoint ==
  ASSUME NEW p \in Patches, NEW q \in Patches, p # q,
         NEW i \in 1..Len(Originals[p]), NEW j \in 1..Len(Targets[q])
  PROVE  Targets[q][j] # Originals[p][i]
<1>. DEFINE F == <<"node.save_bulk", "edge.save_bulk", "node.save",
                    "edge.save", "bulk_utils.add">>
            G == <<"node.save_bulk", "edge.save_bulk", "node.save",
                    "edge.save", "bulk_utils.add", "graphiti.add">>
            E == <<"semaphore_gather", "search">>
<1>1. Originals["falkor"] = F /\ Targets["falkor"] = G
      /\ Originals["edges"] = E /\ Targets["edges"] = E
  BY DEF Originals, Targets
<1>2. Len(F) = 5 /\ \A a \in 1..5 : F[a] \notin {"semaphore_gather", "search"}
  OBVIOUS
<1>3. Len(G) = 6 /\ \A a \in 1..6 : G[a] \notin {"semaphore_gather", "search"}
  OBVIOUS
<1>4. Len(E) = 2 /\ \A a \in 1..2 : E[a] \in {"semaphore_gather", "search"}
  OBVIOUS
<1>. HIDE DEF F, G, E
<1>5. CASE p = "falkor" /\ q = "edges"
  BY <1>1, <1>2, <1>4, <1>5
<1>6. CASE p = "edges" /\ q = "falkor"
  BY <1>1, <1>3, <1>4, <1>6
<1>. QED  BY <1>5, <1>6 DEF Patches

(* A step changes a function in its place of the table only, and there it  *)
(* adds the layer of the patch it belongs to: no original loses the layer  *)
(* of its patch.                                                           *)
LEMMA LayersStay ==
  ASSUME TypeOK, [Next]_vars, NEW p \in Patches,
         NEW i \in 1..Len(Originals[p]), Has(fn[Originals[p][i]], p)
  PROVE  Has(fn[Originals[p][i]], p)'
<1>. DEFINE name == Originals[p][i]
<1>0. name \in Names /\ name # "graphiti.add" /\ fn \in [Names -> Seq(Layers)]
  BY TableFacts DEF TypeOK
<1>1. CASE fn' = fn
  BY <1>1
<1>2. ASSUME NEW t \in Threads, Instrument(t)
      PROVE  fn'[name] = fn[name]
  BY <1>0, <1>2 DEF Instrument
<1>3. ASSUME NEW t \in Threads, WriteWrapper(t)
      PROVE  Has(fn'[name], p)
  <2>. DEFINE f == held[t][OriginalOf(patch[t], k[t])]
              target == Targets[patch[t]][k[t]]
  <2>1. /\ patch[t] \in Patches /\ patch[t] \in Layers /\ f \in Seq(Layers)
        /\ k[t] \in 1..Len(Targets[patch[t]]) /\ target \in Names
    BY <1>3, WrittenFacts DEF WriteWrapper
  <2>2. fn' = [fn EXCEPT ![target] = Wrap(patch[t], f)]
    BY <1>3 DEF WriteWrapper
  <2>3. CASE name = target
    <3>1. patch[t] = p
      BY <2>1, <2>3, Disjoint
    <3>2. fn'[name] = Wrap(patch[t], f)
      BY <1>0, <2>2, <2>3
    <3>. QED  BY <2>1, <3>1, <3>2, WrapFacts
  <2>4. CASE name # target
    <3>. HIDE DEF name, target
    <3>1. fn'[name] = fn[name]
      BY <1>0, <2>2, <2>4
    <3>. QED  BY <3>1 DEF name
  <2>. QED  BY <2>3, <2>4
<1>4. \/ fn' = fn
      \/ \E t \in Threads : Instrument(t) \/ WriteWrapper(t)
  BY DEF Next, vars, Begin, CheckFlag, ReadOriginal, SetFlag, SaveLoop,
         SwapLoop, ConstructDriver, RestoreLoop
<1>. QED  BY <1>1, <1>2, <1>3, <1>4

LEMMA PatchedStays ==
  ASSUME TypeOK, [Next]_vars, NEW p \in Patches, Patched(p)
  PROVE  Patched(p)'
BY LayersStay DEF Patched

(* What PatchesInStep says of one thread.                                  *)
Passed(t) ==
  /\ at[t] = "write" => \A i \in 1..Len(Originals[patch[t]]) :
       i < k[t] => Has(fn[Originals[patch[t]][i]], patch[t])
  /\ /\ at[t] \in {"instrument", "check", "read", "write"}
     /\ patch[t] = "edges"
     => "falkor" \in flags
  /\ at[t] \in {"save", "swap", "construct", "restore"} => Patches \subseteq flags

LEMMA PassedKeeps ==
  ASSUME TypeOK, [Next]_vars, NEW u \in Threads, Passed(u),
         at'[u] = at[u], patch'[u] = patch[u], k'[u] = k[u]
  PROVE  Passed(u)'
<1>1. patch[u] \in Patches
  BY DEF TypeOK
<1>2. flags \subseteq flags'
  BY DEF Next, vars, Begin, Instrument, CheckFlag, ReadOriginal, WriteWrapper,
         SetFlag, SaveLoop, SwapLoop, ConstructDriver, RestoreLoop
<1>3. at[u] = "write" => \A i \in 1..Len(Originals[patch[u]]) :
        i < k[u] => Has(fn'[Originals[patch[u]][i]], patch[u])
  BY <1>1, LayersStay DEF Passed
<1>. QED  BY <1>2, <1>3 DEF Passed

(* A thread that has written all its wrappers has wrapped all originals.   *)
LEMMA AllWritten ==
  ASSUME TypeOK, NEW t \in Threads, Passed(t), SetFlag(t)
  PROVE  Patched(patch[t]) /\ patch[t] \in Patches
<1>1. patch[t] \in Patches /\ k[t] \in 1..7 /\ at[t] = "write"
      /\ k[t] > Len(Targets[patch[t]])
  BY DEF TypeOK, SetFlag
<1>. DEFINE n == Len(Originals[patch[t]])
<1>2. n \in 1..5 /\ Len(Targets[patch[t]]) \in {n, n + 1}
  BY <1>1, TableFacts
<1>3. \A i \in 1..n : i < k[t]
  <2>1. \A a \in 1..5 : \A b \in 1..7 : \A c :
          c \in {a, a + 1} /\ b > c => b > a
    OBVIOUS
  <2>2. k[t] > n
    BY <1>1, <1>2, <2>1
  <2>. HIDE DEF n
  <2>3. \A a \in 1..5, b \in 1..7 : b > a => \A i \in 1..a : i < b
    OBVIOUS
  <2>. QED  BY <1>1, <1>2, <2>2, <2>3
<1>. QED  BY <1>1, <1>3 DEF Passed, Patched

LEMMA PatchStep == TypeOK /\ PatchesInStep /\ [Next]_vars => PatchesInStep'
<1>. SUFFICES ASSUME TypeOK, PatchesInStep, [Next]_vars PROVE PatchesInStep'
  OBVIOUS
<1>1. /\ \A p \in Patches \intersect flags : Patched(p)
      /\ \A t \in Threads : Passed(t)
  BY DEF PatchesInStep, Passed
<1>2. ASSUME NEW p \in Patches \intersect flags'
      PROVE  Patched(p)'
  <2>1. CASE p \in flags
    BY <1>1, <2>1, PatchedStays
  <2>2. CASE p \notin flags
    <3>1. PICK t \in Threads : SetFlag(t) /\ p = patch[t]
      BY <2>2 DEF Next, vars, Begin, Instrument, CheckFlag, ReadOriginal,
         WriteWrapper, SetFlag, SaveLoop, SwapLoop, ConstructDriver,
         RestoreLoop, Patches
    <3>2. Patched(p)
      BY <1>1, <3>1, AllWritten
    <3>. QED  BY <3>2, PatchedStays
  <2>. QED  BY <2>1, <2>2
<1>3. ASSUME NEW u \in Threads
      PROVE  Passed(u)'
  <2>0. Passed(u)
    BY <1>1
  <2>1. CASE at'[u] = at[u] /\ patch'[u] = patch[u] /\ k'[u] = k[u]
    BY <2>0, <2>1, PassedKeeps
  <2>2. ASSUME Begin(u) PROVE Passed(u)'
    <3>1. patch'[u] = "falkor"
      BY <2>2 DEF Begin, TypeOK
    <3>2. at'[u] \in {"instrument", "check"}
      <4>1. Goes(u, "instrument") \/ Goes(u, "check")
        BY <2>2 DEF Begin
      <4>. QED  BY <4>1, GoesFacts DEF Stages
    <3>. QED  BY <3>1, <3>2 DEF Passed
  <2>3. ASSUME Instrument(u) PROVE Passed(u)'
    <3>1. at'[u] \in {"check", "idle"} /\ flags \subseteq flags'
          /\ patch' = patch
      <4>1. Goes(u, "idle") \/ Goes(u, "check")
        BY <2>3 DEF Instrument
      <4>. QED  BY <2>3, <4>1, GoesFacts DEF Stages, Instrument
    <3>2. patch[u] = "edges" => "falkor" \in flags
      BY <2>0, <2>3 DEF Passed, Instrument
    <3>. QED  BY <3>1, <3>2 DEF Passed
  <2>4. ASSUME CheckFlag(u) PROVE Passed(u)'
    <3>1. flags' = flags /\ at[u] = "check" /\ patch[u] \in Patches
          /\ (patch[u] = "edges" => "falkor" \in flags)
      BY <2>0, <2>4 DEF CheckFlag, Passed, TypeOK
    <3>2. CASE patch[u] \in flags
      <4>1. GoesOn(u)
        BY <2>4, <3>2 DEF CheckFlag
      <4>. QED  BY <3>1, <3>2, <4>1, GoesOnFacts DEF Passed, Patches
    <3>3. CASE patch[u] \notin flags
      <4>1. Goes(u, "read") /\ patch' = patch
        BY <2>4, <3>3 DEF CheckFlag
      <4>2. at'[u] = "read"
        BY <4>1, GoesFacts DEF Stages
      <4>. QED  BY <3>1, <4>1, <4>2 DEF Passed
    <3>. QED  BY <3>2, <3>3
  <2>5. ASSUME ReadOriginal(u) PROVE Passed(u)'
    <3>1. flags' = flags /\ at[u] = "read" /\ patch' = patch /\ fn' = fn
          /\ (patch[u] = "edges" => "falkor" \in flags)
      BY <2>0, <2>5 DEF ReadOriginal, Passed
    <3>2. CASE k[u] < Len(Originals[patch[u]])
      <4>1. at' = at
        BY <2>5, <3>2 DEF ReadOriginal
      <4>. QED  BY <3>1, <4>1 DEF Passed
    <3>3. CASE ~ (k[u] < Len(Originals[patch[u]]))
      <4>1. Goes(u, "write") /\ k' = [k EXCEPT ![u] = 1]
        BY <2>5, <3>3 DEF ReadOriginal
      <4>2. at'[u] = "write"
        BY <4>1, GoesFacts DEF Stages
      <4>3. k'[u] = 1
        BY <4>1 DEF TypeOK
      <4>4. \A i \in 1..Len(Originals[patch[u]]) : ~ (i < 1)
        OBVIOUS
      <4>. QED  BY <3>1, <4>2, <4>3, <4>4 DEF Passed
    <3>. QED  BY <3>2, <3>3
  <2>6. ASSUME WriteWrapper(u) PROVE Passed(u)'
    <3>. DEFINE f == held[u][OriginalOf(patch[u], k[u])]
                target == Targets[patch[u]][k[u]]
    <3>1. /\ patch[u] \in Patches /\ patch[u] \in Layers /\ f \in Seq(Layers)
          /\ k[u] \in 1..Len(Targets[patch[u]]) /\ target \in Names
      BY <2>6, WrittenFacts DEF WriteWrapper
    <3>2. /\ fn' = [fn EXCEPT ![target] = Wrap(patch[u], f)]
          /\ flags' = flags /\ at' = at /\ patch' = patch /\ at[u] = "write"
      BY <2>6 DEF WriteWrapper
    <3>3. k'[u] = k[u] + 1
      BY <2>6 DEF WriteWrapper, TypeOK
    <3>4. ASSUME NEW i \in 1..Len(Originals[patch[u]]), i < k[u] + 1
          PROVE  Has(fn'[Originals[patch[u]][i]], patch[u])
      <4>1. CASE i = k[u]
        <5>1. Originals[patch[u]][i] = target
          BY <3>1, <4>1, TableFacts
        <5>2. fn'[target] = Wrap(patch[u], f)
          BY <3>1, <3>2 DEF TypeOK
        <5>. QED  BY <3>1, <5>1, <5>2, WrapFacts
      <4>2. CASE i # k[u]
        <5>1. i < k[u]
          <6>1. k[u] \in 1..7
            BY DEF TypeOK
          <6>. QED  BY <3>4, <4>2, <6>1
        <5>2. Has(fn[Originals[patch[u]][i]], patch[u])
          BY <2>0, <3>2, <5>1 DEF Passed
        <5>. QED  BY <3>1, <5>2, LayersStay
      <4>. QED  BY <4>1, <4>2
    <3>5. patch[u] = "edges" => "falkor" \in flags
      BY <2>0, <3>2 DEF Passed
    <3>. HIDE DEF f, target
    <3>. QED  BY <3>2, <3>3, <3>4, <3>5 DEF Passed
  <2>7. ASSUME SetFlag(u) PROVE Passed(u)'
    <3>1. /\ flags' = flags \union {patch[u]} /\ GoesOn(u)
          /\ (patch[u] = "edges" => "falkor" \in flags)
      BY <2>0, <2>7 DEF SetFlag, Passed
    <3>. QED  BY <3>1, GoesOnFacts DEF Passed, Patches
  <2>8. ASSUME SaveLoop(u) \/ SwapLoop(u) \/ ConstructDriver(u) \/ RestoreLoop(u)
        PROVE  Passed(u)'
    <3>1. Patches \subseteq flags /\ flags' = flags
      BY <2>0, <2>8 DEF Passed, SaveLoop, SwapLoop, ConstructDriver, RestoreLoop
    <3>2. at'[u] \in {"swap", "construct", "restore", "idle"}
      BY <2>8, GoesFacts DEF SaveLoop, SwapLoop, ConstructDriver, RestoreLoop,
         Stages
    <3>. QED  BY <3>1, <3>2 DEF Passed
  <2>9. \/ at'[u] = at[u] /\ patch'[u] = patch[u] /\ k'[u] = k[u]
        \/ Begin(u) \/ Instrument(u) \/ CheckFlag(u) \/ ReadOriginal(u)
        \/ WriteWrapper(u) \/ SetFlag(u) \/ SaveLoop(u) \/ SwapLoop(u)
        \/ ConstructDriver(u) \/ RestoreLoop(u)
    <3>1. CASE UNCHANGED vars
      BY <3>1 DEF vars
    <3>2. ASSUME NEW t \in Threads, t # u,
                 \/ Begin(t) \/ Instrument(t) \/ CheckFlag(t) \/ ReadOriginal(t)
                 \/ WriteWrapper(t) \/ SetFlag(t) \/ SaveLoop(t) \/ SwapLoop(t)
                 \/ ConstructDriver(t) \/ RestoreLoop(t)
          PROVE  at'[u] = at[u] /\ patch'[u] = patch[u] /\ k'[u] = k[u]
      BY <3>2 DEF Begin, Instrument, CheckFlag, ReadOriginal, WriteWrapper,
         SetFlag, SaveLoop, SwapLoop, ConstructDriver, RestoreLoop, GoesOn,
         Goes, TypeOK
    <3>. QED  BY <3>1, <3>2 DEF Next
  <2>. QED  BY <2>1, <2>2, <2>3, <2>4, <2>5, <2>6, <2>7, <2>8, <2>9
<1>. QED  BY <1>2, <1>3 DEF PatchesInStep, Passed

-----------------------------------------------------------------------------
(* The replacement of get_running_loop.                                    *)

LEMMA LoopStep == TypeOK /\ LoopInStep /\ [Next]_vars => LoopInStep'
<1>. SUFFICES ASSUME TypeOK, LoopInStep, [Next]_vars, ~ overlap'
              PROVE  /\ ~ indexTask'
                     /\ (\A t \in Threads : ~ Constructing(t)') => getLoop' = "original"
                     /\ \A t \in Threads : Constructing(t)' =>
                          /\ \A u \in Threads : Constructing(u)' => u = t
                          /\ saved'[t] = "original"
                          /\ getLoop' = IF at'[t] = "swap" THEN "original" ELSE "raising"
  BY DEF LoopInStep
<1>. DEFINE Goal ==
       /\ ~ indexTask'
       /\ (\A t \in Threads : ~ Constructing(t)') => getLoop' = "original"
       /\ \A t \in Threads : Constructing(t)' =>
            /\ \A u \in Threads : Constructing(u)' => u = t
            /\ saved'[t] = "original"
            /\ getLoop' = IF at'[t] = "swap" THEN "original" ELSE "raising"
<1>1. ~ overlap
  BY DEF Next, vars, Begin, Instrument, CheckFlag, ReadOriginal, WriteWrapper,
         SetFlag, SaveLoop, SwapLoop, ConstructDriver, RestoreLoop
<1>2. /\ ~ indexTask
      /\ (\A t \in Threads : ~ Constructing(t)) => getLoop = "original"
      /\ \A t \in Threads : Constructing(t) =>
           /\ \A u \in Threads : Constructing(u) => u = t
           /\ saved[t] = "original"
           /\ getLoop = IF at[t] = "swap" THEN "original" ELSE "raising"
  BY <1>1 DEF LoopInStep
<1>3. CASE UNCHANGED vars
  BY <1>2, <1>3 DEF vars, Constructing
<1>4. ASSUME NEW t \in Threads,
             \/ Begin(t) \/ Instrument(t) \/ CheckFlag(t)
             \/ ReadOriginal(t) \/ WriteWrapper(t) \/ SetFlag(t)
      PROVE  Goal
  <2>1. UNCHANGED <<getLoop, saved, indexTask>>
    BY <1>4 DEF Begin, Instrument, CheckFlag, ReadOriginal, WriteWrapper, SetFlag
  <2>2. at[t] \in {"idle", "instrument", "check", "read", "write"}
    BY <1>4 DEF Begin, Instrument, CheckFlag, ReadOriginal, WriteWrapper, SetFlag
  <2>3. /\ at'[t] \notin {"swap", "construct", "restore"}
        /\ \A u \in Threads : u # t => at'[u] = at[u]
    BY <1>4, <2>2 DEF Begin, Instrument, CheckFlag, ReadOriginal, WriteWrapper,
       SetFlag, GoesOn, Goes, TypeOK
  <2>4. \A u \in Threads : /\ Constructing(u)' <=> Constructing(u)
                           /\ Constructing(u) => at'[u] = at[u]
    BY <2>2, <2>3 DEF Constructing
  <2>. QED  BY <1>2, <2>1, <2>4
<1>5. ASSUME NEW t \in Threads, SaveLoop(t)
      PROVE  Goal
  <2>1. /\ \A u \in Threads : ~ Constructing(u)
        /\ getLoop' = getLoop /\ indexTask' = indexTask
    BY <1>5 DEF SaveLoop
  <2>2. saved'[t] = getLoop
    BY <1>5 DEF SaveLoop, TypeOK
  <2>3. at'[t] = "swap" /\ \A u \in Threads : u # t => at'[u] = at[u]
    BY <1>5, GoesFacts DEF SaveLoop, Stages
  <2>4. \A u \in Threads : Constructing(u)' <=> u = t
    BY <2>1, <2>3 DEF Constructing
  <2>. QED  BY <1>2, <2>1, <2>2, <2>3, <2>4
<1>6. ASSUME NEW t \in Threads, SwapLoop(t)
      PROVE  Goal
  <2>1. /\ Constructing(t) /\ getLoop' = "raising" /\ indexTask' = indexTask
        /\ saved' = saved
    BY <1>6 DEF SwapLoop, Constructing
  <2>2. at'[t] = "construct" /\ \A u \in Threads : u # t => at'[u] = at[u]
    BY <1>6, GoesFacts DEF SwapLoop, Stages
  <2>3. \A u \in Threads : Constructing(u)' <=> u = t
    BY <1>2, <2>1, <2>2 DEF Constructing
  <2>. QED  BY <1>2, <2>1, <2>2, <2>3
<1>7. ASSUME NEW t \in Threads, ConstructDriver(t)
      PROVE  Goal
  <2>1. /\ Constructing(t) /\ at[t] = "construct"
        /\ getLoop' = getLoop /\ saved' = saved
        /\ indexTask' = (indexTask \/ getLoop = "original")
    BY <1>7 DEF ConstructDriver, Constructing
  <2>2. getLoop = "raising"
    BY <1>2, <2>1
  <2>3. at'[t] = "restore" /\ \A u \in Threads : u # t => at'[u] = at[u]
    BY <1>7, GoesFacts DEF ConstructDriver, Stages
  <2>4. \A u \in Threads : Constructing(u)' <=> u = t
    BY <1>2, <2>1, <2>3 DEF Constructing
  <2>. QED  BY <1>2, <2>1, <2>2, <2>3, <2>4
<1>8. ASSUME NEW t \in Threads, RestoreLoop(t)
      PROVE  Goal
  <2>1. /\ Constructing(t) /\ getLoop' = saved[t] /\ indexTask' = indexTask
    BY <1>8 DEF RestoreLoop, Constructing
  <2>2. at'[t] = "idle" /\ \A u \in Threads : u # t => at'[u] = at[u]
    BY <1>8, GoesFacts DEF RestoreLoop, Stages
  <2>3. \A u \in Threads : ~ Constructing(u)'
    BY <1>2, <2>1, <2>2 DEF Constructing
  <2>. QED  BY <1>2, <2>1, <2>3
<1>. QED  BY <1>3, <1>4, <1>5, <1>6, <1>7, <1>8 DEF Next

-----------------------------------------------------------------------------
(* How deep the wrappers are: a function has a layer not at all, at most   *)
(* once, at most twice.                                                    *)
Zero(f, l) == \A i \in 1..Len(f) : f[i] # l
One(f, l) == \A i, j \in 1..Len(f) : f[i] = l /\ f[j] = l => i = j
Two(f, l) ==
  \A a, b, c \in 1..Len(f) :
    f[a] = l /\ f[b] = l /\ f[c] = l => a = b \/ b = c \/ a = c

Only(f, p) == \A l \in Layers \ {p} : Zero(f, l)

(* A thread goes through a patch once: it is engaged in it, has written    *)
(* the wrapper of its i-th original, and is done with it, as are all that  *)
(* come later.                                                             *)
Engaged(t, p) == at[t] \in {"read", "write"} /\ patch[t] = p
Wrote(t, p, i) == at[t] = "write" /\ patch[t] = p /\ k[t] > i
Through(t, p, i) == Wrote(t, p, i) \/ (p \in flags /\ ~ Engaged(t, p))
Holds(t, p, i) == Engaged(t, p) /\ (at[t] = "read" => k[t] > i)
Untouched(p, i) == \A t \in Threads : ~ Through(t, p, i)

(* An original has no more layers of its patch than threads went through.  *)
FunctionDepth(p, i) ==
  LET f == fn[Originals[p][i]]
  IN  /\ Only(f, p) /\ Two(f, p)
      /\ (\E t \in Threads : ~ Through(t, p, i)) => One(f, p)
      /\ Untouched(p, i) => Zero(f, p)

(* What a thread has read was in its place before the thread got through.  *)
HeldDepth(t, p, i) ==
  Holds(t, p, i) => /\ Only(held[t][i], p) /\ One(held[t][i], p)
                    /\ Untouched(p, i) => Zero(held[t][i], p)

(* Graphiti's own name is instrumented by the dispatcher only, once.       *)
Plain(f) == Two(f, "falkor") /\ Zero(f, "edges")

InstrumentDepth ==
  /\ Plain(fn["graphiti.add"]) /\ One(fn["graphiti.add"], "instrumented")
  /\ "instrumented" \notin flags => Zero(fn["graphiti.add"], "instrumented")

InstrumentHeld(t) ==
  at[t] = "instrument" =>
    /\ t = Dispatcher /\ "instrumented" \notin flags
    /\ Plain(held[t][1]) /\ Zero(held[t][1], "instrumented")

DepthInv ==
  /\ \A p \in Patches : \A i \in 1..Len(Originals[p]) :
       FunctionDepth(p, i) /\ \A t \in Threads : HeldDepth(t, p, i)
  /\ InstrumentDepth
  /\ \A t \in Threads : InstrumentHeld(t)

TwoThreads == \A t, u, v \in Threads : t = u \/ u = v \/ t = v

LEMMA WrapDepth ==
  ASSUME NEW f \in Seq(Layers), NEW layer \in Layers, NEW l \in Layers
  PROVE  /\ l # layer => /\ Zero(f, l) => Zero(Wrap(layer, f), l)
                         /\ One(f, l) => One(Wrap(layer, f), l)
                         /\ Two(f, l) => Two(Wrap(layer, f), l)
         /\ Zero(f, layer) => One(Wrap(layer, f), layer)
         /\ One(f, layer) => Two(Wrap(layer, f), layer)
<1>. DEFINE g == Wrap(layer, f)
<1>1. Len(g) = Len(f) + 1 /\ Len(f) \in Nat
  BY DEF Wrap
<1>2. \A i \in 1..Len(g) :
        IF i = 1 THEN g[i] = layer
                 ELSE g[i] = f[i - 1] /\ i - 1 \in 1..Len(f)
  BY DEF Wrap
<1>. HIDE DEF g
<1>3. \A i \in 1..Len(g) : i \in Nat
  BY <1>1
<1>4. l # layer => (Zero(f, l) => Zero(g, l))
  BY <1>2 DEF Zero
<1>5. l # layer => (One(f, l) => One(g, l))
  BY <1>2, <1>3 DEF One
<1>6. ASSUME l # layer, Two(f, l)
      PROVE  Two(g, l)
  <2>. SUFFICES ASSUME NEW a \in 1..Len(g), NEW b \in 1..Len(g), NEW c \in 1..Len(g),
                       g[a] = l, g[b] = l, g[c] = l
                PROVE  a = b \/ b = c \/ a = c
    BY DEF Two
  <2>1. /\ a # 1 /\ f[a - 1] = l /\ a - 1 \in 1..Len(f)
        /\ b # 1 /\ f[b - 1] = l /\ b - 1 \in 1..Len(f)
        /\ c # 1 /\ f[c - 1] = l /\ c - 1 \in 1..Len(f)
    BY <1>2, <1>6
  <2>2. a - 1 = b - 1 \/ b - 1 = c - 1 \/ a - 1 = c - 1
    BY <1>6, <2>1 DEF Two
  <2>. QED  BY <1>3, <2>2
<1>7. Zero(f, layer) => One(g, layer)
  BY <1>2 DEF Zero, One
<1>8. ASSUME One(f, layer)
      PROVE  Two(g, layer)
  <2>1. ASSUME NEW a \in 1..Len(g), NEW b \in 1..Len(g),
               g[a] = layer, g[b] = layer, a # 1, b # 1
        PROVE  a = b
    <3>1. /\ f[a - 1] = layer /\ a - 1 \in 1..Len(f)
          /\ f[b - 1] = layer /\ b - 1 \in 1..Len(f)
      BY <1>2, <2>1
    <3>2. a - 1 = b - 1
      BY <1>8, <3>1 DEF One
    <3>. QED  BY <1>3, <3>2
  <2>. QED  BY <2>1 DEF Two
<1>. QED  BY <1>4, <1>5, <1>6, <1>7, <1>8 DEF g

LEMMA Deeper ==
  ASSUME NEW f, NEW l
  PROVE  (Zero(f, l) => One(f, l)) /\ (One(f, l) => Two(f, l))
BY DEF Zero, One, Two

(* Each original is replaced at its own place of the table, and the name   *)
(* that is instrumented at the last place of the first.                    *)
LEMMA OwnPlace ==
  ASSUME NEW q \in Patches, NEW j \in 1..Len(Targets[q])
  PROVE  /\ \A p \in Patches : \A i \in 1..Len(Originals[p]) :
              Targets[q][j] = Originals[p][i] => p = q /\ i = j
         /\ Targets[q][j] = "graphiti.add" => q = "falkor"
<1>. DEFINE F == <<"node.save_bulk", "edge.save_bulk", "node.save",
                    "edge.save", "bulk_utils.add">>
            G == <<"node.save_bulk", "edge.save_bulk", "node.save",
                    "edge.save", "bulk_utils.add", "graphiti.add">>
            E == <<"semaphore_gather", "search">>
<1>1. Originals["falkor"] = F /\ Targets["falkor"] = G
      /\ Originals["edges"] = E /\ Targets["edges"] = E
  BY DEF Originals, Targets
<1>2. Len(F) = 5 /\ Len(G) = 6 /\ Len(E) = 2
  OBVIOUS
<1>3. \A a \in 1..5 : \A b \in 1..6 : G[b] = F[a] => a = b
  OBVIOUS
<1>4. \A a \in 1..2 : \A b \in 1..2 : E[b] = E[a] => a = b
  OBVIOUS
<1>5. \A b \in 1..2 : E[b] # "graphiti.add"
  OBVIOUS
<1>. HIDE DEF F, G, E
<1>6. ASSUME NEW i \in 1..Len(Originals[q]), Targets[q][j] = Originals[q][i]
      PROVE  i = j
  BY <1>1, <1>2, <1>3, <1>4, <1>6 DEF Patches
<1>7. Targets[q][j] = "graphiti.add" => q = "falkor"
  BY <1>1, <1>2, <1>5 DEF Patches
<1>. QED  BY <1>6, <1>7, Disjoint

(* A step changes where one thread is and what it holds.                   *)
LEMMA OthersAlone ==
  ASSUME TypeOK, [Next]_vars, NEW t \in Threads
  PROVE  \/ /\ at'[t] = at[t] /\ patch'[t] = patch[t] /\ k'[t] = k[t]
            /\ held'[t] = held[t]
         \/ Begin(t) \/ Instrument(t) \/ CheckFlag(t) \/ ReadOriginal(t)
         \/ WriteWrapper(t) \/ SetFlag(t) \/ SaveLoop(t) \/ SwapLoop(t)
         \/ ConstructDriver(t) \/ RestoreLoop(t)
<1>1. CASE UNCHANGED vars
  BY <1>1 DEF vars
<1>2. ASSUME NEW u \in Threads, u # t,
             \/ Begin(u) \/ Instrument(u) \/ CheckFlag(u) \/ ReadOriginal(u)
             \/ WriteWrapper(u) \/ SetFlag(u) \/ SaveLoop(u) \/ SwapLoop(u)
             \/ ConstructDriver(u) \/ RestoreLoop(u)
      PROVE  /\ at'[t] = at[t] /\ patch'[t] = patch[t] /\ k'[t] = k[t]
             /\ held'[t] = held[t]
  BY <1>2 DEF Begin, Instrument, CheckFlag, ReadOriginal, WriteWrapper,
     SetFlag, SaveLoop, SwapLoop, ConstructDriver, RestoreLoop, GoesOn,
     Goes, TypeOK
<1>. QED  BY <1>1, <1>2 DEF Next

(* Who is through with a patch stays so.                                   *)
LEMMA ThroughStays ==
  ASSUME TypeOK, [Next]_vars, NEW p \in Patches,
         NEW i \in 1..Len(Originals[p]), NEW t \in Threads, Through(t, p, i)
  PROVE  Through(t, p, i)'
<1>0. i \in Nat /\ i >= 1
  <2>1. Len(Originals[p]) \in 1..5
    BY TableFacts
  <2>2. \A n \in 1..5 : \A a \in 1..n : a \in Nat /\ a >= 1
    OBVIOUS
  <2>. HIDE DEF Originals
  <2>. QED  BY <2>1, <2>2
<1>1. flags \subseteq flags'
  BY DEF Next, vars, Begin, Instrument, CheckFlag, ReadOriginal, WriteWrapper,
         SetFlag, SaveLoop, SwapLoop, ConstructDriver, RestoreLoop
<1>2. CASE at'[t] = at[t] /\ patch'[t] = patch[t] /\ k'[t] = k[t]
  BY <1>1, <1>2 DEF Through, Wrote, Engaged
<1>3. CASE \/ Begin(t) \/ Instrument(t) \/ SaveLoop(t) \/ SwapLoop(t)
           \/ ConstructDriver(t) \/ RestoreLoop(t)
  <2>1. /\ at[t] \notin {"read", "write"}
        /\ \E stage \in Stages \ {"read", "write"} : Goes(t, stage)
    BY <1>3 DEF Begin, Instrument, SaveLoop, SwapLoop, ConstructDriver,
       RestoreLoop, Stages
  <2>2. at'[t] \notin {"read", "write"}
    BY <2>1, GoesFacts
  <2>. QED  BY <1>1, <2>1, <2>2 DEF Through, Wrote, Engaged
<1>4. CASE CheckFlag(t)
  <2>1. at[t] = "check" /\ p \in flags
    BY <1>4 DEF CheckFlag, Through, Wrote
  <2>2. CASE patch[t] \in flags
    BY <1>1, <1>4, <2>1, <2>2, GoesOnFacts DEF CheckFlag, Through, Engaged
  <2>3. CASE patch[t] \notin flags
    <3>1. patch'[t] # p
      BY <1>4, <2>1, <2>3 DEF CheckFlag
    <3>. QED  BY <1>1, <2>1, <3>1 DEF Through, Engaged
  <2>. QED  BY <2>2, <2>3
<1>5. CASE ReadOriginal(t)
  <2>1. at[t] = "read" /\ patch' = patch /\ flags' = flags
    BY <1>5 DEF ReadOriginal
  <2>2. p \in flags /\ patch[t] # p
    BY <2>1 DEF Through, Wrote, Engaged
  <2>. QED  BY <2>1, <2>2 DEF Through, Engaged
<1>6. CASE WriteWrapper(t)
  <2>0. k \in [Threads -> 1..7]
    BY DEF TypeOK
  <2>1. at' = at /\ patch' = patch /\ flags' = flags /\ k'[t] = k[t] + 1
        /\ k[t] \in Nat
    BY <1>6, <2>0 DEF WriteWrapper
  <2>2. k[t] > i => k[t] + 1 > i
    BY <1>0, <2>1
  <2>. QED  BY <2>1, <2>2 DEF Through, Wrote, Engaged
<1>7. CASE SetFlag(t)
  <2>1. flags' = flags \union {patch[t]} /\ GoesOn(t) /\ at[t] = "write"
    BY <1>7 DEF SetFlag
  <2>2. p \in flags'
    BY <2>1 DEF Through, Wrote
  <2>. QED  BY <2>1, <2>2, GoesOnFacts DEF Through, Engaged
<1>8. \/ at'[t] = at[t] /\ patch'[t] = patch[t] /\ k'[t] = k[t]
      \/ Begin(t) \/ Instrument(t) \/ CheckFlag(t) \/ ReadOriginal(t)
      \/ WriteWrapper(t) \/ SetFlag(t) \/ SaveLoop(t) \/ SwapLoop(t)
      \/ ConstructDriver(t) \/ RestoreLoop(t)
  BY OthersAlone
<1>. QED  BY <1>2, <1>3, <1>4, <1>5, <1>6, <1>7, <1>8

(* What is written, at which place, and where it comes from.               *)
LEMMA WriteFacts ==
  ASSUME TypeOK, NEW t \in Threads, WriteWrapper(t)
  PROVE  /\ patch[t] \in Patches /\ patch[t] \in Layers
         /\ k[t] \in 1..Len(Targets[patch[t]])
         /\ OriginalOf(patch[t], k[t]) \in 1..Len(Originals[patch[t]])
         /\ k[t] <= Len(Originals[patch[t]]) => OriginalOf(patch[t], k[t]) = k[t]
         /\ held[t][OriginalOf(patch[t], k[t])] \in Seq(Layers)
         /\ fn' = [fn EXCEPT ![Targets[patch[t]][k[t]]] =
                     Wrap(patch[t], held[t][OriginalOf(patch[t], k[t])])]
         /\ \A i : Holds(t, patch[t], i)
<1>1. /\ at[t] = "write" /\ k[t] <= Len(Targets[patch[t]])
      /\ fn' = [fn EXCEPT ![Targets[patch[t]][k[t]]] =
                  Wrap(patch[t], held[t][OriginalOf(patch[t], k[t])])]
  BY DEF WriteWrapper
<1>2. /\ patch[t] \in Patches /\ patch[t] \in Layers
      /\ k[t] \in 1..Len(Targets[patch[t]])
      /\ held[t][OriginalOf(patch[t], k[t])] \in Seq(Layers)
  BY <1>1, WrittenFacts
<1>3. Len(Originals[patch[t]]) \in 1..5 /\ k[t] \in 1..7
  BY <1>2, TableFacts DEF TypeOK
<1>4. \A n \in 1..5, a \in 1..7 : (a <= n => a \in 1..n) /\ n \in 1..n
  OBVIOUS
<1>5. /\ OriginalOf(patch[t], k[t]) \in 1..Len(Originals[patch[t]])
      /\ k[t] <= Len(Originals[patch[t]]) => OriginalOf(patch[t], k[t]) = k[t]
  BY <1>3, <1>4 DEF OriginalOf
<1>6. \A i : Holds(t, patch[t], i)
  BY <1>1 DEF Holds, Engaged
<1>. QED  BY <1>1, <1>2, <1>5, <1>6

(* The functions: a step that is not a wrapping of the i-th original of p  *)
(* leaves it alone, and the wrapping adds the layer of p to what the       *)
(* thread holds.                                                           *)
LEMMA FunctionStep ==
  ASSUME TwoThreads, TypeOK, DepthInv, [Next]_vars,
         NEW p \in Patches, NEW i \in 1..Len(Originals[p])
  PROVE  FunctionDepth(p, i)'
<1>. DEFINE name == Originals[p][i]
<1>0. /\ name \in Names /\ name # "graphiti.add" /\ fn \in [Names -> Seq(Layers)]
      /\ FunctionDepth(p, i) /\ \A t \in Threads : HeldDepth(t, p, i)
  BY TableFacts DEF TypeOK, DepthInv
<1>1. \A t \in Threads : Through(t, p, i) => Through(t, p, i)'
  BY ThroughStays
<1>2. CASE fn'[name] = fn[name]
  BY <1>0, <1>1, <1>2 DEF FunctionDepth, Untouched
<1>3. CASE fn'[name] # fn[name]
  <2>1. PICK t \in Threads : WriteWrapper(t)
    <3>1. ASSUME NEW t \in Threads, Instrument(t)
          PROVE  fn'[name] = fn[name]
      BY <1>0, <3>1 DEF Instrument
    <3>2. \/ fn' = fn
          \/ \E t \in Threads : Instrument(t) \/ WriteWrapper(t)
      BY DEF Next, vars, Begin, CheckFlag, ReadOriginal, SetFlag, SaveLoop,
             SwapLoop, ConstructDriver, RestoreLoop
    <3>. QED  BY <1>3, <3>1, <3>2
  <2>. DEFINE f == held[t][OriginalOf(patch[t], k[t])]
              target == Targets[patch[t]][k[t]]
  <2>2. target = name /\ fn'[name] = Wrap(patch[t], f)
    <3>1. fn' = [fn EXCEPT ![target] = Wrap(patch[t], f)]
      BY <2>1, WriteFacts
    <3>. HIDE DEF f, target, name
    <3>. QED  BY <1>0, <1>3, <3>1
  <2>3. patch[t] = p /\ k[t] = i
    BY <2>1, <2>2, WriteFacts, OwnPlace
  <2>4. /\ f = held[t][i] /\ f \in Seq(Layers) /\ p \in Layers
        /\ Holds(t, p, i) /\ i \in Nat
    <3>1. i <= Len(Originals[p]) /\ i \in Nat
      <4>1. Len(Originals[p]) \in 1..5
        BY TableFacts
      <4>2. \A n \in 1..5 : \A a \in 1..n : a <= n /\ a \in Nat
        OBVIOUS
      <4>. HIDE DEF Originals
      <4>. QED  BY <4>1, <4>2
    <3>. QED  BY <2>1, <2>3, <3>1, WriteFacts
  <2>. HIDE DEF f, target, name
  <2>5. /\ ~ Through(t, p, i) /\ Through(t, p, i)'
    <3>1. /\ at[t] = "write" /\ at' = at /\ patch' = patch /\ k'[t] = i + 1
      <4>1. k \in [Threads -> 1..7]
        BY DEF TypeOK
      <4>. QED  BY <2>1, <2>3, <4>1 DEF WriteWrapper
    <3>2. ~ (i > i) /\ i + 1 > i
      BY <2>4
    <3>. QED  BY <2>3, <3>1, <3>2 DEF Through, Wrote, Engaged
  <2>6. /\ Only(f, p) /\ One(f, p)
        /\ Untouched(p, i) => Zero(f, p)
    BY <1>0, <2>4 DEF HeldDepth
  <2>7. Only(fn'[name], p)
    BY <2>2, <2>3, <2>4, <2>6, WrapDepth DEF Only
  <2>8. Two(fn'[name], p)
    BY <2>2, <2>3, <2>4, <2>6, WrapDepth
  <2>9. (\E u \in Threads : ~ Through(u, p, i)') => One(fn'[name], p)
    <3>. SUFFICES ASSUME NEW u \in Threads, ~ Through(u, p, i)'
                  PROVE  One(fn'[name], p)
      OBVIOUS
    <3>1. Untouched(p, i)
      BY <1>1, <2>5 DEF TwoThreads, Untouched
    <3>. QED  BY <2>2, <2>3, <2>4, <2>6, <3>1, WrapDepth
  <2>10. ~ Untouched(p, i)'
    BY <2>5 DEF Untouched
  <2>. QED  BY <2>7, <2>8, <2>9, <2>10 DEF FunctionDepth, name
<1>. QED  BY <1>2, <1>3

(* What a thread holds: nothing of it changes, and the i-th original is    *)
(* read before the thread gets through with it.                            *)
LEMMA HeldStep ==
  ASSUME TypeOK, DepthInv, [Next]_vars, NEW t \in Threads,
         NEW p \in Patches, NEW i \in 1..Len(Originals[p])
  PROVE  HeldDepth(t, p, i)'
<1>. SUFFICES ASSUME Holds(t, p, i)'
              PROVE  /\ Only(held'[t][i], p) /\ One(held'[t][i], p)
                     /\ Untouched(p, i)' => Zero(held'[t][i], p)
  BY DEF HeldDepth
<1>0. /\ HeldDepth(t, p, i) /\ FunctionDepth(p, i)
      /\ Untouched(p, i)' => Untouched(p, i)
  BY ThroughStays DEF DepthInv, Untouched
<1>1. CASE Holds(t, p, i) /\ held'[t][i] = held[t][i]
  BY <1>0, <1>1 DEF HeldDepth
<1>2. CASE ~ Through(t, p, i) /\ held'[t][i] = fn[Originals[p][i]]
  BY <1>0, <1>2 DEF FunctionDepth
<1>3. \/ Holds(t, p, i) /\ held'[t][i] = held[t][i]
      \/ ~ Through(t, p, i) /\ held'[t][i] = fn[Originals[p][i]]
  <2>1. CASE at'[t] = at[t] /\ patch'[t] = patch[t] /\ k'[t] = k[t]
             /\ held'[t] = held[t]
    BY <2>1 DEF Holds, Engaged
  <2>2. ASSUME \/ Begin(t) \/ Instrument(t) \/ SaveLoop(t) \/ SwapLoop(t)
               \/ ConstructDriver(t) \/ RestoreLoop(t) \/ SetFlag(t)
        PROVE  FALSE
    <3>1. at'[t] \notin {"read", "write"}
      <4>1. CASE SetFlag(t)
        BY <4>1, GoesOnFacts DEF SetFlag
      <4>2. CASE ~ SetFlag(t)
        <5>1. \E stage \in Stages \ {"read", "write"} : Goes(t, stage)
          BY <2>2, <4>2 DEF Begin, Instrument, SaveLoop, SwapLoop,
             ConstructDriver, RestoreLoop, Stages
        <5>. QED  BY <5>1, GoesFacts
      <4>. QED  BY <4>1, <4>2
    <3>. QED  BY <3>1 DEF Holds, Engaged
  <2>3. ASSUME CheckFlag(t) PROVE FALSE
    <3>1. CASE patch[t] \in flags
      BY <2>3, <3>1, GoesOnFacts DEF CheckFlag, Holds, Engaged
    <3>2. CASE patch[t] \notin flags
      <4>1. Goes(t, "read") /\ k'[t] = 1
        <5>1. k \in [Threads -> 1..7]
          BY DEF TypeOK
        <5>. QED  BY <2>3, <3>2, <5>1 DEF CheckFlag
      <4>2. at'[t] = "read"
        BY <4>1, GoesFacts DEF Stages
      <4>3. ~ (1 > i)
        <5>1. Len(Originals[p]) \in 1..5
          BY TableFacts
        <5>2. \A n \in 1..5 : \A a \in 1..n : ~ (1 > a)
          OBVIOUS
        <5>. HIDE DEF Originals
        <5>. QED  BY <5>1, <5>2
      <4>. QED  BY <4>1, <4>2, <4>3 DEF Holds
    <3>. QED  BY <3>1, <3>2
  <2>4. CASE WriteWrapper(t)
    BY <2>4 DEF WriteWrapper, Holds, Engaged
  <2>5. CASE ReadOriginal(t)
    <3>1. /\ at[t] = "read" /\ patch' = patch /\ patch[t] = p
          /\ held'[t] = Append(held[t], fn[Originals[p][k[t]]])
      BY <2>5 DEF ReadOriginal, TypeOK, Holds, Engaged
    <3>2. /\ Len(held[t]) = k[t] - 1 /\ held[t] \in Seq(Seq(Layers))
          /\ k[t] \in 1..7 /\ k[t] <= Len(Originals[p])
          /\ Len(Originals[p]) \in 1..5
      BY <3>1, TypeParts, TableFacts DEF InHand, Functions, Places
    <3>3. i <= k[t]
      <4>1. CASE k[t] < Len(Originals[p])
        <5>1. k'[t] = k[t] + 1 /\ at'[t] = "read"
          <6>1. k \in [Threads -> 1..7]
            BY DEF TypeOK
          <6>. QED  BY <2>5, <3>1, <4>1, <6>1 DEF ReadOriginal
        <5>2. k[t] + 1 > i
          BY <5>1 DEF Holds
        <5>3. \A a \in 1..7 : \A n \in 1..5 : \A b \in 1..n : a + 1 > b => b <= a
          OBVIOUS
        <5>. HIDE DEF Originals
        <5>. QED  BY <3>2, <5>2, <5>3
      <4>2. CASE ~ (k[t] < Len(Originals[p]))
        <5>1. \A a \in 1..7 : \A n \in 1..5 : \A b \in 1..n : ~ (a < n) => b <= a
          OBVIOUS
        <5>. HIDE DEF Originals
        <5>. QED  BY <3>2, <4>2, <5>1
      <4>. QED  BY <4>1, <4>2
    <3>4. i \in Nat /\ i >= 1
      <4>1. \A n \in 1..5 : \A b \in 1..n : b \in Nat /\ b >= 1
        OBVIOUS
      <4>. HIDE DEF Originals
      <4>. QED  BY <3>2, <4>1
    <3>5. CASE i = k[t]
      <4>. DEFINE f == fn[Originals[p][k[t]]]
      <4>. HIDE DEF f
      <4>1. held'[t][k[t]] = f
        BY <3>1, <3>2 DEF f
      <4>2. ~ Through(t, p, i)
        BY <3>1 DEF Through, Wrote, Engaged
      <4>. QED  BY <3>5, <4>1, <4>2 DEF f
    <3>6. CASE i # k[t]
      <4>. DEFINE f == fn[Originals[p][k[t]]]
      <4>. HIDE DEF f
      <4>1. k[t] > i
        BY <3>2, <3>3, <3>4, <3>6
      <4>2. i \in 1..Len(held[t])
        BY <3>2, <3>4, <4>1
      <4>3. held'[t][i] = held[t][i]
        BY <3>1, <3>2, <4>2 DEF f
      <4>. QED  BY <3>1, <4>1, <4>3 DEF Holds, Engaged
    <3>. QED  BY <3>5, <3>6
  <2>6. \/ /\ at'[t] = at[t] /\ patch'[t] = patch[t] /\ k'[t] = k[t]
           /\ held'[t] = held[t]
        \/ Begin(t) \/ Instrument(t) \/ CheckFlag(t) \/ ReadOriginal(t)
        \/ WriteWrapper(t) \/ SetFlag(t) \/ SaveLoop(t) \/ SwapLoop(t)
        \/ ConstructDriver(t) \/ RestoreLoop(t)
    BY OthersAlone
  <2>. QED  BY <2>1, <2>2, <2>3, <2>4, <2>5, <2>6
<1>. QED  BY <1>1, <1>2, <1>3

(* Graphiti's own name: the Falkor patch replaces what the instrumentation *)
(* has put there, or is wrapped by it.                                     *)
LEMMA InstrumentStep ==
  ASSUME TypeOK, DepthInv, [Next]_vars
  PROVE  InstrumentDepth'
<1>. DEFINE name == "graphiti.add"
<1>0. /\ name \in Names /\ fn \in [Names -> Seq(Layers)]
      /\ InstrumentDepth /\ \A t \in Threads : InstrumentHeld(t)
      /\ "falkor" \in Layers /\ "edges" \in Layers /\ "instrumented" \in Layers
      /\ "falkor" \in Patches
  BY DEF TypeOK, DepthInv, Names, Layers, Patches
<1>1. CASE fn' = fn /\ flags \subseteq flags'
  BY <1>1, <1>0 DEF InstrumentDepth
<1>2. ASSUME NEW t \in Threads, Instrument(t)
      PROVE  InstrumentDepth'
  <2>. DEFINE f == held[t][1]
  <2>1. f \in Seq(Layers)
    <3>1. Len(held[t]) = 1 /\ held[t] \in Seq(Seq(Layers))
      BY <1>2, TypeParts DEF InHand, Functions, Instrument
    <3>. QED  BY <3>1
  <2>2. Plain(f) /\ Zero(f, "instrumented")
    BY <1>0, <1>2 DEF InstrumentHeld, Instrument
  <2>3. fn'[name] = Wrap("instrumented", f) /\ "instrumented" \in flags'
    BY <1>0, <1>2 DEF Instrument
  <2>. HIDE DEF f
  <2>4. Plain(fn'[name]) /\ One(fn'[name], "instrumented")
    BY <1>0, <2>1, <2>2, <2>3, WrapDepth DEF Plain
  <2>. QED  BY <2>3, <2>4 DEF InstrumentDepth
<1>3. ASSUME NEW t \in Threads, WriteWrapper(t)
      PROVE  InstrumentDepth'
  <2>. DEFINE i == OriginalOf(patch[t], k[t])
              f == held[t][i]
              target == Targets[patch[t]][k[t]]
  <2>1. /\ flags' = flags /\ patch[t] \in Patches
        /\ i \in 1..Len(Originals[patch[t]]) /\ f \in Seq(Layers)
        /\ fn' = [fn EXCEPT ![target] = Wrap(patch[t], f)]
        /\ Holds(t, patch[t], i)
    BY <1>3, WriteFacts DEF WriteWrapper
  <2>2. target = name => patch[t] = "falkor"
    BY <1>3, WriteFacts, OwnPlace
  <2>3. HeldDepth(t, patch[t], i)
    BY <2>1 DEF DepthInv
  <2>4. Only(f, patch[t]) /\ One(f, patch[t])
    BY <2>1, <2>3 DEF HeldDepth
  <2>. HIDE DEF i, f, target
  <2>5. CASE target = name
    <3>1. fn'[name] = Wrap("falkor", f) /\ patch[t] = "falkor"
      BY <1>0, <2>1, <2>2, <2>5
    <3>2. Zero(f, "edges") /\ Zero(f, "instrumented") /\ One(f, "falkor")
      BY <1>0, <2>4, <3>1 DEF Only
    <3>3. /\ Two(fn'[name], "falkor") /\ Zero(fn'[name], "edges")
          /\ Zero(fn'[name], "instrumented")
      BY <1>0, <2>1, <3>1, <3>2, WrapDepth
    <3>. QED  BY <3>3, Deeper DEF InstrumentDepth, Plain
  <2>6. CASE target # name
    <3>1. fn'[name] = fn[name]
      BY <1>0, <2>1, <2>6
    <3>. QED  BY <1>0, <2>1, <3>1 DEF InstrumentDepth
  <2>. QED  BY <2>5, <2>6
<1>4. \/ fn' = fn /\ flags \subseteq flags'
      \/ \E t \in Threads : Instrument(t) \/ WriteWrapper(t)
  BY DEF Next, vars, Begin, CheckFlag, ReadOriginal, SetFlag, SaveLoop,
         SwapLoop, ConstructDriver, RestoreLoop
<1>. QED  BY <1>1, <1>2, <1>3, <1>4

LEMMA InstrumentHeldStep ==
  ASSUME TypeOK, DepthInv, [Next]_vars, NEW t \in Threads
  PROVE  InstrumentHeld(t)'
<1>. SUFFICES ASSUME at'[t] = "instrument"
              PROVE  /\ t = Dispatcher /\ "instrumented" \notin flags'
                     /\ Plain(held'[t][1]) /\ Zero(held'[t][1], "instrumented")
  BY DEF InstrumentHeld
<1>0. InstrumentHeld(t) /\ InstrumentDepth /\ \A u \in Threads : InstrumentHeld(u)
  BY DEF DepthInv
<1>1. CASE Begin(t)
  <2>1. CASE t = Dispatcher /\ "instrumented" \notin flags
    <3>1. held'[t] = <<fn["graphiti.add"]>> /\ flags' = flags
      BY <1>1, <2>1 DEF Begin, TypeOK
    <3>2. held'[t][1] = fn["graphiti.add"]
      BY <3>1
    <3>. QED  BY <1>0, <2>1, <3>1, <3>2 DEF InstrumentDepth
  <2>2. CASE ~ (t = Dispatcher /\ "instrumented" \notin flags)
    <3>1. Goes(t, "check")
      BY <1>1, <2>2 DEF Begin
    <3>2. at'[t] = "check"
      BY <3>1, GoesFacts DEF Stages
    <3>. QED  BY <3>2
  <2>. QED  BY <2>1, <2>2
<1>2. CASE \/ Instrument(t) \/ CheckFlag(t) \/ ReadOriginal(t)
           \/ WriteWrapper(t) \/ SetFlag(t) \/ SaveLoop(t) \/ SwapLoop(t)
           \/ ConstructDriver(t) \/ RestoreLoop(t)
  <2>1. CASE GoesOn(t)
    BY <2>1, GoesOnFacts
  <2>2. CASE at' = at /\ at[t] # "instrument"
    BY <2>2
  <2>3. CASE \E stage \in Stages \ {"instrument"} : Goes(t, stage)
    BY <2>3, GoesFacts
  <2>4. \/ GoesOn(t)
        \/ at' = at /\ at[t] # "instrument"
        \/ \E stage \in Stages \ {"instrument"} : Goes(t, stage)
    BY <1>2 DEF Instrument, CheckFlag, ReadOriginal, WriteWrapper, SetFlag,
       SaveLoop, SwapLoop, ConstructDriver, RestoreLoop, Stages
  <2>. QED  BY <2>1, <2>2, <2>3, <2>4
<1>3. CASE at'[t] = at[t] /\ held'[t] = held[t]
  <2>1. /\ t = Dispatcher /\ "instrumented" \notin flags
        /\ Plain(held'[t][1]) /\ Zero(held'[t][1], "instrumented")
    BY <1>0, <1>3 DEF InstrumentHeld
  <2>2. "instrumented" \notin flags'
    <3>1. ASSUME NEW u \in Threads, Instrument(u)
          PROVE  FALSE
      <4>1. u = t
        BY <1>0, <2>1, <3>1 DEF InstrumentHeld, Instrument
      <4>2. at'[t] \in {"check", "idle"}
        <5>1. Goes(t, "check") \/ Goes(t, "idle")
          BY <3>1, <4>1 DEF Instrument
        <5>. QED  BY <5>1, GoesFacts DEF Stages
      <4>. QED  BY <4>2
    <3>2. ASSUME NEW u \in Threads, SetFlag(u)
          PROVE  "instrumented" \notin flags'
      <4>1. patch[u] # "instrumented"
        BY DEF TypeOK, Patches
      <4>. QED  BY <2>1, <3>2, <4>1 DEF SetFlag
    <3>3. \/ flags' = flags
          \/ \E u \in Threads : Instrument(u) \/ SetFlag(u)
      BY DEF Next, vars, Begin, CheckFlag, ReadOriginal, WriteWrapper,
             SaveLoop, SwapLoop, ConstructDriver, RestoreLoop
    <3>. QED  BY <2>1, <3>1, <3>2, <3>3
  <2>. QED  BY <2>1, <2>2
<1>. QED  BY <1>1, <1>2, <1>3, OthersAlone

LEMMA DepthStep ==
  ASSUME TwoThreads, TypeOK, DepthInv, [Next]_vars
  PROVE  DepthInv'
<1>1. ASSUME NEW p \in Patches, NEW i \in 1..Len(Originals[p])
      PROVE  FunctionDepth(p, i)' /\ \A t \in Threads : HeldDepth(t, p, i)'
  BY FunctionStep, HeldStep
<1>2. InstrumentDepth' /\ \A t \in Threads : InstrumentHeld(t)'
  BY InstrumentStep, InstrumentHeldStep
<1>. QED  BY <1>1, <1>2 DEF DepthInv

LEMMA InitDepth == Init => DepthInv
<1>. SUFFICES ASSUME Init PROVE DepthInv
  OBVIOUS
<1>1. \A name \in Names : fn[name] = <<>>
  BY DEF Init
<1>2. \A l : Zero(<<>>, l)
  BY DEF Zero
<1>3. \A p \in Patches : \A i \in 1..Len(Originals[p]) : fn[Originals[p][i]] = <<>>
  BY <1>1, TableFacts
<1>4. \A t \in Threads : at[t] = "idle"
  BY DEF Init
<1>5. \A p \in Patches : \A i \in 1..Len(Originals[p]) :
        FunctionDepth(p, i) /\ \A t \in Threads : HeldDepth(t, p, i)
  BY <1>2, <1>3, <1>4, Deeper DEF FunctionDepth, HeldDepth, Holds, Engaged, Only
<1>6. InstrumentDepth
  <2>1. fn["graphiti.add"] = <<>>
    BY <1>1 DEF Names
  <2>. QED  BY <1>2, <2>1, Deeper DEF InstrumentDepth, Plain
<1>. QED  BY <1>4, <1>5, <1>6 DEF DepthInv, InstrumentHeld

(* Every name is an original of a patch, or the one that is instrumented.  *)
LEMMA EachName ==
  ASSUME NEW n \in Names
  PROVE  \/ n = "graphiti.add"
         \/ \E p \in Patches : \E i \in 1..Len(Originals[p]) : n = Originals[p][i]
<1>. DEFINE F == <<"node.save_bulk", "edge.save_bulk", "node.save",
                    "edge.save", "bulk_utils.add">>
            E == <<"semaphore_gather", "search">>
<1>1. /\ Originals["falkor"] = F /\ Originals["edges"] = E
      /\ "falkor" \in Patches /\ "edges" \in Patches
  BY DEF Originals, Patches
<1>2. Len(F) = 5 /\ Len(E) = 2
  OBVIOUS
<1>3. \/ n = "graphiti.add"
      \/ \E i \in 1..5 : n = F[i]
      \/ \E i \in 1..2 : n = E[i]
  <2>1. /\ F[1] = "node.save_bulk" /\ F[2] = "edge.save_bulk"
        /\ F[3] = "node.save" /\ F[4] = "edge.save" /\ F[5] = "bulk_utils.add"
        /\ E[1] = "semaphore_gather" /\ E[2] = "search"
    OBVIOUS
  <2>2. \A i : i \in {1, 2, 3, 4, 5} <=> i \in 1..5
    OBVIOUS
  <2>3. \A i : i \in {1, 2} <=> i \in 1..2
    OBVIOUS
  <2>. HIDE DEF F, E
  <2>. QED  BY <2>1, <2>2, <2>3 DEF Names
<1>. HIDE DEF F, E
<1>. QED  BY <1>1, <1>2, <1>3

LEMMA DepthMeansTwice == DepthInv => WrappedAtMostTwice
<1>. SUFFICES ASSUME DepthInv, NEW n \in Names, NEW layer \in Layers
              PROVE  Two(fn[n], layer)
  BY DEF WrappedAtMostTwice, Two
<1>1. CASE n = "graphiti.add"
  <2>1. /\ Two(fn[n], "falkor") /\ Zero(fn[n], "edges")
        /\ One(fn[n], "instrumented")
    BY <1>1 DEF DepthInv, InstrumentDepth, Plain
  <2>. QED  BY <2>1, Deeper DEF Layers, Patches
<1>2. ASSUME NEW p \in Patches, NEW i \in 1..Len(Originals[p]), n = Originals[p][i]
      PROVE  Two(fn[n], layer)
  <2>1. Only(fn[n], p) /\ Two(fn[n], p)
    BY <1>2 DEF DepthInv, FunctionDepth
  <2>. QED  BY <2>1, Deeper DEF Only
<1>. QED  BY <1>1, <1>2, EachName

-----------------------------------------------------------------------------
(* The inductive invariant.                                                *)
THEOREM Invariance == Spec => []IInv
<1>1. IInv /\ [Next]_vars => IInv'
  BY TypeStep, PatchStep, LoopStep DEF IInv
<1>. QED  BY InitInv, <1>1, PTL DEF Spec

(* A thread that is about to wrap functions has read all of them, for any  *)
(* number of threads patching at the same time: the wrappers of            *)
(* patch_falkor_property_serialization never lack an original.             *)
THEOREM TypeCorrect == Spec => []TypeOK
<1>1. IInv => TypeOK
  BY DEF IInv
<1>. QED  BY Invariance, <1>1, PTL

(* No driver is constructed before the functions of both patches are       *)
(* wrapped: create_falkor_driver may rely on flags set without a lock.     *)
THEOREM DriversPatchedFirst == Spec => []DriversArePatched
<1>1. IInv => DriversArePatched
  <2>. SUFFICES ASSUME IInv, NEW t \in Threads,
                       at[t] \in {"save", "swap", "construct", "restore"},
                       NEW p \in Patches
                PROVE  Patched(p)
    BY DEF DriversArePatched
  <2>1. Patches \subseteq flags /\ \A q \in Patches \intersect flags : Patched(q)
    BY DEF IInv, PatchesInStep
  <2>. QED  BY <2>1
<1>. QED  BY Invariance, <1>1, PTL

(* _disable_falkor_auto_index_task does what it is for, and leaves asyncio *)
(* as it was, as long as no two threads construct drivers at a time.       *)
THEOREM LoopKept == Spec => []SafeUnlessOverlapping
<1>1. IInv => SafeUnlessOverlapping
  BY DEF IInv, LoopInStep, SafeUnlessOverlapping
<1>. QED  BY Invariance, <1>1, PTL

(* With two threads, as the graph service has, no function gets a patch's  *)
(* wrapper more than twice, however many drivers are constructed.          *)
THEOREM WrappersBounded == ASSUME TwoThreads PROVE Spec => []WrappedAtMostTwice
<1>1. Init => TypeOK /\ DepthInv
  BY InitInv, InitDepth DEF IInv
<1>2. TypeOK /\ DepthInv /\ [Next]_vars => (TypeOK /\ DepthInv)'
  BY TypeStep, DepthStep
<1>3. DepthInv => WrappedAtMostTwice
  BY DepthMeansTwice
<1>. QED  BY <1>1, <1>2, <1>3, PTL DEF Spec
=============================================================================

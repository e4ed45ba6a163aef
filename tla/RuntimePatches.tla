--------------------------- MODULE RuntimePatches ---------------------------
(***************************************************************************)
(* What the graph service does to Graphiti in its own process before it    *)
(* talks to FalkorDB: functions of other modules are replaced by wrappers, *)
(* once, and asyncio.get_running_loop is replaced while a driver is being  *)
(* constructed (graph_service/core/providers.py, workers/build_worker.py). *)
(*                                                                         *)
(* Two threads construct drivers: the dispatcher, once per build, and the  *)
(* event loop, once per request that reads a graph.  Nothing locks; a step *)
(* is one reading or one assignment of a shared name.                      *)
(***************************************************************************)
EXTENDS Naturals, Sequences

CONSTANTS
  Threads,
  Dispatcher  \* the one that also instruments the stages of a build

ASSUME DispatcherAssumption == Dispatcher \in Threads

VARIABLES
  fn,        \* the functions that may be replaced: their layers of wrappers
  getLoop,   \* asyncio.get_running_loop
  flags,     \* _FALKOR_PATCHED, _GRAPHITI_EDGE_RUNTIME_PATCHED, _GRAPHITI_BUILD_INSTRUMENTED
  at,        \* where each thread is
  patch,     \* the patch it is about
  k,         \* and how far it is with it
  held,      \* the functions it has read: the originals of its wrappers
  saved,     \* original_get_running_loop
  overlap,   \* history: two constructions were under way at a time
  indexTask  \* history: a driver has found a loop to start its index task on

vars == <<fn, getLoop, flags, at, patch, k, held, saved, overlap, indexTask>>

-----------------------------------------------------------------------------
Patches == {"falkor", "edges"}

(* The functions a patch reads, in order, and those it replaces, by the    *)
(* wrappers of what it has read: the last of the Falkor wrappers goes to   *)
(* two places.                                                             *)
Originals ==
  [falkor |-> <<"node.save_bulk", "edge.save_bulk", "node.save", "edge.save",
                "bulk_utils.add">>,
   edges  |-> <<"semaphore_gather", "search">>]

Targets ==
  [falkor |-> <<"node.save_bulk", "edge.save_bulk", "node.save", "edge.save",
                "bulk_utils.add", "graphiti.add">>,
   edges  |-> <<"semaphore_gather", "search">>]

Names ==
  {"node.save_bulk", "edge.save_bulk", "node.save", "edge.save",
   "bulk_utils.add", "graphiti.add", "semaphore_gather", "search"}

OriginalOf(p, i) == IF i <= Len(Originals[p]) THEN i ELSE Len(Originals[p])

Layers == Patches \union {"instrumented"}
Wrap(layer, f) == <<layer>> \o f
Has(f, layer) == \E i \in 1..Len(f) : f[i] = layer

Init ==
  /\ fn = [n \in Names |-> <<>>]
  /\ getLoop = "original"
  /\ flags = {}
  /\ at = [t \in Threads |-> "idle"]
  /\ patch = [t \in Threads |-> "falkor"]
  /\ k = [t \in Threads |-> 1]
  /\ held = [t \in Threads |-> <<>>]
  /\ saved = [t \in Threads |-> "original"]
  /\ overlap = FALSE /\ indexTask = FALSE

Goes(t, stage) == at' = [at EXCEPT ![t] = stage]

-----------------------------------------------------------------------------
(* A request that reads a graph, or a build.  The dispatcher instruments   *)
(* first; of the functions it wraps one is of interest here, as the Falkor *)
(* patch replaces it too.  It is read now,                                 *)
Begin(t) ==
  /\ at[t] = "idle"
  /\ IF t = Dispatcher /\ "instrumented" \notin flags
       THEN /\ Goes(t, "instrument")
            /\ held' = [held EXCEPT ![t] = <<fn["graphiti.add"]>>]
       ELSE Goes(t, "check") /\ UNCHANGED held
  /\ patch' = [patch EXCEPT ![t] = "falkor"]
  /\ UNCHANGED <<fn, getLoop, flags, k, saved, overlap, indexTask>>

(* and replaced a moment later.  A build whose ontology is refused ends    *)
(* before it needs a driver.                                               *)
Instrument(t) ==
  /\ at[t] = "instrument"
  /\ fn' = [fn EXCEPT !["graphiti.add"] = Wrap("instrumented", held[t][1])]
  /\ flags' = flags \union {"instrumented"}
  /\ held' = [held EXCEPT ![t] = <<>>]
  /\ Goes(t, "check") \/ Goes(t, "idle")
  /\ UNCHANGED <<getLoop, patch, k, saved, overlap, indexTask>>

-----------------------------------------------------------------------------
(* patch_falkor_property_serialization and then                            *)
(* patch_graphiti_edge_resolution_runtime: nothing, when its flag is set,  *)
GoesOn(t) ==
  IF patch[t] = "falkor"
    THEN Goes(t, "check") /\ patch' = [patch EXCEPT ![t] = "edges"]
    ELSE Goes(t, "save") /\ UNCHANGED patch

(* Faulty variant: the flag of the second patch is not looked at.          *)
CheckFlagOfFirst(t) ==
  /\ at[t] = "check"
  /\ IF patch[t] \in flags \ {"edges"}
       THEN GoesOn(t) /\ UNCHANGED k
       ELSE /\ Goes(t, "read") /\ k' = [k EXCEPT ![t] = 1]
            /\ UNCHANGED patch
  /\ UNCHANGED <<fn, getLoop, flags, held, saved, overlap, indexTask>>
CheckFlag(t) ==
  /\ at[t] = "check"
  /\ IF patch[t] \in flags
       THEN GoesOn(t) /\ UNCHANGED k
       ELSE /\ Goes(t, "read") /\ k' = [k EXCEPT ![t] = 1]
            /\ UNCHANGED patch
  /\ UNCHANGED <<fn, getLoop, flags, held, saved, overlap, indexTask>>

(* or the originals are read one by one,                                   *)
ReadOriginal(t) ==
  /\ at[t] = "read"
  /\ held' = [held EXCEPT ![t] = Append(@, fn[Originals[patch[t]][k[t]]])]
  /\ IF k[t] < Len(Originals[patch[t]])
       THEN k' = [k EXCEPT ![t] = @ + 1] /\ UNCHANGED at
       ELSE k' = [k EXCEPT ![t] = 1] /\ Goes(t, "write")
  /\ UNCHANGED <<fn, getLoop, flags, patch, saved, overlap, indexTask>>

(* the wrappers put in their places,                                       *)
WriteWrapper(t) ==
  /\ at[t] = "write"
  /\ k[t] <= Len(Targets[patch[t]])
  /\ fn' = [fn EXCEPT ![Targets[patch[t]][k[t]]] =
              Wrap(patch[t], held[t][OriginalOf(patch[t], k[t])])]
  /\ k' = [k EXCEPT ![t] = @ + 1]
  /\ UNCHANGED <<getLoop, flags, at, patch, held, saved, overlap, indexTask>>

(* Faulty variant: the flag is set when the first wrapper is in place.     *)
SetFlagEarly(t) ==
  /\ at[t] = "write"
  /\ k[t] > 1
  /\ IF k[t] > Len(Targets[patch[t]])
       THEN held' = [held EXCEPT ![t] = <<>>] /\ GoesOn(t)
       ELSE UNCHANGED <<held, at, patch>>
  /\ flags' = flags \union {patch[t]}
  /\ UNCHANGED <<fn, getLoop, k, saved, overlap, indexTask>>
(* and the flag set.                                                       *)
SetFlag(t) ==
  /\ at[t] = "write"
  /\ k[t] > Len(Targets[patch[t]])
  /\ flags' = flags \union {patch[t]}
  /\ held' = [held EXCEPT ![t] = <<>>]
  /\ GoesOn(t)
  /\ UNCHANGED <<fn, getLoop, k, saved, overlap, indexTask>>

-----------------------------------------------------------------------------
(* _disable_falkor_auto_index_task around FalkorDriver(...).               *)
Constructing(t) == at[t] \in {"swap", "construct", "restore"}

SaveLoop(t) ==
  /\ at[t] = "save"
  /\ saved' = [saved EXCEPT ![t] = getLoop]
  /\ overlap' = (overlap \/ \E u \in Threads : Constructing(u))
  /\ Goes(t, "swap")
  /\ UNCHANGED <<fn, getLoop, flags, patch, k, held, indexTask>>

SwapLoop(t) ==
  /\ at[t] = "swap"
  /\ getLoop' = "raising"
  /\ Goes(t, "construct")
  /\ UNCHANGED <<fn, flags, patch, k, held, saved, overlap, indexTask>>

(* External: the driver asks for the loop, on which it would start a task; *)
(* both threads run one.  It may raise for another reason just as well.    *)
ConstructDriver(t) ==
  /\ at[t] = "construct"
  /\ indexTask' = (indexTask \/ getLoop = "original")
  /\ Goes(t, "restore")
  /\ UNCHANGED <<fn, getLoop, flags, patch, k, held, saved, overlap>>

(* Faulty variant: without finally, a construction that raises.            *)
RestoreLoopUnlessRaised(t) ==
  /\ at[t] = "restore"
  /\ getLoop' \in {saved[t], getLoop}
  /\ Goes(t, "idle")
  /\ UNCHANGED <<fn, flags, patch, k, held, saved, overlap, indexTask>>
(* The finally clause.                                                     *)
RestoreLoop(t) ==
  /\ at[t] = "restore"
  /\ getLoop' = saved[t]
  /\ Goes(t, "idle")
  /\ UNCHANGED <<fn, flags, patch, k, held, saved, overlap, indexTask>>

Next ==
  \E t \in Threads :
    \/ Begin(t) \/ Instrument(t)
    \/ CheckFlag(t) \/ ReadOriginal(t) \/ WriteWrapper(t) \/ SetFlag(t)
    \/ SaveLoop(t) \/ SwapLoop(t) \/ ConstructDriver(t) \/ RestoreLoop(t)

Spec == Init /\ [][Next]_vars

-----------------------------------------------------------------------------
Stages == {"idle", "instrument", "check", "read", "write", "save", "swap",
           "construct", "restore"}

(* Type correctness; a thread that replaces functions has read them all.   *)
TypeOK ==
  /\ fn \in [Names -> Seq(Layers)]
  /\ getLoop \in {"original", "raising"}
  /\ flags \subseteq Layers
  /\ at \in [Threads -> Stages]
  /\ patch \in [Threads -> Patches]
  /\ k \in [Threads -> 1..7]
  /\ held \in [Threads -> Seq(Seq(Layers))]
  /\ saved \in [Threads -> {"original", "raising"}]
  /\ overlap \in BOOLEAN /\ indexTask \in BOOLEAN
  /\ \A t \in Threads :
       /\ at[t] = "instrument" => Len(held[t]) = 1
       /\ at[t] = "read" => /\ k[t] <= Len(Originals[patch[t]])
                            /\ Len(held[t]) = k[t] - 1
       /\ at[t] = "write" => /\ k[t] <= Len(Targets[patch[t]]) + 1
                             /\ Len(held[t]) = Len(Originals[patch[t]])
       /\ at[t] \notin {"instrument", "read", "write"} => held[t] = <<>>

Patched(p) ==
  \A i \in 1..Len(Originals[p]) : Has(fn[Originals[p][i]], p)

(* No driver is constructed before the functions that were to be patched   *)
(* are, although the flags are tested and set without a lock and one of    *)
(* two threads may rely on what the other is doing.  Of the two names that *)
(* get the last Falkor wrapper this is about the first only: the second,   *)
(* Graphiti's own, is also wrapped by the dispatcher, which may undo it.   *)
DriversArePatched ==
  \A t \in Threads : at[t] \in {"save", "swap", "construct", "restore"} =>
    \A p \in Patches : Patched(p)

(* The wrappers do not pile up: both threads may apply a patch, one around *)
(* the other's wrappers, but no number of builds and requests adds more.   *)
WrappedAtMostTwice ==
  \A n \in Names : \A layer \in Layers :
    LET count == {i \in 1..Len(fn[n]) : fn[n][i] = layer}
    IN  \A a, b, c \in count : a = b \/ b = c \/ a = c

(* Why: a set flag means a finished patch, a thread leaves behind what it  *)
(* has wrapped, and only passes a patch whose flag is set.                 *)
PatchesInStep ==
  /\ \A p \in Patches \intersect flags : Patched(p)
  /\ \A t \in Threads :
       /\ at[t] = "write" => \A i \in 1..Len(Originals[patch[t]]) :
            i < k[t] => Has(fn[Originals[patch[t]][i]], patch[t])
       /\ /\ at[t] \in {"instrument", "check", "read", "write"}
          /\ patch[t] = "edges"
          => "falkor" \in flags
       /\ at[t] \in {"save", "swap", "construct", "restore"} =>
            Patches \subseteq flags

(* As long as no two constructions overlap, get_running_loop is what it    *)
(* was before and after each, however the construction ends, and no driver *)
(* starts its index task.                                                  *)
SafeUnlessOverlapping ==
  \/ overlap
  \/ /\ getLoop = "original" \/ \E t \in Threads : Constructing(t)
     /\ ~ indexTask

(* Why: of the threads under way there is one, and what it has saved is    *)
(* the original.                                                           *)
LoopInStep ==
  ~ overlap =>
    /\ ~ indexTask
    /\ (\A t \in Threads : ~ Constructing(t)) => getLoop = "original"
    /\ \A t \in Threads : Constructing(t) =>
         /\ \A u \in Threads : Constructing(u) => u = t
         /\ saved[t] = "original"
         /\ getLoop = IF at[t] = "swap" THEN "original" ELSE "raising"

(* What the comment of _disable_falkor_auto_index_task says: the task is   *)
(* prevented during the construction, and no longer.                       *)
LoopIsRestored ==
  (\A t \in Threads : ~ Constructing(t)) => getLoop = "original"

=============================================================================

---------------------------- MODULE SerialBuilds ----------------------------
(***************************************************************************)
(* What the graph service promises to whoever submits documents: builds    *)
(* are carried out one after the other, in the order in which they were    *)
(* accepted, each until it is decided; only the build whose turn it is     *)
(* writes to the graph store, and one that completes has written all of    *)
(* its episodes.  A restart forgets every build, and no written episode.   *)
(***************************************************************************)
EXTENDS Naturals, Sequences

CONSTANTS
  Jobs,
  MaxChunks  \* bound on the episodes of one document

VARIABLES
  log,      \* the accepted builds, in order
  size,     \* the number of episodes of an accepted build's document
  outcome,  \* none (not accepted), pending, completed or failed
  written   \* the episodes of each build that are in the graph store

vars == <<log, size, outcome, written>>

Init ==
  /\ log = <<>>
  /\ size = [j \in Jobs |-> 0]
  /\ outcome = [j \in Jobs |-> "none"]
  /\ written = [j \in Jobs |-> {}]

Accept(j, n) ==
  /\ outcome[j] = "none"
  /\ written[j] = {}
  /\ log' = Append(log, j)
  /\ size' = [size EXCEPT ![j] = n]
  /\ outcome' = [outcome EXCEPT ![j] = "pending"]
  /\ UNCHANGED written

(* It is j's turn: j is pending and no build before it is.                 *)
Turn(j) ==
  \E i \in 1..Len(log) :
    /\ log[i] = j
    /\ outcome[j] = "pending"
    /\ \A k \in 1..(i - 1) : outcome[log[k]] # "pending"

Write(j, e) ==
  /\ Turn(j)
  /\ e \in 1..size[j]
  /\ written' = [written EXCEPT ![j] = @ \union {e}]
  /\ UNCHANGED <<log, size, outcome>>

Complete(j) ==
  /\ Turn(j)
  /\ written[j] = 1..size[j]
  /\ outcome' = [outcome EXCEPT ![j] = "completed"]
  /\ UNCHANGED <<log, size, written>>

Fail(j) ==
  /\ Turn(j)
  /\ outcome' = [outcome EXCEPT ![j] = "failed"]
  /\ UNCHANGED <<log, size, written>>

Restart ==
  /\ log' = <<>>
  /\ size' = [j \in Jobs |-> 0]
  /\ outcome' = [j \in Jobs |-> "none"]
  /\ UNCHANGED written

Next ==
  \/ \E j \in Jobs :
       \/ \E n \in 0..MaxChunks : Accept(j, n)
       \/ \E e \in 1..size[j] : Write(j, e)
       \/ Complete(j)
       \/ Fail(j)
  \/ Restart

Spec == Init /\ [][Next]_vars
=============================================================================

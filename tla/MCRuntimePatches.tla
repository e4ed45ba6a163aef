-------------------------- MODULE MCRuntimePatches --------------------------
(* The two threads of the graph service that construct drivers.             *)
EXTENDS RuntimePatches

MCThreads == {"dispatcher", "event loop"}
MCDispatcher == "dispatcher"
=============================================================================

-------------------------- MODULE SocketLifecycle --------------------------
(***************************************************************************)
(* Engines starting, stopping and dying on one socket path                 *)
(* (crates/panops-engine/src/server/socket.rs bind_with_lifecycle, and the *)
(* unlinking at the end of mod.rs run_serve_in_process).                   *)
(*                                                                         *)
(* The path names at most one inode; a listener keeps its inode alive      *)
(* after the name is gone.  Each system call is a step.  The 250 ms probe  *)
(* can only time out on a listener that does not answer, and is then       *)
(* treated as the live engine it is.                                       *)
(***************************************************************************)
EXTENDS Naturals, FiniteSets

CONSTANTS
  Engines,        \* engine processes
  Inodes,         \* socket inodes
  RegularFile,    \* an entry that is not a socket
  None

ASSUME EntriesAreDistinct ==
  /\ RegularFile \notin Inodes
  /\ None \notin Inodes \cup {RegularFile}

\* An inode is left for every bind: one per engine and one for the path.
ASSUME EnoughInodes ==
  /\ IsFiniteSet(Inodes) /\ IsFiniteSet(Engines)
  /\ Cardinality(Inodes) > Cardinality(Engines)

VARIABLES
  path,       \* the directory entry: an inode, RegularFile or None
  listener,   \* the inode each engine listens on, or None
  pc,         \* where each engine is in run_serve_in_process
  rivals      \* history: engines that bound while another was about to remove the
              \* name, or beside such an engine

vars == <<path, listener, pc, rivals>>

Init ==
  /\ path \in {None, RegularFile}
  /\ listener = [e \in Engines |-> None]
  /\ pc = [e \in Engines |-> "off"]
  /\ rivals = {}

Goto(e, s) ==
  /\ pc' = [pc EXCEPT ![e] = s]
  /\ rivals' = IF s = "off" THEN rivals \ {e} ELSE rivals

Live(inode) == \E e \in Engines : listener[e] = inode /\ inode # None

Start(e) ==
  /\ pc[e] = "off"
  /\ Goto(e, "exists")
  /\ UNCHANGED <<path, listener>>

\* if path.exists()
PathExists(e) ==
  /\ pc[e] = "exists"
  /\ Goto(e, IF path = None THEN "bind" ELSE "probe")
  /\ UNCHANGED <<path, listener>>

\* connect: a live listener answers (or times out) and a vanished entry is an
\* unexpected error, both "engine already running"; a socket nobody listens on
\* refuses and a regular file is no socket, both stale.
Probe(e) ==
  /\ pc[e] = "probe"
  /\ Goto(e, IF path = None \/ Live(path) THEN "off" ELSE "unlink")
  /\ UNCHANGED <<path, listener>>

\* remove_file takes whatever the name denotes by now; with nothing there the
\* engine gives up.
UnlinkStale(e) ==
  /\ pc[e] = "unlink"
  /\ path' = None
  /\ Goto(e, IF path = None THEN "off" ELSE "bind")
  /\ UNCHANGED listener

\* Another engine is between its refused probe, or its failed chmod, and the
\* remove_file by name.
Removing == \E o \in Engines : pc[o] \in {"unlink", "undo"}

\* UnixListener::bind fails when the name is taken.
Bind(e) ==
  /\ pc[e] = "bind"
  /\ IF path # None
     THEN /\ Goto(e, "off")
          /\ UNCHANGED <<path, listener>>
     ELSE /\ \E inode \in Inodes :
               /\ ~Live(inode)
               /\ path' = inode
               /\ listener' = [listener EXCEPT ![e] = inode]
          /\ pc' = [pc EXCEPT ![e] = "chmod"]
          /\ rivals' = IF Removing \/ rivals # {} THEN rivals \cup {e} ELSE rivals

\* set_permissions; when it fails the listener is dropped, then the name.
Chmod(e) ==
  /\ pc[e] = "chmod"
  /\ \/ Goto(e, "serving") /\ UNCHANGED listener
     \/ Goto(e, "undo") /\ listener' = [listener EXCEPT ![e] = None]
  /\ UNCHANGED path

UndoBind(e) ==
  /\ pc[e] = "undo"
  /\ path' = None
  /\ Goto(e, "off")
  /\ UNCHANGED listener

\* The listener closed by leaving the accept loop, before the name is removed.
ShutdownDropsListener(e) ==
  /\ pc[e] = "serving"
  /\ Goto(e, "stopping")
  /\ listener' = [listener EXCEPT ![e] = None]
  /\ UNCHANGED path

\* SIGINT, SIGTERM or the embedder's shutdown: the accept loop is left, or
\* never entered when the signal came before it.
Shutdown(e) ==
  /\ pc[e] = "serving"
  /\ Goto(e, "stopping")
  /\ UNCHANGED <<path, listener>>

\* remove_file(cleanup_path), with the listener still open.
RemoveSocket(e) ==
  /\ pc[e] = "stopping"
  /\ path' = None
  /\ Goto(e, "closing")
  /\ UNCHANGED listener

\* run_serve_in_process returns and the process exits.
Exit(e) ==
  /\ pc[e] = "closing"
  /\ listener' = [listener EXCEPT ![e] = None]
  /\ Goto(e, "off")
  /\ UNCHANGED path

\* SIGKILL or a crash: the kernel closes the listener, the name stays.
Crash(e) ==
  /\ pc[e] # "off"
  /\ listener' = [listener EXCEPT ![e] = None]
  /\ Goto(e, "off")
  /\ UNCHANGED path

-----------------------------------------------------------------------------
\* bind_with_lifecycle ("refuse to steal"): the engine that serves owns the
\* path, so clients reach it and nobody else serves, whatever crashes, clean
\* shutdowns and restarts came before and whatever other engines try at the same
\* time.  One race is lost: an engine that binds between another's probe, or
\* failed chmod, and the remove_file that follows it may be robbed of its name,
\* and until it has ended so may those that bind beside it.
ServingOwnsThePath ==
  \A e \in Engines \ rivals : pc[e] \in {"chmod", "serving", "stopping"} =>
    listener[e] # None /\ path = listener[e]
=============================================================================

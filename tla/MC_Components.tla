---------------------------- MODULE MC_Components ----------------------------
(***************************************************************************)
(* The components that share no state with the upload pipeline, checked   *)
(* in one run: the client's window fingerprint (Rabin), the server's      *)
(* container name dispenser (NameDispenser) and the server process across *)
(* starts and crashes (ServerLifecycle, refining FileStore).              *)
(*                                                                         *)
(* Each behaviour exercises one of them, chosen in the initial state; the *)
(* other two stay in their initial states.  Every behaviour of each       *)
(* component is a behaviour here, so each is checked exactly as on its    *)
(* own, and the state space is the sum of theirs, not their product.      *)
(***************************************************************************)
EXTENDS TLC

CONSTANTS
    Bytes, MaxLen, Base, Mod, WinSize,      \* Rabin
    NumLetters, Width,                      \* NameDispenser
    FileIds, Cap, MaxContainers, None,      \* ServerLifecycle
    g1, g2, g3

VARIABLES
    part,                                   \* the component this behaviour runs
    buffer, winFp, maxWinFp, endIdx, phase,
    name, issued, exhausted,
    proc, ctrDisk, recipeDisk, db, batch, nextName, cName, cOff, uploading

R == INSTANCE Rabin
N == INSTANCE NameDispenser
SL == INSTANCE ServerLifecycle

rabinVars == <<buffer, winFp, maxWinFp, endIdx, phase>>
dispenserVars == <<name, issued, exhausted>>
lifecycleVars == <<proc, ctrDisk, recipeDisk, db, batch, nextName, cName, cOff, uploading>>

Init ==
    /\ part \in {"rabin", "dispenser", "lifecycle"}
    /\ R!Init /\ N!Init /\ SL!Init

Next ==
    \/ part = "rabin" /\ R!Next /\ UNCHANGED <<part, dispenserVars, lifecycleVars>>
    \/ part = "dispenser" /\ N!Next /\ UNCHANGED <<part, rabinVars, lifecycleVars>>
    \/ part = "lifecycle" /\ SL!Next /\ UNCHANGED <<part, rabinVars, dispenserVars>>

Spec == Init /\ [][Next]_<<part, rabinVars, dispenserVars, lifecycleVars>>

MCFileIds == {g1, g2, g3}
\* Files are interchangeable: no action or property names one.
MCSymmetry == Permutations(MCFileIds)

\* rabin(): the rolling hash equals the direct hash of the window, and the
\* returned maxWinFp is the largest window hash of the chunk.
RollingHashExact == R!RollingHashExact

\* The dispenser's type invariant.
TypeOK == N!TypeOK

\* NameDispenser::get hands out the base-NumLetters counter in order and
\* throws only after every name but the all-'z' one has been returned.
NamesFollowReference == N!NamesFollowReference

\* The server process's type invariant: the batch, the dispenser, the
\* container offset and the directories keep their shapes.
LifecycleTypeOK == SL!TypeOK

\* A file whose recipe was written and whose index entry was flushed,
\* in this run or an earlier one, points at its own share on disk: no
\* start or rollover truncates a container that indexed data lives in.
CompletedFilesRestorable == SL!CompletedFilesRestorable

\* A recipe on disk whose index entry is missing belongs to an upload
\* still open in this run: the gap between finishRecipeFile's recipe
\* write and its BatchFlush never outlives a crash into a served start.
RecipesIndexedWhileRunning == SL!RecipesIndexedWhileRunning

\* The server process implements the abstract file store across uploads,
\* crashes and starts: only a start with clean loses restorable files.
RefinesFileStore == SL!RefinesFileStore

=============================================================================

-------------------------- MODULE ServerLifecycle --------------------------
(***************************************************************************)
(* The server process across starts and crashes (src/server/main.cpp,     *)
(* def/initializer.hpp, def/util.hpp DirInit, backend/backend_facade.hpp, *)
(* backend/container.hpp, backend/db_wrapper.hpp).                         *)
(*                                                                         *)
(* What survives the process: the container files and the recipe files    *)
(* (container directory) and the flushed leveldb store (database          *)
(* directory).  What dies with it: the write batch, the name dispenser,   *)
(* the writable container and its offset, and the upload sessions.       *)
(*                                                                         *)
(* Dedup is left to DedupCore: each file here holds one share of its own, *)
(* stored in the writable container, indexed through the write batch and  *)
(* listed by the file's recipe.  A container name is its number in        *)
(* dispenser order (NameDispenser checks that order); a container holds   *)
(* Cap shares.                                                             *)
(***************************************************************************)
EXTENDS Naturals, Sequences

CONSTANTS
    FileIds,        \* the files clients upload
    Cap,            \* shares per container (CONTAINER_SIZE / share size)
    MaxContainers,  \* names the dispenser hands out before it throws
    None            \* a model value: no entry, no file
\* config "clean" is chosen at every start.

ASSUME Cap \in Nat \ {0} /\ MaxContainers \in Nat \ {0}

\* Container names in dispenser order; 'aaaa...' is 1.
ContainerIds == 1..MaxContainers
FirstName == 1
Loc == ContainerIds \X (0..Cap - 1)

VARIABLES
    proc,       \* "down", "running", or "aborted" (the last start threw)
    ctrDisk,    \* container file on disk -> the shares written to it, or None
    recipeDisk, \* files with a recipe file on disk
    db,         \* flushed leveldb store: file -> its share's (container, offset)
    batch,      \* DataBase::writeBatch_ (memory)
    nextName,   \* NameDispenser::name_ (memory)
    cName,      \* shareContainerName_ (memory)
    cOff,       \* shareContainerOffset_ (memory)
    uploading   \* upload sessions between putShareData and finishRecipeFile

vars == <<proc, ctrDisk, recipeDisk, db, batch, nextName, cName, cOff, uploading>>

NoEntries == [f \in FileIds |-> None]
NoContainers == [c \in ContainerIds |-> None]

Init ==
    /\ proc = "down"
    /\ ctrDisk = NoContainers
    /\ recipeDisk = {}
    /\ db = NoEntries
    /\ batch = NoEntries
    /\ nextName = FirstName
    /\ cName = FirstName
    /\ cOff = 0
    /\ uploading = {}

-----------------------------------------------------------------------------
(* Startup *)

\* DirInit(clean): CreateDir on the database and the container directory;
\* with clean both are removed and recreated, else they are kept.
ContainersAfterDirInit(clean) == IF clean THEN NoContainers ELSE ctrDisk
RecipesAfterDirInit(clean) == IF clean THEN {} ELSE recipeDisk
\* DataBase::Init opens the store in the (possibly recreated) directory.
StoreAfterOpen(clean) == IF clean THEN NoEntries ELSE db

\* Mutant: MutableContainer::create opens the file without the existence
\* check, truncating a container of an earlier run.
ContainerExistsNever(d, n) == FALSE
\* MutableContainer::create throws "container file already exists".
ContainerExists(d, n) == d[n] # None

\* The state the process has none of after it ends.
LoseMemory ==
    /\ batch' = NoEntries
    /\ uploading' = {}

\* main -> Initializer (DirInit, DataBase::Init) -> Server{} -> DedupCore
\* -> BackendFacade(): createShareContainer_ takes the dispenser's first
\* name 'aaaa...' and creates that container at offset 0.
StartServer(clean) ==
    LET d == ContainersAfterDirInit(clean)
    IN /\ proc \in {"down", "aborted"}
       /\ ~ContainerExists(d, FirstName)
       /\ proc' = "running"
       /\ ctrDisk' = [d EXCEPT ![FirstName] = <<>>]
       /\ recipeDisk' = RecipesAfterDirInit(clean)
       /\ db' = StoreAfterOpen(clean)
       /\ nextName' = FirstName + 1
       /\ cName' = FirstName
       /\ cOff' = 0
       /\ LoseMemory

\* The same start, when 'aaaa...' is already on disk: create throws out of
\* the BackendFacade constructor; main catches only invalid_argument, so
\* the process terminates.  DirInit has already run.
StartAbort(clean) ==
    LET d == ContainersAfterDirInit(clean)
    IN /\ proc \in {"down", "aborted"}
       /\ ContainerExists(d, FirstName)
       /\ proc' = "aborted"
       /\ ctrDisk' = d
       /\ recipeDisk' = RecipesAfterDirInit(clean)
       /\ db' = StoreAfterOpen(clean)
       /\ UNCHANGED <<nextName, cName, cOff>>
       /\ LoseMemory

-----------------------------------------------------------------------------
(* A running server *)

\* Mutant: the fit test lets one share more into a container.
RolloverLate(off) == off + 1 > Cap + 1
\* putShareData: the share does not fit behind the offset.
Rollover(off) == off + 1 > Cap

\* interUserIndexUpdate for a new share: putShareData (a new container
\* from the dispenser when the share does not fit) and DataBase::Put of
\* the index entry into the batch.  BATCH_SIZE is above the number of
\* files, so Put does not flush here.
StoreShare(f) ==
    LET roll == Rollover(cOff)
        c == IF roll THEN nextName ELSE cName
        o == IF roll THEN 0 ELSE cOff
        base == IF roll THEN <<>> ELSE ctrDisk[c]
    IN /\ proc = "running"
       /\ f \notin uploading
       /\ db[f] = None /\ batch[f] = None /\ f \notin recipeDisk
       /\ roll => /\ nextName \in ContainerIds
                  /\ ~ContainerExists(ctrDisk, nextName)
       /\ ctrDisk' = [ctrDisk EXCEPT ![c] = Append(base, f)]
       /\ batch' = [batch EXCEPT ![f] = <<c, o>>]
       /\ nextName' = IF roll THEN nextName + 1 ELSE nextName
       /\ cName' = c
       /\ cOff' = o + 1
       /\ uploading' = uploading \cup {f}
       /\ UNCHANGED <<proc, recipeDisk, db>>

\* finishRecipeFile up to the BatchFlush: the recipe file is written.
FinishRecipe(f) ==
    /\ proc = "running"
    /\ f \in uploading
    /\ f \notin recipeDisk
    /\ recipeDisk' = recipeDisk \cup {f}
    /\ UNCHANGED <<proc, ctrDisk, db, batch, nextName, cName, cOff, uploading>>

\* DataBase::BatchFlush: every pending entry, of any session, is written.
FinishFlush(f) ==
    /\ proc = "running"
    /\ f \in uploading
    /\ f \in recipeDisk
    /\ db' = [g \in FileIds |-> IF batch[g] # None THEN batch[g] ELSE db[g]]
    /\ batch' = NoEntries
    /\ uploading' = uploading \ {f}
    /\ UNCHANGED <<proc, ctrDisk, recipeDisk, nextName, cName, cOff>>

\* The process dies at any point.
Crash ==
    /\ proc = "running"
    /\ proc' = "down"
    /\ LoseMemory
    /\ UNCHANGED <<ctrDisk, recipeDisk, db, nextName, cName, cOff>>

Next ==
    \/ \E clean \in BOOLEAN : StartServer(clean) \/ StartAbort(clean)
    \/ \E f \in FileIds : StoreShare(f) \/ FinishRecipe(f) \/ FinishFlush(f)
    \/ Crash

Spec == Init /\ [][Next]_vars

-----------------------------------------------------------------------------
(* Properties *)

\* The share a Container read (getShareData) finds at a location.
ShareAt(l) ==
    IF ctrDisk[l[1]] # None /\ l[2] < Len(ctrDisk[l[1]])
    THEN ctrDisk[l[1]][l[2] + 1] ELSE None

TypeOK ==
    /\ proc \in {"down", "running", "aborted"}
    /\ ctrDisk \in [ContainerIds -> Seq(FileIds) \cup {None}]
    /\ recipeDisk \subseteq FileIds
    /\ db \in [FileIds -> Loc \cup {None}]
    /\ batch \in [FileIds -> Loc \cup {None}]
    /\ nextName \in 1..MaxContainers + 1
    /\ cName \in ContainerIds /\ cOff \in 0..Cap
    /\ uploading \subseteq FileIds

\* A file whose recipe was written and whose index entry was flushed,
\* in this run or an earlier one, is restorable: its index entry points at
\* its own share in a container on disk.  The startup path (DirInit,
\* BackendFacade's first container, MutableContainer::create) and the
\* container rollover must never truncate or reuse a container that
\* indexed data lives in.
CompletedFilesRestorable ==
    \A f \in recipeDisk : db[f] # None => ShareAt(db[f]) = f

\* A recipe on disk whose index entry is not in the store belongs to an
\* upload still open in this run: the recipe write and BatchFlush of
\* finishRecipeFile are separated by a crash only in a run that has ended,
\* and a later start must not serve such a recipe, whose download would
\* throw "no such share index".
RecipesIndexedWhileRunning ==
    proc = "running" =>
        \A f \in recipeDisk : db[f] = None => f \in uploading

\* The files a download returns: a recipe on disk, an index entry in the
\* store, and the share at the entry's location.
Restorable == {f \in recipeDisk : db[f] # None /\ ShareAt(db[f]) = f}

FS == INSTANCE FileStore WITH restorable <- Restorable, running <- (proc = "running")

\* The process implements the abstract file store: completing uploads,
\* crashes and starts never make a restorable file unrestorable, except
\* a start with clean, which loses them all.
RefinesFileStore == FS!Spec

\* A start of the server comes up: config "clean" = false keeps the
\* database and container directories so that the stored files are
\* served again.
StartSucceeds == proc # "aborted"

=============================================================================

----------------------------- MODULE DedupCore -----------------------------
(***************************************************************************)
(* The server's upload and restore pipeline (src/server/src/dedup/        *)
(* dedup_core.hpp) over its backend (backend/backend_facade.hpp,          *)
(* backend/db_wrapper.hpp, dedup/delta.hpp).                              *)
(*                                                                         *)
(* Each upload session (comm/services.hpp ClientUpload) runs one file     *)
(* upload: for every fragment the first-stage owner check, the recipe     *)
(* buffer, the per-share inter-user update, the recipe finish and the     *)
(* batch flush.  Sessions run on worker threads and interleave at the     *)
(* granularity of the code's separate reads and writes of the share       *)
(* index: a KV Get is one step, the Put that follows it is a later step.  *)
(*                                                                         *)
(* Data is abstracted to fingerprints: a share's bytes are its            *)
(* fingerprint, a delta payload records the source and the base content   *)
(* it was encoded against, and decoding succeeds only against that base.  *)
(* Bytes a session takes from a data buffer no DATA packet filled are the *)
(* model value Zeros.                                                     *)
(***************************************************************************)
EXTENDS Integers, Sequences, FiniteSets, SequencesExt, TLC

CONSTANTS
    Users,          \* user ids
    FPs,            \* share fingerprints (a share's bytes are its fp)
    SFVals,         \* super-feature values
    SF,             \* SF[fp][j]: the j-th super feature of share fp
    ShareSize,      \* ShareSize[fp]: share size in abstract units
    XDeltaSize,     \* XDeltaSize[b, s]: xdelta output size, 0 = encoder error
    MinBaseSize,    \* compute_delta refuses smaller bases
    MinSrcSize,     \* compute_delta refuses smaller sources
    MaxDeltaDepth,  \* config::MAX_DELTA_DEPTH
    BatchSize,      \* config::BATCH_SIZE
    ContainerSize,  \* config::CONTAINER_SIZE
    RecipeCacheSize,\* config::RECIPE_CACHE_SIZE
    ShareFileBufLen,   \* config::SHARE_FILE_BUFFER_LEN - PACKET_HEADER_SIZE
    ShareFileHeadSize, \* SHARE_FILE_HEAD_SIZE
    ShareEntrySize,    \* SHARE_ENTRY_SIZE
    MaxContainers,  \* bound on allocated containers (names are 0, 1, ...)
    Job,            \* Job[s]: [user, file, frags: Seq(Seq(FPs)), peer: BOOLEAN]
    Serial,         \* TRUE: clients take turns (no two uploads overlap)
    HangUpBeforeData, \* TRUE: a client may close its socket after the STAT
                      \* reply, before it sends the DATA packet
    Zeros,          \* model value: share bytes taken from a data buffer the
                    \* DATA packet did not fill
    NoFP,           \* model value: no fingerprint
    NoIndex,        \* model value: key absent from the KV store
    None            \* model value: no buffer, no file, no download yet

Sessions == DOMAIN Job
\* A peer session (PeerInterUserIndex) stores one share and has no file.
IsPeer(s) == Job[s].peer
Files == {Job[s].file : s \in {t \in Sessions : ~IsPeer(t)}}
RecipeKeys == Users \X Files        \* recipe key = H(fullFileName || userID)
\* What a share's bytes can be: its own, or a stale data buffer's.
Content == FPs \cup {Zeros}

ASSUME /\ NoFP \notin FPs /\ Zeros \notin FPs /\ HangUpBeforeData \in BOOLEAN
       /\ MaxDeltaDepth \in Nat /\ BatchSize \in Nat \ {0}
       /\ \A fp \in FPs : ShareSize[fp] \in 1..ContainerSize

VARIABLES
    db,          \* flushed KV store: share fp -> index value
    batch,       \* DataBase::writeBatch_: pending puts, last write per key
    batchCnt,    \* DataBase::batchCnt_
    sfMap,       \* Delta::superFeature{1,2,3}Map_
    cName,       \* shareContainerName_ (dispenser order as a number)
    cOff,        \* shareContainerOffset_
    store,       \* container contents: <<container, offset>> -> payload
    unfinished,  \* unfinishedRecipeFileCache_
    recipeDisk,  \* recipe files "<hex key>.rf"
    rcache,      \* recipeCache_: LRU, most recent first
    pc, frag, idx, dup, rd, base, bval,  \* per-session locals
    dl,          \* the client's download: restoreShareFile and what it sent
    lost         \* lost[s]: the client closed before this fragment's DATA,
                 \* so secondStageDedup runs on the stale dataBuffer_

vars == <<db, batch, batchCnt, sfMap, cName, cOff, store, unfinished,
          recipeDisk, rcache, pc, frag, idx, dup, rd, base, bval, dl, lost>>

-----------------------------------------------------------------------------
(* Values *)

IndexVal == [shareSize : Nat, users : Seq(Users), depth : Nat, dsize : Nat,
             base : FPs \cup {NoFP}, cont : Nat, off : Nat]
Payload == [kind : {"raw", "delta"}, src : Content, base : Content \cup {"garbage"},
            len : Nat]
Garbage == [kind |-> "garbage"]
RecipeBuf == [user : Users, total : Nat, num : Nat, entries : Seq(FPs \cup {NoFP})]

Owners(v) == ToSet(v.users)

Frags(s) == Job[s].frags
KeyOf(s) == <<Job[s].user, Job[s].file>>
\* the file's shares in upload order; their count is numOfTotalShares
FileShares(s) == FlattenSeq(Frags(s))
TotalShares(s) == Len(FileShares(s))
\* fileShareMetaHead_t.numOfPastSecrets of fragment k
PastSecrets(s, k) == Len(FlattenSeq(SubSeq(Frags(s), 1, k - 1)))
CurFP(s) == Frags(s)[frag[s]][idx[s]]
\* The bytes secondStageDedup hands interUserIndexUpdate for the current
\* share: its slice of dataBuffer_, which holds the DATA payload, or, when
\* no payload came, the zeros make_unique left or an earlier fragment's
\* bytes.
ShareBytes(s) == IF lost[s] THEN Zeros ELSE CurFP(s)

-----------------------------------------------------------------------------
(* Backend helpers *)

\* DataBase::BatchFlush: write the batch into the store and reset it.
FlushedDB == [f \in FPs |-> IF batch[f] # NoIndex THEN batch[f] ELSE db[f]]
BatchFlush ==
    /\ db' = FlushedDB
    /\ batch' = [f \in FPs |-> NoIndex]
    /\ batchCnt' = 0

\* DataBase::Put: append to the write batch, flush once the count passes
\* BATCH_SIZE.
\* Mutant: the write batch is never flushed from Put.
PutNoFlush(fp, v) ==
    /\ batch' = [batch EXCEPT ![fp] = v]
    /\ batchCnt' = batchCnt + 1
    /\ UNCHANGED db
Put(fp, v) ==
    IF batchCnt + 1 > BatchSize
    THEN /\ db' = [FlushedDB EXCEPT ![fp] = v]
         /\ batch' = [f \in FPs |-> NoIndex]
         /\ batchCnt' = 0
    ELSE /\ batch' = [batch EXCEPT ![fp] = v]
         /\ batchCnt' = batchCnt + 1
         /\ UNCHANGED db

\* BackendFacade::putShareData: the (container, offset) a payload of len
\* lands at; a new container is allocated when it does not fit.
Rollover(len) == cOff + len > ContainerSize
\* Mutant: the offset is not reset when a new container is opened.
NextSlotNoReset(len) == IF Rollover(len) THEN <<cName + 1, cOff>> ELSE <<cName, cOff>>
NextSlot(len) == IF Rollover(len) THEN <<cName + 1, 0>> ELSE <<cName, cOff>>
PutShareData(p) ==
    LET at == NextSlot(p.len)
    IN /\ at[1] < MaxContainers
       /\ cName' = at[1]
       /\ cOff' = at[2] + p.len
       /\ store' = (at :> p) @@ store
\* BackendFacade::getShareData: the bytes at (container, offset, len).
ShareData(c, o, len) ==
    IF <<c, o>> \in DOMAIN store /\ store[<<c, o>>].len = len
    THEN store[<<c, o>>] ELSE Garbage

\* Delta::superFeatureIndex on the super features of bytes c (SF[c], as
\* GenSuperFeature computes them): first hit among the three maps.
SuperFeatureIndex(c) ==
    LET hits == {j \in 1..3 : sfMap[j][SF[c][j]] # NoFP}
        first == CHOOSE j \in hits : \A i \in hits : j <= i
    IN IF hits = {} THEN NoFP ELSE sfMap[first][SF[c][first]]

\* Delta::superFeatureIndexUpdate: the features of bytes c now name fp.
SuperFeatureIndexUpdate(c, fp) ==
    sfMap' = [j \in 1..3 |-> [sfMap[j] EXCEPT ![SF[c][j]] = fp]]

\* compute_delta (lib/delta/src/delta.c) of source bytes s (size ssize)
\* against base bytes b (size bsize): delta size, 0 when refused.
ComputeDelta(b, bsize, s, ssize) ==
    IF b \notin Content \/ bsize < MinBaseSize \/ ssize < MinSrcSize
    THEN 0
    ELSE IF XDeltaSize[b, s] = 0 \/ XDeltaSize[b, s] > ssize
         THEN 0 ELSE XDeltaSize[b, s]

\* Delta::RestoreSrc: decoding succeeds only against the encoding's base.
RestoreSrc(b, p) ==
    IF p.kind = "delta" /\ p.base = b THEN p.src ELSE "garbage"

RawShare(h) == LET p == ShareData(h.cont, h.off, h.shareSize)
               IN IF p.kind = "raw" THEN p.src ELSE "garbage"

Fuel == MaxDeltaDepth + Cardinality(FPs) + 1

\* DedupCore::restoreDeltaShare on a share index head; "diverge" stands for
\* a recursion that does not end (the base chain has a cycle).
RECURSIVE RestoreDeltaShare(_, _)
RestoreDeltaShare(h, fuel) ==
    IF fuel = 0 THEN "diverge"
    ELSE IF db[h.base] = NoIndex THEN "noindex"
    ELSE LET bh == db[h.base]
             b == IF bh.depth = 0 THEN RawShare(bh)
                  ELSE RestoreDeltaShare(bh, fuel - 1)
         IN IF b \in {"noindex", "diverge"} THEN b
            ELSE RestoreSrc(b, ShareData(h.cont, h.off, h.dsize))

\* DedupCore::restoreShare: the bytes a download produces for share fp.
\* Mutant: a delta-encoded share is read as a raw one.
RestoreShareIgnoringDepth(fp) ==
    IF fp \notin FPs \/ db[fp] = NoIndex THEN "noindex"
    ELSE RawShare(db[fp])
RestoreShare(fp) ==
    IF fp \notin FPs \/ db[fp] = NoIndex THEN "noindex"
    ELSE IF db[fp].depth > 0 THEN RestoreDeltaShare(db[fp], Fuel)
    ELSE RawShare(db[fp])

\* recipeCache_ (boost lru_cache): get moves the key to the front; insert
\* of a key already cached leaves the cached value as it is.
CachedKeys == {rcache[i].key : i \in 1..Len(rcache)}
CachePos(k) == CHOOSE i \in 1..Len(rcache) : rcache[i].key = k
LruGet(k) == <<rcache[CachePos(k)]>> \o RemoveAt(rcache, CachePos(k))
LruInsert(k, v) ==
    IF k \in CachedKeys THEN rcache
    ELSE <<[key |-> k, val |-> v]>> \o
         (IF Len(rcache) >= RecipeCacheSize
          THEN Front(rcache) ELSE rcache)

-----------------------------------------------------------------------------
(* Initial state: empty store, first container "aaaa..." open at offset 0 *)

Init ==
    /\ db = [f \in FPs |-> NoIndex]
    /\ batch = [f \in FPs |-> NoIndex]
    /\ batchCnt = 0
    /\ sfMap = [j \in 1..3 |-> [v \in SFVals |-> NoFP]]
    /\ cName = 0
    /\ cOff = 0
    /\ store = [k \in {} |-> Garbage]
    /\ unfinished = [k \in RecipeKeys |-> None]
    /\ recipeDisk = [k \in RecipeKeys |-> None]
    /\ rcache = <<>>
    /\ pc = [s \in Sessions |-> "first"]
    /\ frag = [s \in Sessions |-> 1]
    /\ idx = [s \in Sessions |-> 1]
    /\ dup = [s \in Sessions |-> <<>>]
    /\ rd = [s \in Sessions |-> NoIndex]
    /\ base = [s \in Sessions |-> NoFP]
    /\ bval = [s \in Sessions |-> NoIndex]
    /\ dl = None
    /\ lost = [s \in Sessions |-> FALSE]

Idle(s) == (pc[s] = "first" /\ frag[s] = 1) \/ pc[s] \in {"done", "failed", "closed"}
Finished(s) == pc[s] \in {"done", "failed", "closed"}
\* restoreShareFile is running for the client.
Downloading == dl # None /\ dl.state = "run"
\* Clients take turns: a session starts once the ones before it ended and
\* no download runs.
MayStart(s) ==
    Serial => /\ \A t \in Sessions : t < s => Finished(t)
              /\ ~Downloading

Goto(s, l) == pc' = [pc EXCEPT ![s] = l]

-----------------------------------------------------------------------------
(* Upload session steps (ClientUpload::operator() and DedupCore) *)

\* firstStageDedup: one intraUserIndexUpdate per coming share; dupStat[i]
\* is whether the flushed index of share i lists this user.
FirstStageDedup(s) ==
    LET F == Frags(s)[frag[s]]
        u == Job[s].user
    IN /\ pc[s] = "first"
       /\ ~IsPeer(s)
       /\ frag[s] = 1 => MayStart(s)
       /\ dup' = [dup EXCEPT ![s] =
                    [i \in 1..Len(F) |-> db[F[i]] # NoIndex /\ u \in Owners(db[F[i]])]]
       /\ Goto(s, "putRecipe")
       /\ UNCHANGED <<db, batch, batchCnt, sfMap, cName, cOff, store, unfinished,
                      recipeDisk, rcache, frag, idx, rd, base, bval, dl, lost>>

\* The client closes its socket between fragments: ClientUpload::
\* unfinished_ reads 0 bytes before the next META and the session ends
\* normally, leaving the file's unfinished recipe buffer in the map.
ClientClose(s) ==
    /\ ~IsPeer(s)
    /\ pc[s] = "first" /\ frag[s] > 1
    /\ Goto(s, "closed")
    /\ UNCHANGED <<db, batch, batchCnt, sfMap, cName, cOff, store, unfinished,
                   recipeDisk, rcache, frag, idx, dup, rd, base, bval, dl, lost>>

\* The connection is reset after the STAT reply: a read_n of
\* secondStageReceive_ returns -1 and it throws "socket error" before
\* secondStageDedup; the pool task catches the exception.
ClientReset(s) ==
    /\ ~IsPeer(s)
    /\ pc[s] = "putRecipe" /\ ~lost[s]
    /\ Goto(s, "failed")
    /\ UNCHANGED <<db, batch, batchCnt, sfMap, cName, cOff, store, unfinished,
                   recipeDisk, rcache, frag, idx, dup, rd, base, bval, dl, lost>>

\* The client closes its socket cleanly after the STAT reply, before its
\* DATA packet.  Every read_n of secondStageReceive_ returns 0, which is
\* not -1, so nothing is thrown: dataSize_ and dataBuffer_ keep what they
\* held, and secondStageDedup goes on with the META packet's share sizes
\* (PARANOID_CHECK is off).  The session then reads 0 in unfinished_.
ClientHangUp(s) ==
    /\ HangUpBeforeData
    /\ ~IsPeer(s)
    /\ pc[s] = "putRecipe" /\ ~lost[s]
    /\ lost' = [lost EXCEPT ![s] = TRUE]
    /\ UNCHANGED <<db, batch, batchCnt, sfMap, cName, cOff, store, unfinished,
                   recipeDisk, rcache, pc, frag, idx, dup, rd, base, bval, dl>>

\* PeerInterUserIndex: receive a share and run interUserIndexUpdate on it,
\* with no recipe and no BatchFlush afterwards.
PeerInterUserIndex(s) ==
    /\ pc[s] = "first"
    /\ IsPeer(s)
    /\ MayStart(s)
    /\ dup' = [dup EXCEPT ![s] = <<FALSE>>]
    /\ Goto(s, "share")
    /\ UNCHANGED <<db, batch, batchCnt, sfMap, cName, cOff, store, unfinished,
                   recipeDisk, rcache, frag, idx, rd, base, bval, dl, lost>>

\* BackendFacade::putRecipeFile.  A first fragment emplaces a buffer; if
\* the key already has one, emplace keeps it (and its total) and only the
\* head is reset.  A later fragment needs the buffer, or throws.
PutRecipeFile(s) ==
    LET k == KeyOf(s)
        u == Job[s].user
        fresh == [user |-> u, total |-> TotalShares(s), num |-> 0,
                  entries |-> [i \in 1..TotalShares(s) |-> NoFP]]
    IN /\ pc[s] = "putRecipe"
       /\ \/ /\ PastSecrets(s, frag[s]) = 0
             /\ unfinished' = [unfinished EXCEPT ![k] =
                                 IF @ = None THEN fresh
                                 ELSE [@ EXCEPT !.user = u, !.num = 0]]
             /\ idx' = [idx EXCEPT ![s] = 1]
             /\ Goto(s, "share")
          \/ /\ PastSecrets(s, frag[s]) > 0
             /\ unfinished[k] # None
             /\ idx' = [idx EXCEPT ![s] = 1]
             /\ Goto(s, "share")
             /\ UNCHANGED unfinished
          \/ /\ PastSecrets(s, frag[s]) > 0
             /\ unfinished[k] = None
             /\ Goto(s, "failed")
             /\ UNCHANGED <<unfinished, idx>>
       /\ UNCHANGED <<db, batch, batchCnt, sfMap, cName, cOff, store, recipeDisk,
                      rcache, frag, dup, rd, base, bval, dl, lost>>

\* The recipe entry of the current share (secondStageDedup's loop body),
\* written through the span putRecipeFile returned, then the loop moves on.
\* Mutant: the entry index is off by one.
SetRecipeEntryOffByOne(s) ==
    LET k == KeyOf(s)
        n == PastSecrets(s, frag[s]) + idx[s] - 1
    IN unfinished' = IF IsPeer(s) \/ unfinished[k] = None THEN unfinished
                     ELSE [unfinished EXCEPT ![k].entries[n] = CurFP(s)]
SetRecipeEntry(s) ==
    LET k == KeyOf(s)
        n == PastSecrets(s, frag[s]) + idx[s]
    IN unfinished' = IF IsPeer(s) \/ unfinished[k] = None THEN unfinished
                     ELSE [unfinished EXCEPT ![k].entries[n] = CurFP(s)]
\* Mutant: the loop index is not advanced.
NextShareNoAdvance(s) ==
    IF idx[s] < Len(Frags(s)[frag[s]])
    THEN /\ UNCHANGED idx
         /\ Goto(s, "share")
    ELSE /\ Goto(s, IF IsPeer(s) THEN "done" ELSE "finish")
         /\ UNCHANGED idx
\* The loop moves to the next share; after the last one an upload goes to
\* finishRecipeFile and a peer request ends.
NextShare(s) ==
    IF idx[s] < Len(Frags(s)[frag[s]])
    THEN /\ idx' = [idx EXCEPT ![s] = @ + 1]
         /\ Goto(s, "share")
    ELSE /\ Goto(s, IF IsPeer(s) THEN "done" ELSE "finish")
         /\ UNCHANGED idx

\* secondStageDedup, a share the first stage found owned: recipe entry only.
SkipDuplicate(s) ==
    /\ pc[s] = "share"
    /\ dup[s][idx[s]]
    /\ SetRecipeEntry(s)
    /\ NextShare(s)
    /\ UNCHANGED <<db, batch, batchCnt, sfMap, cName, cOff, store, recipeDisk,
                   rcache, frag, dup, rd, base, bval, dl, lost>>

\* interUserIndexUpdate, first step: getShareIndex of the share.
GetShareIndex(s) ==
    /\ pc[s] = "share"
    /\ ~dup[s][idx[s]]
    /\ rd' = [rd EXCEPT ![s] = db[CurFP(s)]]
    /\ Goto(s, IF db[CurFP(s)] # NoIndex THEN "append" ELSE "lookup")
    /\ UNCHANGED <<db, batch, batchCnt, sfMap, cName, cOff, store, unfinished,
                   recipeDisk, rcache, frag, idx, dup, base, bval, dl, lost>>

\* Mutant: the value written back lists only the new user.
AppendUserOverwrite(v, u) == [v EXCEPT !.users = <<u>>]
\* updateShareIndex: the value with one more user reference entry.
AppendUser(v, u) == [v EXCEPT !.users = Append(@, u)]

\* interUserIndexUpdate, share found: updateShareIndex appends this user
\* to the value read before, unless it is listed there already.
UpdateShareIndex(s) ==
    LET u == Job[s].user
    IN /\ pc[s] = "append"
       /\ IF u \in Owners(rd[s])
          THEN UNCHANGED <<db, batch, batchCnt>>
          ELSE Put(CurFP(s), AppendUser(rd[s], u))
       /\ SetRecipeEntry(s)
       /\ NextShare(s)
       /\ UNCHANGED <<sfMap, cName, cOff, store, recipeDisk, rcache, frag, dup,
                      rd, base, bval, dl, lost>>

\* interUserIndexUpdate, share absent: super-feature lookup and the read of
\* the candidate base's index.
SuperFeatureLookup(s) ==
    LET b == SuperFeatureIndex(ShareBytes(s))
    IN /\ pc[s] = "lookup"
       /\ base' = [base EXCEPT ![s] = b]
       /\ bval' = [bval EXCEPT ![s] = IF b = NoFP THEN NoIndex ELSE db[b]]
       /\ Goto(s, "store")
       /\ UNCHANGED <<db, batch, batchCnt, sfMap, cName, cOff, store, unfinished,
                      recipeDisk, rcache, frag, idx, dup, rd, dl, lost>>

\* The base bytes: getShareData for a raw base, restoreDeltaShare otherwise,
\* both driven by the base head read in the lookup step.
BaseBytes(h) == IF h.depth = 0 THEN RawShare(h) ELSE RestoreDeltaShare(h, Fuel)
\* Mutant: the depth check on the base is dropped.
DeltaOfNoDepthCheck(s) ==
    IF base[s] = NoFP \/ bval[s] = NoIndex THEN 0
    ELSE ComputeDelta(BaseBytes(bval[s]), bval[s].shareSize,
                      ShareBytes(s), ShareSize[CurFP(s)])
DeltaOf(s) ==
    IF base[s] = NoFP \/ bval[s] = NoIndex THEN 0
    ELSE IF bval[s].depth >= MaxDeltaDepth THEN 0
    ELSE ComputeDelta(BaseBytes(bval[s]), bval[s].shareSize,
                      ShareBytes(s), ShareSize[CurFP(s)])

\* Mutant: the share size is recorded as the delta size.
NewDeltaIndexSizeSwap(s, d, at) ==
    [shareSize |-> ShareSize[CurFP(s)], users |-> <<Job[s].user>>,
     depth |-> bval[s].depth + 1, dsize |-> ShareSize[CurFP(s)],
     base |-> base[s], cont |-> at[1], off |-> at[2]]
\* Mutant: the share's own fingerprint is recorded as its base.
NewDeltaIndexSelfBase(s, d, at) ==
    [shareSize |-> ShareSize[CurFP(s)], users |-> <<Job[s].user>>,
     depth |-> bval[s].depth + 1, dsize |-> d,
     base |-> CurFP(s), cont |-> at[1], off |-> at[2]]
\* The new share index value of the delta branch: one user, depth one
\* more than the base's, the delta's place and size.
NewDeltaIndex(s, d, at) ==
    [shareSize |-> ShareSize[CurFP(s)], users |-> <<Job[s].user>>,
     depth |-> bval[s].depth + 1, dsize |-> d,
     base |-> base[s], cont |-> at[1], off |-> at[2]]

\* interUserIndexUpdate, delta branch: store the delta, index it at
\* depth base+1, update the super-feature index.
StoreDeltaShare(s) ==
    LET fp == CurFP(s)
        d == DeltaOf(s)
        at == NextSlot(d)
    IN /\ pc[s] = "store"
       /\ d > 0
       /\ PutShareData([kind |-> "delta", src |-> ShareBytes(s),
                        base |-> BaseBytes(bval[s]), len |-> d])
       /\ Put(fp, NewDeltaIndex(s, d, at))
       /\ SuperFeatureIndexUpdate(ShareBytes(s), fp)
       /\ SetRecipeEntry(s)
       /\ NextShare(s)
       /\ UNCHANGED <<recipeDisk, rcache, frag, dup, rd, base, bval, dl, lost>>

\* interUserIndexUpdate, unique branch: store the raw share at depth 0.
StoreUniqueShare(s) ==
    LET fp == CurFP(s)
        at == NextSlot(ShareSize[fp])
    IN /\ pc[s] = "store"
       /\ DeltaOf(s) = 0
       /\ PutShareData([kind |-> "raw", src |-> ShareBytes(s), base |-> fp,
                        len |-> ShareSize[fp]])
       /\ Put(fp, [shareSize |-> ShareSize[fp], users |-> <<Job[s].user>>,
                   depth |-> 0, dsize |-> 0, base |-> NoFP,
                   cont |-> at[1], off |-> at[2]])
       /\ SuperFeatureIndexUpdate(ShareBytes(s), fp)
       /\ SetRecipeEntry(s)
       /\ NextShare(s)
       /\ UNCHANGED <<recipeDisk, rcache, frag, dup, rd, base, bval, dl, lost>>

\* Mutant: the completion test runs before the fragment is counted.
RecipeCompleteBeforeCount(r, n) == r.num = r.total
\* finishRecipeFile: the buffer holds every share once this fragment's n
\* entries are counted.
RecipeComplete(r, n) == r.num + n = r.total

\* BackendFacade::finishRecipeFile, up to the BatchFlush: count the
\* fragment; a complete recipe is written, cached and dropped from the
\* unfinished map.  No buffer: throws.
FinishRecipeFile(s) ==
    LET k == KeyOf(s)
        r == unfinished[k]
        n == Len(Frags(s)[frag[s]])
    IN /\ pc[s] = "finish"
       /\ \/ /\ r = None
             /\ Goto(s, "failed")
             /\ UNCHANGED <<unfinished, recipeDisk, rcache>>
          \/ /\ r # None
             /\ ~RecipeComplete(r, n)
             /\ unfinished' = [unfinished EXCEPT ![k].num = @ + n]
             /\ Goto(s, "flush")
             /\ UNCHANGED <<recipeDisk, rcache>>
          \/ /\ r # None
             /\ RecipeComplete(r, n)
             /\ recipeDisk' = [recipeDisk EXCEPT ![k] = r.entries]
             /\ rcache' = LruInsert(k, r.entries)
             /\ unfinished' = [unfinished EXCEPT ![k] = None]
             /\ Goto(s, "flush")
       /\ UNCHANGED <<db, batch, batchCnt, sfMap, cName, cOff, store, frag, idx,
                      dup, rd, base, bval, dl, lost>>

\* The BatchFlush ending finishRecipeFile; the session then reads the
\* next META packet, or sees the socket closed: after the last fragment,
\* or when the client hung up before this fragment's DATA.
FinishFlush(s) ==
    /\ pc[s] = "flush"
    /\ BatchFlush
    /\ \/ /\ lost[s]
          /\ Goto(s, "closed")
          /\ UNCHANGED frag
       \/ /\ ~lost[s] /\ frag[s] < Len(Frags(s))
          /\ frag' = [frag EXCEPT ![s] = @ + 1]
          /\ Goto(s, "first")
       \/ /\ ~lost[s] /\ frag[s] = Len(Frags(s))
          /\ Goto(s, "done")
          /\ UNCHANGED frag
    /\ UNCHANGED <<sfMap, cName, cOff, store, unfinished, recipeDisk, rcache,
                   idx, dup, rd, base, bval, dl, lost>>

-----------------------------------------------------------------------------
(* Download session (ClientDownload, DedupCore::restoreShareFile) and the *)
(* client's downloadChunk loop (client/src/socket.cc)                     *)

\* The download in progress, or the last one.  sent: the restored shares
\* the client has received in flush_ packets, in order; buf: the shares
\* restored into the share file buffer and not yet flushed; off: the
\* buffer offset; pos: the next recipe entry.  state "end": the loop
\* finished and the rest was flushed; "throw": an exception ended the
\* session; "crash": restoreDeltaShare did not return.  In all three the
\* socket is closed, downloadChunk's recv of the indicator returns 0 and
\* the client is told the stream has ended (retSize 0).  One client
\* downloads at a time.
\*
\* A recipe entry's shareSize; a hole in a recipe buffer is a
\* value-initialised entry (make_unique<std::byte[]>) of size 0.
EntryShareSize(fp) == IF fp \in FPs THEN ShareSize[fp] ELSE 0

\* restoreShareFile with the recipe found: the share file head is set at
\* offset 0 and the loop starts behind it.
StartDownload(k, r) ==
    dl' = [key |-> k, recipe |-> r, disk |-> recipeDisk[k], pos |-> 1,
           off |-> ShareFileHeadSize, buf |-> <<>>, sent |-> <<>>,
           state |-> "run"]

\* ClientDownload::receive_ reads user u's file name; restoreShareFile
\* asks getRecipeData: the recipe cache first (a hit moves the key to the
\* front), else the recipe file, which is not put in the cache.  No file:
\* "there is no such inode index" is thrown before anything is sent.
ClientDownload(u, f) ==
    LET k == <<u, f>>
    IN /\ ~Downloading
       /\ Serial => \A s \in Sessions : Idle(s)
       /\ \/ /\ k \in CachedKeys
             /\ rcache' = LruGet(k)
             /\ StartDownload(k, rcache[CachePos(k)].val)
          \/ /\ k \notin CachedKeys
             /\ recipeDisk[k] # None
             /\ StartDownload(k, recipeDisk[k])
             /\ UNCHANGED rcache
          \/ /\ k \notin CachedKeys
             /\ recipeDisk[k] = None
             /\ dl' = [key |-> k, recipe |-> None, disk |-> None, pos |-> 1,
                       off |-> 0, buf |-> <<>>, sent |-> <<>>, state |-> "throw"]
             /\ UNCHANGED rcache
       /\ UNCHANGED <<db, batch, batchCnt, sfMap, cName, cOff, store, unfinished,
                      recipeDisk, pc, frag, idx, dup, rd, base, bval, lost>>

\* flushCallBack -> ClientDownload::flush_: one RESP_DOWNLOAD packet with
\* the buffer's bytes, which the client's downloadChunk receives in full
\* (genericDownload); the buffer offset restarts at 0.
Flush(d) == [d EXCEPT !.sent = @ \o d.buf, !.buf = <<>>, !.off = 0]

\* One pass of restoreShareFile's loop.  When the entry and its share do
\* not fit behind the offset, flushCallBack (ClientDownload::flush_) sends
\* the buffer and the offset restarts at 0; then restoreShare reads the
\* share's index and containers now.  A missing index throws and what the
\* buffer holds is never sent.
DownloadShare ==
    LET fp == dl.recipe[dl.pos]
        need == ShareEntrySize + EntryShareSize(fp)
        d == IF dl.off + need >= ShareFileBufLen THEN Flush(dl) ELSE dl
        data == RestoreShare(fp)
    IN /\ Downloading
       /\ dl.pos <= Len(dl.recipe)
       /\ dl' = CASE data = "noindex" -> [d EXCEPT !.buf = <<>>, !.state = "throw"]
                  [] data = "diverge" -> [d EXCEPT !.buf = <<>>, !.state = "crash"]
                  [] OTHER -> [d EXCEPT !.buf = Append(@, data), !.off = @ + need,
                                        !.pos = @ + 1]
       /\ UNCHANGED <<db, batch, batchCnt, sfMap, cName, cOff, store, unfinished,
                      recipeDisk, rcache, pc, frag, idx, dup, rd, base, bval, lost>>

\* After the loop the rest of the buffer is flushed; the session returns
\* and Server::run's task closes the socket.
DownloadEnd ==
    /\ Downloading
    /\ dl.pos > Len(dl.recipe)
    /\ dl' = [IF dl.off > 0 THEN Flush(dl) ELSE dl EXCEPT !.state = "end"]
    /\ UNCHANGED <<db, batch, batchCnt, sfMap, cName, cOff, store, unfinished,
                   recipeDisk, rcache, pc, frag, idx, dup, rd, base, bval, lost>>

-----------------------------------------------------------------------------

Next ==
    \/ \E s \in Sessions :
          \/ FirstStageDedup(s)
          \/ ClientClose(s)
          \/ ClientReset(s)
          \/ ClientHangUp(s)
          \/ PeerInterUserIndex(s)
          \/ PutRecipeFile(s)
          \/ SkipDuplicate(s)
          \/ GetShareIndex(s)
          \/ UpdateShareIndex(s)
          \/ SuperFeatureLookup(s)
          \/ StoreDeltaShare(s)
          \/ StoreUniqueShare(s)
          \/ FinishRecipeFile(s)
          \/ FinishFlush(s)
    \/ \E s \in {t \in Sessions : ~IsPeer(t)} : ClientDownload(Job[s].user, Job[s].file)
    \/ DownloadShare
    \/ DownloadEnd

Spec == Init /\ [][Next]_vars


-----------------------------------------------------------------------------
(* Properties *)

TypeOK ==
    /\ db \in [FPs -> IndexVal \cup {NoIndex}]
    /\ batch \in [FPs -> IndexVal \cup {NoIndex}]
    /\ batchCnt \in 0..BatchSize
    /\ sfMap \in [1..3 -> [SFVals -> FPs \cup {NoFP}]]
    /\ cName \in 0..MaxContainers - 1 /\ cOff \in 0..ContainerSize
    /\ \A k \in DOMAIN store : store[k].kind \in {"raw", "delta"}
    /\ unfinished \in [RecipeKeys -> RecipeBuf \cup {None}]
    /\ \A k \in RecipeKeys : recipeDisk[k] = None \/ recipeDisk[k] \in Seq(FPs \cup {NoFP})
    /\ Len(rcache) <= RecipeCacheSize
    /\ pc \in [Sessions -> {"first", "putRecipe", "share", "append", "lookup",
                             "store", "finish", "flush", "done", "failed",
                             "closed"}]
    /\ lost \in [Sessions -> BOOLEAN]

\* Every share the index holds, raw or delta-encoded, restores through
\* restoreShare / restoreDeltaShare to its own bytes: the container
\* offsets putShareData hands out, the base recorded by the delta branch
\* and the base chain all agree.
RestoredContentCorrect ==
    \A fp \in FPs : db[fp] # NoIndex => RestoreShare(fp) = fp

\* A delta-encoded share's base is indexed with a smaller delta depth, so
\* a base chain ends at a raw share within MAX_DELTA_DEPTH steps, as the
\* depth check in interUserIndexUpdate intends.
DeltaChainBounded ==
    \A fp \in FPs :
        db[fp] # NoIndex /\ db[fp].depth > 0 =>
            /\ db[fp].depth <= MaxDeltaDepth
            /\ db[db[fp].base] # NoIndex
            /\ db[db[fp].base].depth < db[fp].depth

\* The index value that a flush would leave for fp.
Latest(fp) == IF batch[fp] # NoIndex THEN batch[fp] ELSE db[fp]

\* Once a user's recipe is written, that user is among the owners of every
\* share it names: updateShareIndex's append and the unique/delta stores
\* never drop an owner recorded by another session.
OwnersRecorded ==
    \A k \in RecipeKeys :
        recipeDisk[k] # None =>
            \A i \in DOMAIN recipeDisk[k] :
                LET fp == recipeDisk[k][i]
                IN fp \in FPs /\ Latest(fp) # NoIndex /\ k[1] \in Owners(Latest(fp))

\* Payloads written by putShareData lie inside their container and never
\* overlap: a written share is never overwritten.
ContainerExtentsDisjoint ==
    \A a, b \in DOMAIN store :
        /\ a[2] + store[a].len <= ContainerSize
        /\ a # b /\ a[1] = b[1] =>
              a[2] + store[a].len <= b[2] \/ b[2] + store[b].len <= a[2]

\* Every recipe file on disk lists the shares of one upload of that file,
\* in order: concurrent uploads of a file do not mix their recipe buffers.
RecipeIsUpload ==
    \A k \in RecipeKeys :
        recipeDisk[k] # None =>
            \E s \in Sessions : KeyOf(s) = k /\ recipeDisk[k] = FileShares(s)

\* The client's downloadChunk loop sees the stream end (recv returns 0)
\* only after it has received, in order, the bytes of every share the
\* recipe names: restoreShareFile's flushes and the socket close after
\* the session make the end of the stream mean the end of the file.
ClientSawEnd == dl # None /\ dl.state # "run" /\ dl.recipe # None
DownloadRoundTrip == ClientSawEnd => dl.sent = dl.recipe

\* An upload whose client sent every fragment and saw no error has its
\* recipe on disk: finishRecipeFile persisted the buffer once the last
\* fragment was counted.
CompletedUploadPersisted ==
    \A s \in Sessions :
        ~IsPeer(s) /\ pc[s] = "done" => recipeDisk[KeyOf(s)] # None

\* A download serves the recipe of the latest completed upload of that
\* file, the one on disk, not an older cached one.
DownloadFresh ==
    dl # None /\ dl.recipe # None => dl.recipe = dl.disk

\* A client that sent every fragment whole gets its file back: once its
\* upload session has ended normally, every share of the file restores to
\* that share's own bytes, whatever other clients did before it.  This is
\* about the first-stage and inter-user dedup trusting an index entry
\* that a session stored from a data buffer no DATA packet filled.
HonestUploadRestorable ==
    \A s \in Sessions :
        ~IsPeer(s) /\ pc[s] = "done" =>
            \A i \in DOMAIN FileShares(s) :
                RestoreShare(FileShares(s)[i]) = FileShares(s)[i]

========================================================================

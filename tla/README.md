# TLA+ models of the edelta dedup server

This directory holds TLA+ models of the secret-share deduplication server under `src/server`. They are checked with TLC. Each model is translated from the C++ source. The cfg files fix small instances, and `PROJECT.json` lists:

- every run;
- the source lines each definition models;
- the findings;
- the hazards the models cover.

## The system

The server stores the shares of files uploaded by many users. It keeps one copy of identical shares and stores similar shares as deltas against a base. Its parts are below.

| Part | Source | State | Operations |
|---|---|---|---|
| Session layer | `comm/server.hpp`, `comm/services.hpp` | one task per connection on a thread pool | `ServiceDispatcher::Submit`; `ClientUpload` loops over file fragments (META, STAT, DATA); `ClientDownload`; the peer handlers |
| Dedup core | `dedup/dedup_core.hpp` | none of its own | `firstStageDedup` (per share: does this user own it?); `secondStageDedup` (per non-duplicate share `interUserIndexUpdate`, then the recipe entry, then `finishRecipeFile`); `restoreShareFile`, `restoreShare`, `restoreDeltaShare` |
| KV database | `backend/db_wrapper.hpp` | the leveldb store, a static write batch and its counter under a recursive mutex | `Get` (store only), `Put` (into the batch, flushing when the counter passes `BATCH_SIZE`), `BatchFlush` |
| Share containers | `backend/backend_facade.hpp`, `backend/container.hpp` | the writable container and its offset | `putShareData` (a new container when the payload does not fit), `getShareData` |
| Name dispenser | `backend/name_dispenser.hpp` | the next 16-letter name | `get` |
| Recipe store | `backend/backend_facade.hpp` | the unfinished recipe buffers, the recipe files, the recipe LRU cache (3 entries) | `putRecipeFile`, `finishRecipeFile`, `getRecipeData` |
| Similarity index | `dedup/delta.hpp` | three super-feature maps | `superFeatureIndex`, `superFeatureIndexUpdate` |
| Delta codec | `lib/delta/src/delta.c` | none | `compute_delta` (refuses small inputs and no-gain deltas), `restore_delta` |
| Startup | `main.cpp`, `def/initializer.hpp`, `def/util.hpp` | the database and container directories | `DirInit(clean)`, `DataBase::Init`, then `Server{}`, whose facade creates the first container |
| Client window fingerprint | `client/src/rabin.cpp` | none | `rabin` (largest rolling hash of any 48-byte window) |
| Client socket | `client/src/socket.cc` | one TCP connection | the constructor (sends the user id), `initDownload`, `downloadChunk` and `genericDownload`; `sendMeta`, `sendData` and `getStatus` for uploads |

The server interacts through shared state. Upload and download sessions run concurrently on worker threads. They share four things:

- the KV store and its one global write batch;
- the writable container;
- the unfinished recipe map;
- the similarity index.

Only some of this is locked:

- The write batch, the container and the recipe maps have mutexes.
- The read-modify-write of a share index entry in `interUserIndexUpdate` has no lock.
- The similarity maps have no lock.

A KV `Get` does not see entries still in the batch. A session's entries become readable at its `finishRecipeFile`, which ends with `BatchFlush`, or at an automatic flush. That flush may come from any session.

## Modules

### `DedupCore`

`DedupCore` models the upload and download pipeline over the backend.

State:

- `db` is the flushed store.
- `batch` and `batchCnt` are the write batch and its counter.
- `sfMap` is the similarity index.
- `cName`, `cOff` and `store` are the containers. A container name is its number in dispenser order.
- `unfinished`, `recipeDisk` and `rcache` are the recipe store.
- Per-session locals: `pc`, `frag`, `idx`, `dup`, `rd`, `base` and `bval`.

Data is abstracted to fingerprints:

- A raw share's bytes are its fingerprint.
- A delta payload records the share it encodes and the base bytes it was encoded against. Decoding succeeds only against those bytes.
- Reading a container at an extent where nothing of that length was written yields garbage.
- A share whose bytes came from a data buffer no DATA packet filled has the bytes `Zeros`: the zeros `make_unique` left, or an earlier fragment's bytes. `ShareBytes(s)` is what `secondStageDedup` hands `interUserIndexUpdate`; its super features, its delta against a base and the payload stored are those of these bytes, while the fingerprint and size come from the META packet.

Each action is one step of a session. Sessions interleave at the code's separate KV reads and writes:

- `FirstStageDedup` is `firstStageDedup` with its `intraUserIndexUpdate` calls. They are one step because they only read.
- `PutRecipeFile` has three cases: a new buffer (an existing one is kept by `emplace`), a later fragment, and the "fail to find" throw.
- `SkipDuplicate` is a first-stage duplicate: only its recipe entry is written.
- `interUserIndexUpdate` is split into four steps:
  - `GetShareIndex` reads the index.
  - `UpdateShareIndex` is the existing-share branch and its `updateShareIndex`.
  - `SuperFeatureLookup` does the similarity lookup and the base index read.
  - `StoreDeltaShare` or `StoreUniqueShare` does `putShareData`, `putShareIndex` and `superFeatureIndexUpdate`.

  The steps that store a share also write the recipe entry and advance the loop, as the code's loop body does.
- `FinishRecipeFile` is `finishRecipeFile` up to `BatchFlush`: it counts the fragment and, for a complete recipe, writes the file, inserts it into the cache and erases the buffer. It also has the "fail to find" throw.
- `FinishFlush` is the `BatchFlush`. After it the session continues with the next fragment or ends.
- A download takes one step per recipe entry, so it interleaves with uploads. `dl` records the download and what the client received:
  - `ClientDownload(u, f)` is `ClientDownload::receive_` and `restoreShareFile` up to its loop. A cache hit moves the key to the front. A miss reads the file and does not cache it. No file is a throw before anything is sent.
  - `DownloadShare` is one pass of the loop. When the entry does not fit behind the offset, `Flush` (`flush_`) sends the buffer to the client. Then `restoreShare` reads the share's index and containers as they are at that moment. A missing index throws, and the unsent part of the buffer is lost.
  - `DownloadEnd` flushes the rest.
  - After a throw or the end, the socket is closed. The client's `downloadChunk` (`client/src/socket.cc`) reads 0 bytes and reports the end of the file in both cases (`ClientSawEnd`).
  - One client downloads at a time.

- The client can go away at three points, each with what the code does then:
  - `ClientClose`: the client closes between fragments. `unfinished_` reads 0 bytes before the next META, and the session ends normally ("closed"). The file's unfinished recipe buffer stays in the map.
  - `ClientReset`: the connection is reset after the STAT reply. A `read_n` of `secondStageReceive_` returns -1 and throws "socket error" before `secondStageDedup` ("failed").
  - `ClientHangUp`: the client closes cleanly after the STAT reply, without sending DATA. Every `read_n` of `secondStageReceive_` returns 0, which is not -1, so nothing is thrown. `secondStageDedup` runs on the stale `dataBuffer_` (`lost[s]`), with the META packet's fingerprints and sizes. `finishRecipeFile` and its `BatchFlush` follow, and then `unfinished_` reads 0 (`FinishFlush` ends the session, "closed"). It is enabled when the constant `HangUpBeforeData` is TRUE.
- `PeerInterUserIndex` is the peer handler of that name. It runs `interUserIndexUpdate` on one share with no recipe and no `BatchFlush`. The handler is served over the network even with `FORCE_LOCAL`.

A thrown exception ends the session ("failed"). `Server::run` catches it and other sessions go on.

When `Serial` is TRUE, clients take turns: an upload starts when the ones before it have ended, and downloads run between uploads. This is the spec's scenario setting.

The runs of `DedupCore` check safety only and use `Spec` without fairness.

### `MC_DedupCore`

`MC_DedupCore` gives the instances:

- users u1 and u2;
- shares A, B, C and D of size 4;
- containers of size 8, so the second container is reached;
- C encodes against A to size 2, and D encodes against C;
- the bytes `Zeros` have super features of their own and resemble no share;
- `MAX_DELTA_DEPTH` is 1;
- a share file buffer of 8 units with a head and entries of 1 unit, so a two-share recipe is sent in two packets;
- the job tables listed below.

### `ServerLifecycle` and `MC_ServerLifecycle`

`ServerLifecycle` models the process across starts and crashes. Its persistent state is:

- the container files and their contents;
- the recipe files;
- the flushed store.

Its memory is the write batch, the dispenser, the writable container, its offset and the open uploads.

Actions:

- `StartServer(clean)` is `DirInit(clean)` and `DataBase::Init`, then the facade creating container 'aaaa...' (number 1).
- `StartAbort(clean)` is the same start when that container file exists. `create` throws, `main` does not catch it, and the process ends.
- `StoreShare`, `FinishRecipe` and `FinishFlush` are an upload: `putShareData` with rollover and the `Put` into the batch, the recipe write, then `BatchFlush`.
- `Crash` can happen at any point. It loses the memory state.

`Restorable` is the set of files a download returns: a recipe on disk, an index entry in the store and the file's share at that entry. Through it the module refines `FileStore`.

Dedup itself is `DedupCore`'s job: here a file is one share of its own. `MC_ServerLifecycle` has three files and containers of two shares, so a rollover container also holds indexed data. Files are a symmetry set, since no action or property names one.

### `FileStore`

`FileStore` is the abstract promise of the process: a set of restorable files and whether the server runs. While it runs, uploads complete and add files. A start with clean empties the set; a start without it keeps the set; a stop keeps it. `ServerLifecycle` instantiates it with `restorable <- Restorable` and `running <- (proc = "running")`, and `independent_components` checks `FS!Spec` as a property (`RefinesFileStore`). An aborted start maps to a stop, which is a stutter.

### `Rabin`

`Rabin` models the client's `rabin()` loop step by step: the lookup tables, the first window, one action per slide, and the return. It is checked against a reference that hashes every window directly. The C code does the rolling update in 32-bit unsigned arithmetic and masks it to 23 bits. A wrap modulo 2^32 keeps those low bits, so the model reduces modulo the power of two directly.

### `NameDispenser`

`NameDispenser` models `NameDispenser::get` over an alphabet of `NumLetters` letters and names of `Width` letters. It is checked against a reference: the k-th name is k in base `NumLetters`, with the least significant digit first.

### `Wire` and `MC_Wire`

`Wire` models one download on one TCP connection, byte by byte. An integer is `IntWidth` bytes of `Radix` values, little-endian. The MC uses 2 bytes of 4 values in place of 4 bytes of 256.

- The client's side:
  - `Connect` is the constructor with flag 1, which sends the user id.
  - `InitDownload` sends the indicator, the name size and the name.
  - `RecvIndicator` and `RecvSize` are the two single `recv` calls of `downloadChunk`.
  - `RecvBody` is `genericDownload`'s loop.
- The server's side:
  - `Submit` reads the user id and the indicator.
  - `Receive` is `receive_`.
  - `Flush` is `flush_`, which writes the header and the payload with one `write_n`.
  - `Finish` closes the socket after `restoreShareFile` returns. `Abort` closes it after a throw.
- The stream:
  - `Deliver` hands the client the next segment of the server's bytes, of any length. `recv` returns at once what has arrived, at most what was asked.
  - The server reads with `read_n`, which returns only a full field, so the request is read whole.
  - A `recv` that returns fewer bytes than `readSize` has leaves the rest of that uninitialised variable. The model lets those bytes take any value.
- When `recv` returns 0 inside `genericDownload`, the total does not change and the loop spins. No step is possible, so the behaviour stutters.

`MC_Wire` downloads a share file of two packets, of one and two bytes. With every write delivered whole, the download always ends (checked while building the model). With segments of any length, it does not (`short_header_read`).

### `MC_Components`

`MC_Components` checks `Rabin`, `NameDispenser` and `ServerLifecycle` in one run. The initial state picks one of them (`part`), and every step of the behaviour is a step of that one; the other two stay in their initial states. They share no state, so each is checked exactly as on its own, and the state space is the sum of theirs. The properties are those of the three modules, renamed where two would clash (`LifecycleTypeOK`). `MC_ServerLifecycle` instantiates `ServerLifecycle` alone for `restart_without_clean`.

## Runs

| Run | Jobs | Result | What it shows |
|---|---|---|---|
| `serial_scenarios` | u1 uploads /a (A, B) twice; u2 uploads /a in two fragments; u1 uploads /b (C, then D); downloads between them | pass | The spec's scenarios A-F hold, with clients that may close between fragments or reset the connection after STAT, and a peer request. A client that keeps its connection after STAT sends its DATA (`HangUpBeforeData` is FALSE; `hangup_poisons_index` shows why). Every index entry restores to its share, delta chains end at a raw share within depth 1 (D falls back to a unique store), owners are recorded, a download returns the recipe's shares, containers do not overlap, recipes are exact, and a completed upload's recipe is persisted. |
| `concurrent_same_file` | u1 uploads /a (A, then B) and, concurrently, /a (C, D); either client may hang up before DATA | pass | Delta chains stay bounded while bases sit in the write batch and the other session flushes in between (`DeltaChainBounded`), and payloads never overlap in a container (`ContainerExtentsDisjoint`), under every interleaving. |
| `hangup_poisons_index` | u1 uploads /b (A) and may hang up after STAT; then u2 uploads /c (A) | violation of `HonestUploadRestorable` | u1 hangs up; its session stores A from the zeroed buffer, writes the recipe and ends normally. u2's complete upload finds A indexed, only appends u2, and A restores as zeros. |
| `same_file_recipe_mix` | as above | violation of `RecipeIsUpload` | The two uploads write into one recipe buffer, and the persisted recipe mixes them. |
| `same_share_race` | u1 and u2 each upload a file holding new share A | violation of `RestoredContentCorrect` | A becomes a delta against itself and cannot be restored. |
| `lost_owner` | as above | violation of `OwnersRecorded` | u2 cannot see u1's unflushed entry for A. It stores A again and its value drops u1. |
| `reupload_stale_recipe` | u1 uploads /a (A), then /a (B) | violation of `DownloadFresh` | The cached old recipe is served. |
| `download_during_finish` | one upload; downloads at any time | violation of `DownloadRoundTrip` | The recipe is visible before its index entries are flushed. The download throws, and the client sees the closed socket as a normal end of file. |
| `abandoned_upload` | u1 uploads /a in two fragments and closes after the first; then uploads /a in one fragment | violation of `CompletedUploadPersisted` | The second upload ends normally but its recipe is never written: the old buffer's total (2) is kept. |
| `restart_without_clean` | three files; starts with and without clean; crashes anywhere | violation of `StartSucceeds` | After a run, a start with clean = false always terminates: container 'aaaa...' exists. |
| `independent_components` | chunks of 1 to 5 bytes over {0, 1, 255}, window 3, modulus 2^10; names of 5 letters, width 3; three files, starts with and without clean, crashes anywhere | pass | No container holding indexed shares is truncated or reused, so a completed file whose index survives stays restorable (`CompletedFilesRestorable`). A running server has no recipe without an index entry outside an open upload (`RecipesIndexedWhileRunning`). The process refines `FileStore` (`RefinesFileStore`). The rolling hash equals the direct hash of every window, and the result is the largest one, also for chunks shorter than the window (`RollingHashExact`). Names follow the reference counter, each name is handed out once, and exhaustion comes after 124 names (`NamesFollowReference`). |
| `short_header_read` | one download of two packets; TCP segments of any length | violation of `DownloadEnds` | The second header arrives split. `recv` of the size returns one byte, and the rest of `readSize` is uninitialised. The client reads the next byte as a new header, then waits for more bytes than were sent. After the server closes, `recv` returns 0 and `genericDownload` spins for ever. |

Every property of a passing run has a mutant in `PROJECT.json`. A mutant is a definition changed the way a plausible bug would change it, and TLC finds the property violated with the mutant in place.

Bounds:

- Two users are enough for every race found. A third is needed only for two concurrent appenders to one existing share.
- Containers of size 8 with shares of size 4 reach the rollover.
- `BATCH_SIZE` 1 in the serial run makes `Put` flush on its own. 2 in the concurrent runs keeps entries pending across steps.
- A recipe cache of one entry reaches eviction.
- `independent_components` uses a window of 3 instead of 48, so chunks shorter than, equal to and longer than the window all occur within 5 bytes. The modulus is 2^10 instead of 2^23, so the base 257 stays different from 1 and the masking wraps. A modulus of 128 would make every power of 257 equal 1, and a wrong power would go unseen.
- The server process needs no bound on restarts. A clean start returns the disk to its initial state, and a start without clean after a run aborts.

- `short_header_read` needs two packets, so that a header follows a payload and can straddle a segment boundary. Two-byte integers are enough to split a header.
- The second upload of `concurrent_same_file` has a two-share fragment, so a hang-up before DATA stores two shares from the stale buffer.
- `hangup_poisons_index` needs two users and one share: the hang-up and a later, honest upload of the same share.

Fairness:

- `short_header_read` uses weak fairness for every step of the server session, the delivery of written bytes, and every client step. TCP delivers what was written, and both ends keep running. A throw (`Abort`) is not forced.
- The safety runs use `Spec`.

## Abstractions and what is not modelled

- Byte layouts, hashing (recipe keys are pairs of user and file), formatting, logging and benchmarks are not modelled.
- Super features are a constant table. xdelta is a table of output sizes.
- A recipe entry written outside its buffer, which is heap corruption in the code, is dropped.
- The unlocked similarity maps are read and written atomically. A torn read of a hash map is undefined behaviour, out of TLC's reach.
- The read-container LRU only changes latency.
- `PeerIntraUserIndex` and `PeerRestoreShare` only read and reply, so they are not modelled.
- `Wire` models the client socket's download exchange. The upload side (`sendMeta`, `sendData`, `getStatus`) is not modelled, because the client's header and `main` are missing from the repository and the order of the calls cannot be read. Its effects on the server, closing between fragments, a reset after STAT and a hang-up before DATA, are `ClientClose`, `ClientReset` and `ClientHangUp`. `getStatus` reads its header with single `recv` calls like `downloadChunk`; this is listed as a hazard without a property. So is a recipe file read while it is being rewritten.
- `Wire` assumes the download socket is built with flag 1, so the user id precedes the request, as `Submit` expects. The client's `main`, which chooses the flag, is missing.
- A download that hits a self-delta ends in state "crash". In the code the recursion overflows the stack and kills the process. The model stops only the download, which is enough for the download properties.
- The thread pool's bound is not modelled: each session has a worker. Idle clients that block `read_n` and hold every worker are listed as a hazard.
- Configuration parsing only reads values.
- The bytes a hang-up leaves in `dataBuffer_` are one value, `Zeros`, whether they are the zeros of a first fragment or an earlier fragment's bytes. Either way they are not the share's bytes, which is what the properties tell apart. A DATA payload of the wrong length, which shifts every later share, needs the client's send side and is not modelled.
- The name dispenser's names are unique but not lexicographically increasing, although the spec and the class comment say they are: 'caa' is followed by 'aba' in a 3-letter alphabet. Nothing depends on the order, so no run checks it; `NamesFollowReference` states the order the code does produce.

## Plan

These are the next steps, in order:

1. **An abstract share store for `DedupCore`.** `ServerLifecycle` already refines `FileStore`. The next step is a map from fingerprint to content plus one recipe per key, with `DedupCore` shown to refine it in serial runs through `INSTANCE ... WITH` and a refinement mapping that flushes the batch.
2. **More liveness.** A complete upload eventually persisted is shown to fail by `abandoned_upload`. A liveness property worth checking for a fragment needs the bounded thread pool, where idle clients can starve the others. Entries left in the batch by `PeerInterUserIndex` are flushed only by another session.
3. **More sessions.** A three-user configuration for the lost append in `updateShareIndex`, and a delta-cycle search with more shares.
4. **Exhaustion.** The name dispenser's throw inside `putShareData` fails only the session, not the process as the spec says. Checking this means joining `NameDispenser` to the container rollover.
5. **The client.** The upload exchange in `Wire` (`sendMeta`, `getStatus`, `sendData` against `ClientUpload`), if the missing client sources show the order of the calls.
6. **The download against a crash.** A server restart while `DownloadShare` is running, using `ServerLifecycle`'s crash model for the recipe file.

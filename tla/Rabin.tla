------------------------------- MODULE Rabin -------------------------------
(***************************************************************************)
(* The client's window fingerprint (src/client/src/rabin.cpp, rabin()):  *)
(* the largest polynomial hash of any window of the chunk, computed with  *)
(* a rolling hash.  The loop is modelled step by step: FirstWindow hashes *)
(* the first window directly, Slide moves the window one byte.  The hash  *)
(* is taken modulo polyMOD_, a power of two; the C code computes the      *)
(* rolling update in 32-bit unsigned arithmetic before masking, and a     *)
(* wrap modulo 2^32 leaves the low bits unchanged, so the model reduces   *)
(* modulo Mod directly.                                                    *)
(***************************************************************************)
EXTENDS Integers, Sequences, SequencesExt

CONSTANTS
    Bytes,      \* the byte values chunks are made of
    MaxLen,     \* longest chunk checked
    Base,       \* polyBase_ (257)
    Mod,        \* polyMOD_ (1 << 23), a power of two
    WinSize     \* slidingWinSize_ (48)

ASSUME /\ Bytes \subseteq 0..255 /\ MaxLen \in Nat \ {0}
       /\ Base \in Nat /\ Mod \in Nat \ {0} /\ WinSize \in Nat \ {0}

VARIABLES
    buffer,     \* the chunk, buffer[1..chunkSize]
    winFp,      \* hash of the current window
    maxWinFp,   \* largest window hash so far
    endIdx,     \* chunkEndIndex (0-based index of the window's last byte)
    phase       \* "init", "loop" or "done"

vars == <<buffer, winFp, maxWinFp, endIdx, phase>>

ChunkSize == Len(buffer)
\* The window shrinks to the chunk when the chunk is shorter than 48.
Win == IF ChunkSize < WinSize THEN ChunkSize ELSE WinSize
\* 0-based byte access, as buffer[i] in C.
At(i) == buffer[i + 1]

\* powerLUT_[i] = polyBase_^i mod polyMOD_, built iteratively.
RECURSIVE PowerLUT(_)
PowerLUT(i) == IF i = 0 THEN 1 ELSE (PowerLUT(i - 1) * Base) % Mod

\* Mutant: the power of the byte leaving the window is off by one.
RemoveLUTOffByOne(b) ==
    LET r == (b * PowerLUT(Win)) % Mod
    IN IF r # 0 THEN Mod - r ELSE 0
\* removeLUT_[b] = -(b * polyBase_^(win-1)) mod polyMOD_.
RemoveLUT(b) ==
    LET r == (b * PowerLUT(Win - 1)) % Mod
    IN IF r # 0 THEN Mod - r ELSE 0

\* The first window's hash: sum of buffer[e-i] * powerLUT_[i], masked.
FirstWindowFp ==
    SumFunction([i \in 0..Win - 1 |-> (At(Win - 1 - i) * PowerLUT(i)) % Mod]) % Mod

\* Every chunk of 1..MaxLen bytes; rabin() is called on non-empty chunks.
Chunks == UNION {[1..n -> Bytes] : n \in 1..MaxLen}

Init ==
    /\ buffer \in Chunks
    /\ winFp = 0
    /\ maxWinFp = 0
    /\ endIdx = -1
    /\ phase = "init"

\* The lookup tables, chunkEndIndex = win - 1 and the first window hash.
FirstWindow ==
    /\ phase = "init"
    /\ endIdx' = Win - 1
    /\ winFp' = FirstWindowFp
    /\ maxWinFp' = IF FirstWindowFp > maxWinFp THEN FirstWindowFp ELSE maxWinFp
    /\ phase' = "loop"
    /\ UNCHANGED buffer

\* One iteration of the while loop: roll the window one byte forward.
Slide ==
    LET e == endIdx + 1
        fp == ((winFp + RemoveLUT(At(e - Win))) * Base + At(e)) % Mod
    IN /\ phase = "loop"
       /\ endIdx < ChunkSize - 1
       /\ endIdx' = e
       /\ winFp' = fp
       /\ maxWinFp' = IF fp > maxWinFp THEN fp ELSE maxWinFp
       /\ UNCHANGED <<buffer, phase>>

\* The loop condition fails: rabin() returns maxWinFp.
Return ==
    /\ phase = "loop"
    /\ endIdx >= ChunkSize - 1
    /\ phase' = "done"
    /\ UNCHANGED <<buffer, winFp, maxWinFp, endIdx>>

Next == FirstWindow \/ Slide \/ Return

Spec == Init /\ [][Next]_vars

-----------------------------------------------------------------------------
(* Reference: the hash of the window ending at byte e, computed directly. *)

WindowHash(e) == SumFunction([i \in 0..Win - 1 |-> At(e - i) * Base^i]) % Mod

RefMaxFp ==
    LET hs == {WindowHash(e) : e \in Win - 1..ChunkSize - 1}
    IN CHOOSE h \in hs : \A g \in hs : g <= h

\* Inside the loop the rolling update keeps winFp equal to the direct hash
\* of the window ending at chunkEndIndex, and maxWinFp the largest of the
\* windows seen; when rabin() returns, maxWinFp is the largest window hash
\* of the chunk.
RollingHashExact ==
    /\ phase = "loop" =>
         /\ winFp = WindowHash(endIdx)
         /\ maxWinFp = LET hs == {WindowHash(e) : e \in Win - 1..endIdx}
                       IN CHOOSE h \in hs : \A g \in hs : g <= h
    /\ phase = "done" => maxWinFp = RefMaxFp

=============================================================================

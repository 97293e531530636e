--------------------------- MODULE NameDispenser ---------------------------
(***************************************************************************)
(* The container name dispenser (src/server/src/backend/name_dispenser.hpp)*)
(* A name is a fixed-width word over the letters 'a'..'z', here the       *)
(* letters 1..NumLetters.  get() runs under the dispenser's mutex, so it  *)
(* is one atomic step: it returns the current name and advances it by     *)
(* incrementing the leftmost letter that is not 'z' and resetting every   *)
(* letter to its left to 'a'; when every letter is 'z' it throws.         *)
(***************************************************************************)
EXTENDS Integers, Sequences

CONSTANTS
    NumLetters,   \* size of the alphabet: 1 = 'a', NumLetters = 'z'
    Width         \* config::INTERNAL_FILE_NAME_SIZE

ASSUME NumLetters \in Nat \ {0, 1} /\ Width \in Nat \ {0}

Letters == 1..NumLetters
Positions == 1..Width
FirstLetter == 1
LastLetter == NumLetters

VARIABLES
    name,       \* NameDispenser::name_
    issued,     \* the names get() has returned, in order (history)
    exhausted   \* get() has thrown "reaches maximum"

vars == <<name, issued, exhausted>>

\* The constructor fills the name with 'a'.
Init ==
    /\ name = [i \in Positions |-> FirstLetter]
    /\ issued = <<>>
    /\ exhausted = FALSE

\* std::find_if_not(name_, c == 'z'): the leftmost position not at 'z'.
NotLast(n) == {i \in Positions : n[i] # LastLetter}
\* Mutant: the search is skipped and the first letter always advanced.
CurAlwaysFirst(n) == 1
Cur(n) == CHOOSE i \in NotLast(n) : \A j \in NotLast(n) : i <= j

\* Mutant: the letters left of the incremented one are not reset.
AdvanceNoReset(n) ==
    LET c == Cur(n)
    IN [i \in Positions |-> IF i = c THEN n[i] + 1 ELSE n[i]]
\* (*cur)++ and std::fill(name_.begin(), cur, 'a').
Advance(n) ==
    LET c == Cur(n)
    IN [i \in Positions |-> IF i < c THEN FirstLetter
                            ELSE IF i = c THEN n[i] + 1 ELSE n[i]]

\* NameDispenser::get, a name is left: return it and advance.
Get ==
    /\ NotLast(name) # {}
    /\ issued' = Append(issued, name)
    /\ name' = Advance(name)
    /\ UNCHANGED exhausted

\* NameDispenser::get, every letter is 'z': throw, nothing changes.
GetExhausted ==
    /\ NotLast(name) = {}
    /\ exhausted' = TRUE
    /\ UNCHANGED <<name, issued>>

Next == Get \/ GetExhausted

Spec == Init /\ [][Next]_vars

-----------------------------------------------------------------------------
(* Reference: the k-th name (from 0) is k written in base NumLetters with  *)
(* the least significant digit in the leftmost position.                   *)

RefName(k) == [i \in Positions |-> ((k \div NumLetters^(i - 1)) % NumLetters) + 1]

TypeOK ==
    /\ name \in [Positions -> Letters]
    /\ issued \in Seq([Positions -> Letters])
    /\ exhausted \in BOOLEAN

\* get() hands out the base-NumLetters counter in order: the k-th name is
\* RefName(k - 1), so no name is handed out twice, and the dispenser
\* throws only after it has handed out every name but the all-'z' one
\* (the final name is never returned).
NamesFollowReference ==
    /\ \A k \in 1..Len(issued) : issued[k] = RefName(k - 1)
    /\ exhausted => Len(issued) = NumLetters^Width - 1

=============================================================================

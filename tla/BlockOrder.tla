----------------------------- MODULE BlockOrder -----------------------------
(***************************************************************************)
(* Where a block stands relative to the newest one so far: `distance16` and *)
(* `classify` of viva-genicam's stream/assembly.rs.                         *)
(***************************************************************************)
EXTENDS Integers

CONSTANTS
    Cycle,       \* 16-bit block ids run 1..Cycle and start again: 65535 in the code
    Word,        \* extended ids are unsigned words: 2^64 values in the code
    LateWindow   \* LATE_WINDOW: 100 in the code

ASSUME BlockOrderAssumption ==
    /\ Cycle \in Nat /\ Word \in Nat /\ LateWindow \in Nat
    /\ 2 * LateWindow < Cycle
    /\ 2 * LateWindow < Word

\* last_block_id before the first block.
None == -1

\* The position of an id in the cycle, which skips 0.
Pos(id) == (id - 1) % Cycle

\* Signed distance in the cycle 1..Cycle; positive is newer.
distance16(last, next) ==
    LET d == (Pos(next) - Pos(last)) % Cycle
    IN  IF d > Cycle \div 2 THEN d - Cycle ELSE d

\* next.wrapping_sub(last) as i64
distance64(last, next) ==
    LET d == (next - last) % Word
    IN  IF d >= Word \div 2 THEN d - Word ELSE d

Distance(last, next, extended_ids) ==
    IF extended_ids THEN distance64(last, next) ELSE distance16(last, next)

\* Mutated form: a new acquisition is not looked for.
NeverRestarts(next, leader, d) == FALSE

\* A leader of block 1 from anything but its predecessor is a new acquisition.
Restarts(next, leader, d) == next = 1 /\ leader /\ d \notin {0, 1}

\* "Unordered", "Next", "Late" or "Restart", with the number of ids skipped.
classify(last, next, extended_ids, leader) ==
    IF last = None \/ (next = 0 /\ ~extended_ids)
    THEN [order |-> "Unordered", missed |-> 0]
    ELSE LET d == Distance(last, next, extended_ids)
         IN  IF Restarts(next, leader, d) \/ d < -LateWindow
             THEN [order |-> "Restart", missed |-> 0]
             ELSE IF d > 0 THEN [order |-> "Next", missed |-> d - 1]
                           ELSE [order |-> "Late", missed |-> 0]
=============================================================================

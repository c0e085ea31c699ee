---------------------------- MODULE CircularArray ----------------------------
(***************************************************************************)
(* The ring buffer of src/src/utils/circular_array.h that holds the last   *)
(* values of a time series.  Positions count from 0, as in the code.       *)
(***************************************************************************)
EXTENDS Integers, Sequences

\* `blank` stands for the T{} the array is filled with.
NewArray(capacity, blank) ==
    [capacity |-> capacity, array |-> [p \in 0 .. capacity - 1 |-> blank],
     next |-> 0, fill_count |-> 0]

\* Mutant: the position wraps one push too late.
PushBack_WrapsLate(ca, t) ==
    [ca EXCEPT !.array[ca.next] = t,
               !.next = IF @ = ca.capacity THEN 0 ELSE @ + 1,
               !.fill_count = IF @ < ca.capacity THEN @ + 1 ELSE @]

PushBack(ca, t) ==
    [ca EXCEPT !.array[ca.next] = t,
               !.next = (@ + 1) % ca.capacity,
               !.fill_count = IF @ < ca.capacity THEN @ + 1 ELSE @]

\* operator[], for 0 <= i < fill_count
At(ca, i) ==
    IF ca.next - ca.fill_count >= 0
    THEN ca.array[ca.next - ca.fill_count + i]
    ELSE ca.array[(ca.next - ca.fill_count + ca.capacity + i) % ca.capacity]

\* Mutant: the copy starts at the next free position.
Copied_OffByOne(ca) ==
    [j \in 1 .. ca.fill_count |->
        LET pos == ca.next - ca.fill_count + j
        IN  ca.array[IF pos >= 0 THEN pos % ca.capacity ELSE ca.capacity + pos]]

\* copy(): from the oldest value to the newest
Copied(ca) ==
    [j \in 1 .. ca.fill_count |->
        LET pos == ca.next - (ca.fill_count - j + 1)
        IN  ca.array[IF pos >= 0 THEN pos ELSE ca.capacity + pos]]
=============================================================================

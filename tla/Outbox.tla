------------------------------- MODULE Outbox -------------------------------
(***************************************************************************)
(* What the upload queue of a device promises.  A technician's item waits  *)
(* on the device until the plant's server has taken it: it never leaves    *)
(* the device before that.  An item the server has taken may wait once     *)
(* more (its answer was lost, or a stale copy was written back); the       *)
(* server then meets it a second time.  DocumentUpload implements this     *)
(* specification.                                                          *)
(***************************************************************************)
CONSTANT Item

VARIABLES
    waiting,   \* the items the device still holds for the server
    taken      \* the items the server has taken

outboxVars == <<waiting, taken>>

TypeOK == waiting \subseteq Item /\ taken \subseteq Item

Init == waiting = {} /\ taken = {}

\* The owner hands an item to the device.
Put(i) ==
    /\ i \notin waiting \cup taken
    /\ waiting' = waiting \cup {i}
    /\ UNCHANGED taken

\* The server takes items: they have been put, perhaps by a device that died since.
Take(S) ==
    /\ S # {} /\ S \subseteq waiting
    /\ taken' = taken \cup S
    /\ UNCHANGED waiting

\* The device drops items the server has.
Drop(S) ==
    /\ S # {} /\ S \subseteq waiting \cap taken
    /\ waiting' = waiting \ S
    /\ UNCHANGED taken

\* An item the server has is queued again.
Again(i) ==
    /\ i \in taken \ waiting
    /\ waiting' = waiting \cup {i}
    /\ UNCHANGED taken

Next ==
    \/ \E i \in Item : Put(i) \/ Again(i)
    \/ \E S \in SUBSET Item : Take(S) \/ Drop(S)

Spec == Init /\ [][Next]_outboxVars
=============================================================================

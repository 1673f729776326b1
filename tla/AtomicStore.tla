----------------------------- MODULE AtomicStore -----------------------------
(***************************************************************************)
(* What the content store promises its clients: an object is there         *)
(* completely or not at all, and one that a database row names is lost     *)
(* only to a bad medium.  Module ContentStore implements it.               *)
(***************************************************************************)
CONSTANT Objects

VARIABLES
    present,   \* objects that a reader finds, complete
    promised   \* objects that a committed row names

AtomicInit == present = {} /\ promised = {}

\* An object appears, whole.
Appear(d) == present' = present \cup {d} /\ UNCHANGED promised

\* A row names an object that is there.
Promise(d) ==
    /\ d \in present
    /\ promised' = promised \cup {d}
    /\ UNCHANGED present

\* Objects nobody was promised may vanish, as after a power loss.
Vanish(D) ==
    /\ D \subseteq present \ promised
    /\ present' = present \ D
    /\ UNCHANGED promised

\* The medium damages an object: no promise covers it any more.
Spoil(d) == present' = present \ {d} /\ promised' = promised \ {d}

AtomicNext ==
    \/ \E d \in Objects : Appear(d) \/ Promise(d) \/ Spoil(d)
    \/ \E D \in SUBSET Objects : Vanish(D)

AtomicSpec == AtomicInit /\ [][AtomicNext]_<<present, promised>>
=============================================================================

---------------------------- MODULE MCSupervisor ----------------------------
(* Instances of Supervisor for TLC. *)
EXTENDS Supervisor, TLC

(* Every camera has a name of its own. *)
OwnCards ==
    CHOOSE f \in [Camera -> Card] :
        \A c, d \in Camera : c # d => f[c] # f[d]

(* The labels of all cameras are cut to the same name, or are the same. *)
OneCard == [c \in Camera |-> CHOOSE k \in Card : TRUE]

(* A camera's loopback is found by its own name, and by one of the names   *)
(* other programs use where there are such, which begins it.               *)
Alike == {CHOOSE k \in OtherCard : TRUE}
OwnAndAlike == [c \in Camera |-> {CardOf[c]} \cup Alike]
OwnOnly == [c \in Camera |-> {CardOf[c]}]

NodeSlotThreadSymmetry ==
    Permutations(Node) \cup Permutations(Slot) \cup Permutations(Thread)
=============================================================================

--------------------------- MODULE MCRoomLifecycle ---------------------------
(* Small instances of RoomLifecycle for TLC.                                 *)
EXTENDS RoomLifecycle, TLC

LifecycleSymmetry ==
    Permutations(Room) \union Permutations(Member) \union Permutations(Worker)
    \union Permutations(Machine)
=============================================================================

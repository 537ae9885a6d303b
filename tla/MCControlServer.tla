--------------------------- MODULE MCControlServer ---------------------------
(* Small instances of ControlServer for TLC: the room half with no groups,   *)
(* and the exposure half with no rooms.                                     *)
EXTENDS ControlServer, TLC

OpenNodes == {[ports |-> Port, domains |-> Domain]}

\* Random ids are interchangeable within their kind.
RoomSymmetry == Permutations(Room) \union Permutations(Member) \union Permutations(Worker)
ExposureSymmetry == Permutations(Device) \union Permutations(Exposure) \union Permutations(Worker)
=============================================================================

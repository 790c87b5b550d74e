------------------------------- MODULE MCDungeon -------------------------------
(* Small instances of Dungeon for TLC: roads on a grid of 2 rows, 3 columns. *)
EXTENDS Dungeon, TLC

Road(cells, monsters, active, image) ==
    [path |-> cells, start |-> cells[1], treasure |-> cells[Len(cells)],
     monsters |-> monsters, active |-> active, image |-> image]

\* A road that bends, so that cells far apart on it are neighbours.
Bend == << <<1, 0>>, <<0, 0>>, <<0, 1>>, <<1, 1>> >>

\* Its monsters all sit between the ends; or it is straight and shares cells.
Bent     == Road(Bend, {<<0, 0>>, <<0, 1>>}, TRUE, "bent")
Straight == Road(<< <<0, 0>>, <<0, 1>>, <<0, 2>> >>, {<<0, 1>>}, TRUE, "straight")

\* What an administrator may send besides: a map that is switched off, a
\* monster on the start, and a road with a gap.
Off       == Road(Bend, {<<0, 1>>}, FALSE, "off")
AtStart   == Road(Bend, {<<1, 0>>}, TRUE, "bent")
WithAGap  == Road(<< <<0, 0>>, <<0, 2>>, <<1, 2>> >>, {<<0, 2>>}, TRUE, "bent")

MCLayouts == {Bent, Straight, Off, AtStart, WithAGap}

\* The same road before it had a puzzle at its treasure.
MCLegacy == {Road(Bend, {<<0, 1>>}, TRUE, NoImage)}

\* The monster of a road is moved from one cell to another.
MCMoved == {Road(<< <<0, 0>>, <<0, 1>>, <<0, 2>>, <<1, 2>> >>, {cell}, TRUE, "straight") :
                cell \in {<<0, 1>>, <<0, 2>>}}
MCMovedLegacy == {[l EXCEPT !.image = NoImage] : l \in MCMoved}

\* Replacements that meet no player between their delete and their commit.
AtOnce == saving # NoSave => UNCHANGED <<points, job, progress>> \/ saving' = NoSave
MCStaleSpec == Init /\ [][Next /\ AtOnce]_vars

\* Requests are interchangeable (safety only).
MCSymmetry == Permutations(Requests)
=============================================================================

----------------------------- MODULE MCDisplay -----------------------------
EXTENDS Display

CONSTANTS g1, g2

Area(a, b, c, d) == [x1 |-> a, y1 |-> b, x2 |-> c, y2 |-> d]
\* Overlapping, nested and disjoint ones, one partly off the screen and one wholly off it.
MCAreas == {Area(0, 0, 1, 1), Area(1, 1, 1, 2), Area(0, -1, 0, 2), Area(2, 0, 3, 2)}
\* Callbacks change a column across several of these areas, and single pixels
\* below them: enough to make the list overflow in a refresh.
MCDrawAreas == {Area(1, 0, 1, 2), Area(0, 2, 0, 2), Area(1, 2, 1, 2)}
\* One monitor shows the whole screen, the other one is smaller.
MCRes == [g \in Monitors |-> IF g = g1 THEN [w |-> Width, h |-> Height]
                             ELSE [w |-> Width, h |-> Height - 1]]
=============================================================================

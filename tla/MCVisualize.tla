---------------------------- MODULE MCVisualize ----------------------------
(* Layouts of two or four traces in every order. *)
EXTENDS Visualize

Grid(r, c, p, orders) == [rows : {r}, cols : {c}, plots : {p}, order : orders]

MCLayouts ==
    Grid(1, 2, 1, {<<"plots", "cols">>}) \cup Grid(2, 1, 2, Orders) \cup Grid(2, 2, 1, Orders)

=============================================================================

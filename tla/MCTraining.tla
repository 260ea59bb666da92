----------------------------- MODULE MCTraining -----------------------------
(* Training for TLC: two symbols whose bars have gaps, and folds of every    *)
(* shape.                                                                    *)
EXTENDS Training

Listing == <<"a", "b">>
Months == {1..10, (1..10) \ {6}, 3..9, (1..10) \ {2, 7, 8}}
Shapes ==
  {[warm |-> w, horizon |-> h, splits |-> s, train |-> 3, test |-> t, embargo |-> 1, holdout |-> 2, samples |-> 3] :
     w \in {0, 1}, h \in {1, 2}, s \in {1, 2, 3}, t \in {1, 2}}

=============================================================================

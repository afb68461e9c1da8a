------------------------------- MODULE MCOwner -------------------------------
(* Small instances of Owners. *)
EXTENDS Owners, TLC

CONSTANTS m1, m2, r1, r2, c1, c2, g1, g2, g3, l1, l2,
          wa, wb, na, nb, fa, fb, qa, qb, pa, pb, ea, eb, va, vb, sa, sb

MCResolvers == m1 :> r1 @@ m2 :> r2
MCChosen == 1 :> {g1, g3} @@ 2 :> {g1, g2, g3}
MCThreshold == 1 :> 2 @@ 2 :> 2
\* Shares of two sets may have one x, of one guardian or of two.
MCX == 1 :> (g1 :> 1 @@ g3 :> 2) @@ 2 :> (g1 :> 1 @@ g2 :> 2 @@ g3 :> 3)

MCReverse == wa :> na @@ wb :> NoName
MCRemembered == {wa :> n @@ wb :> NoName : n \in {NoName, na, nb}}
MCRegistered == na :> wa @@ nb :> wa

\* Two calls of any kind and a switch between them; three that read, where locks come between.
MCVisits == {[kinds |-> CallKinds, calls |-> 2, switches |-> 1],
             [kinds |-> {"code"}, calls |-> 3, switches |-> 0]}
=============================================================================

----------------------------- MODULE MCDesktop -----------------------------
(* Two workspaces; session a with an old ray at home, b with one elsewhere,  *)
(* and c, which is only created during the run.                              *)
EXTENDS Desktop, TLC

CONSTANTS a, b, c, home, away, r1, r2, r3, r4

MCSessions == {a, b, c}
MCRays == {r1, r2, r3, r4}
MCPlaces == {home, away}
MCPlaceOf == (a :> home) @@ (b :> away) @@ (c :> home)
MCTree == [ray |-> (a :> r1) @@ (b :> r2), selected |-> a]
MCStored == (home :> MCTree) @@ (away :> NoNavigation)
MCExample == [ray |-> (a :> NoRay) @@ (b :> NoRay), selected |-> a]
=============================================================================

----------------------------- MODULE MCActivity -----------------------------
(* Two messages of one station with the same opening, near each other in    *)
(* the passband, one to somebody else near the first, and two far away, of  *)
(* which one ends with a frame that looks like a callsign prefix.           *)
EXTENDS Activity, TLC

CONSTANTS m1, m2, n1, f1, f2

FromDef == m1 :> "A" @@ m2 :> "A" @@ n1 :> "B" @@ f1 :> "B" @@ f2 :> "A"
OffsetDef == m1 :> 20 @@ m2 :> 12 @@ n1 :> 30 @@ f1 :> 90 @@ f2 :> 80
LengthDef == m1 :> 3 @@ m2 :> 2 @@ n1 :> 2 @@ f1 :> 2 @@ f2 :> 1
PrefixedDef == {<<f1, 2>>}
OpeningDef ==
  m1 :> "hello" @@ m2 :> "hello" @@ n1 :> "other" @@ f1 :> "far" @@ f2 :> "brief"
=============================================================================

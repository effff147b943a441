------------------------------ MODULE MCBitmap ------------------------------
(***************************************************************************)
(* Bitmaps of 9 states (two groups, the second with one state) over 2 or 3 *)
(* symbols, HighBound 2: with 3 symbols every go has a span above the      *)
(* bitmap and the transition has the high-byte branch.  One state of the   *)
(* list, at the head or the tail of the first group or alone in the       *)
(* second, ranges over every go and destination; the others are fixed.     *)
(***************************************************************************)
EXTENDS Bitmap

MCHighBound == 2
Targets == {1, 2, 3}
NMaps == 9

(* The gos over 0 .. t - 1: increasing upper bounds ending at t, adjacent  *)
(* spans to different states.                                              *)
Gos(t) ==
  UNION {{[i \in 1..Len(u) |-> [ub |-> u[i], to |-> to[i]]] :
            to \in {f \in [1..Len(u) -> Targets] :
                      \A i \in 1..(Len(u) - 1) : f[i] # f[i + 1]}} :
           u \in {SetToSortSeq(s, <) : s \in {s \in SUBSET (1..t) : t \in s}}}

BmStates(t) == UNION {{[go |-> g, state |-> g[i].to] : i \in DOMAIN g} : g \in Gos(t)}

Filler(t) ==
  [i \in 1..NMaps |->
     LET g == <<[ub |-> 1, to |-> 1 + (i % 3)], [ub |-> t, to |-> 1 + ((i + 1) % 3)]>>
     IN [go |-> g, state |-> g[1 + (i % 2)].to]]

BitmapJobs ==
  UNION {{[bms |-> [Filler(t) EXCEPT ![pos] = b], top |-> t] :
            pos \in {1, 8, 9}, b \in BmStates(t)} : t \in {2, 3}}

=============================================================================

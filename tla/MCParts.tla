------------------------------ MODULE MCParts -------------------------------
(* Small instances of four modules, of parts that share no state: `part`     *)
(* names the one whose steps a behaviour takes, the others stay as they      *)
(* start. The state spaces add up instead of multiplying; each of the four   *)
(* is explored in full, and of Panels and Shelf the two halves that do not   *)
(* read what the other writes.                                               *)
EXTENDS Trips, Shelf, Media, Panels, TLC

CONSTANTS x1, x2, y1, y2, y3, p1, p2, d1, d2, r1, t1, t2, f1, h1

\* One set of values serves several of the modules: TLC tries every permutation
\* of every set on every state.
Twins == {x1, x2}
Triplets == {y1, y2, y3}
AllPeople == {p1, p2}
AllDays == {d1, d2}
AllTours == {t1, t2}
Symmetry == Permutations(Twins) \cup Permutations(Triplets) \cup Permutations(AllPeople)

VARIABLE part

PartsInit ==
  /\ part \in {"trips", "filing", "finding", "media", "packing", "notes"}
  /\ Init /\ ShelfInit /\ MediaInit /\ PanelsInit

PartsNext ==
  \/ /\ part = "trips" /\ Next
     /\ UNCHANGED <<part, shelfVars, mediaVars, panelsVars>>
  \/ /\ \/ part = "filing" /\ FilingNext
        \/ part = "finding" /\ FindingNext
     /\ UNCHANGED <<part, vars, mediaVars, panelsVars>>
  \/ /\ part = "media" /\ MediaNext
     /\ UNCHANGED <<part, vars, shelfVars, panelsVars>>
  \/ /\ \/ part = "packing" /\ PackingNext
        \/ part = "notes" /\ NotesNext
     /\ UNCHANGED <<part, vars, shelfVars, mediaVars>>

PartsSpec == PartsInit /\ [][PartsNext]_<<part, vars, shelfVars, mediaVars, panelsVars>>
=============================================================================

------------------------------- MODULE Archive -------------------------------
(***************************************************************************)
(* What the snapshot store promises for each problem, without rows, objects, *)
(* manifests, locks or a garbage collector: the newest published generation *)
(* can always be restored, the generation it replaced can be restored until *)
(* its rollback window ends, and what a generation restores never changes.  *)
(***************************************************************************)
EXTENDS Integers

CONSTANTS Problems, Generations, Contents

VARIABLE kept     \* what a restore of each generation yields today

Nothing == [rank |-> "nothing"]

Slots == Problems \X Generations

Promised == [rank: {"latest", "rollback"}, content: Contents]

TypeOK == kept \in [Slots -> Promised \cup {Nothing}]

Init == kept = [s \in Slots |-> Nothing]

Kept(p) == {g \in Generations : kept[<<p, g>>] # Nothing}

(* A generation of p is replaced: it moves to the rollback window. *)
Demoted(p) ==
  [s \in Slots |-> IF s[1] = p /\ kept[s] # Nothing
                   THEN [kept[s] EXCEPT !.rank = "rollback"] ELSE kept[s]]

(* A new generation is published above the newest one, which is demoted. The *)
(* documentation of the snapshot states is docs/snapshot-retention-gc.md:5-10. *)
Publish(p, g, c) ==
  /\ kept[<<p, g>>] = Nothing
  /\ \A h \in Kept(p) : kept[<<p, h>>].rank = "latest" => h < g
  /\ kept' = [Demoted(p) EXCEPT ![<<p, g>>] = [rank |-> "latest", content |-> c]]

(* The newest generation is replaced by one that nothing is promised of. *)
Replace(p) == kept' = Demoted(p)

(* The rollback window of a replaced generation ends. *)
WindowEnds(s) ==
  /\ kept[s] # Nothing
  /\ kept[s].rank = "rollback"
  /\ kept' = [kept EXCEPT ![s] = Nothing]

Next ==
  /\ kept' # kept
  /\ \/ \E p \in Problems, g \in Generations, c \in Contents : Publish(p, g, c)
     \/ \E p \in Problems : Replace(p)
     \/ \E s \in Slots : WindowEnds(s)

Spec == Init /\ [][Next]_kept
=============================================================================

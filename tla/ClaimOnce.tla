----------------------------- MODULE ClaimOnce -----------------------------
(*****************************************************************************)
(* What the desks promise of a case that several people may decide: it is    *)
(* decided once, by one of the verdicts it knows, and each effect of the     *)
(* verdict happens at most once and never without it.                        *)
(*****************************************************************************)
EXTENDS Naturals

CONSTANTS Items, Verdicts, Effect, EffectsOf

VARIABLES verdict, applied

claimVars == <<verdict, applied>>

Init == /\ verdict \in [Items -> {"none", "open"}]
        /\ applied = [i \in Items |-> [e \in Effect |-> 0]]

Open(i) == verdict[i] = "none" /\ verdict'[i] = "open"

Decide(i) == verdict[i] = "open" /\ verdict'[i] \in Verdicts[i]

Stands(i) == verdict'[i] = verdict[i]

\* An effect that happens is one of the verdict, and is the first of its kind.
Acts(i) ==
  \A e \in Effect :
    \/ applied'[i][e] = applied[i][e]
    \/ /\ applied[i][e] = 0 /\ applied'[i][e] = 1
       /\ verdict'[i] \in Verdicts[i] /\ e \in EffectsOf[verdict'[i]]

Next == \A i \in Items : (Stands(i) \/ Open(i) \/ Decide(i)) /\ Acts(i)

Spec == Init /\ [][Next]_claimVars
=============================================================================

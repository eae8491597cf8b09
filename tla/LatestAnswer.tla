---------------------------- MODULE LatestAnswer ----------------------------
(***************************************************************************)
(* What a view promises that asks the daemon anew at every choice of the   *)
(* user: it shows the answer to the last choice, or goes on showing what   *)
(* it showed.  The answer to a choice that has been replaced can only land *)
(* with the step that replaces it, so what is shown never goes back.       *)
(*                                                                         *)
(* Choices are numbered; 0 is none, and shows nothing.                     *)
(***************************************************************************)
EXTENDS Naturals

VARIABLES asked, shown
avars == <<asked, shown>>

LatestInit == asked \in {0, 1} /\ shown = 0

Choose == asked' = asked + 1 /\ shown' \in {shown, asked}
Answer == shown' = asked /\ UNCHANGED asked
Blank == shown' = 0 /\ UNCHANGED asked

LatestNext == Choose \/ Answer \/ Blank

LatestSpec == LatestInit /\ [][LatestNext]_avars
=============================================================================

------------------------------ MODULE MCMatch -------------------------------
(* Instances of the match sync for TLC: a feed of a match and of one in a  *)
(* competition the application does not know; a day has two kickoff times. *)
EXTENDS MatchSync, TLC

CONSTANTS Lyon, Lens

Announced(opponent, date, known) ==
    [opponent |-> opponent, date |-> date, atHome |-> TRUE, played |-> FALSE,
     known |-> known]

MCCalendar == <<Announced(Lens, 0, FALSE), Announced(Lyon, 0, TRUE)>>

MCStored == {<<>>, <<[opponent |-> Lyon, date |-> 0, atHome |-> TRUE,
                      played |-> FALSE]>>}

MCByHand == {Announced(Lyon, 1, TRUE)}

MCSymmetry == Permutations(Loads)
=============================================================================

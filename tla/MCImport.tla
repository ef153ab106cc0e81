------------------------------ MODULE MCImport ------------------------------
(* Instances of the import for TLC: two passes of two seasons, two         *)
(* opponents, and a match that may be added on a day that has one already. *)
EXTENDS SalesImport

CONSTANTS p1, p3, Lyon, Lens

MCSeasonOf == [p \in Passes |-> IF p = p3 THEN 2 ELSE 1]

Match(season, date, opponent) ==
    [season |-> season, date |-> date, opponent |-> opponent]

MCFixtures  == {Match(1, 2, Lyon), Match(1, 2, Lens), Match(2, 5, Lyon)}
MCPublished == {Match(1, 2, Lyon), Match(2, 5, Lyon)}

Raw(opponent, tickets, status, soldAt, recipient) ==
    [date |-> 2, opponent |-> opponent, tickets |-> tickets,
     status |-> status, soldAt |-> soldAt, recipient |-> recipient,
     cells |-> TRUE]

MCFiles == {<<Raw(Lens, 1, "SOLD", 1, FALSE)>>,
            <<Raw(Lyon, 1, "PENDING", NoDay, FALSE),
              Raw(Lyon, 2, "GIFTED", 3, FALSE)>>}

MCTouched == {<<b, 1>> : b \in Batches}

MCCellValues ==
    [f \in Fields |->
       CASE f = "date"      -> {5}
         [] f = "soldAt"    -> {3, NoDay}
         [] f = "recipient" -> {TRUE}
         [] f = "tickets"   -> {1}
         [] f = "cells"     -> {FALSE}
         [] OTHER           -> {}]
=============================================================================

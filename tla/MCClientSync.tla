---------------------------- MODULE MCClientSync ----------------------------
(* ClientSync with one peer, whose presence is on the first page of the snapshot;    *)
(* a second change of it carries the time stamp of the first.                     *)
EXTENDS ClientSync

CONSTANT colleague

FirstPage == [i \in {colleague} |-> 0]
LeaseExpires == [i \in {colleague} |-> [v \in 0..MaxVersion |-> IF v = 0 THEN 0 ELSE 1]]
=============================================================================

-------------------------------- MODULE Queues --------------------------------
(***************************************************************************)
(* What the queues of the models have in common: messages that are taken   *)
(* out because nobody is left to receive them.  Qt does that when a queued *)
(* call's receiver is deleted (QObject::~QObject).                         *)
(*                                                                         *)
(* SelectSeq says the same, but TLAPS cannot expand its definition; the    *)
(* facts about Kept are in QueuesProofs.                                   *)
(***************************************************************************)
EXTENDS Integers, Sequences

\* The messages at the given places of the queue, in their order.
Kept(queue, places) ==
    LET upTo[n \in 0..Len(queue)] ==
            IF n = 0 THEN <<>>
            ELSE IF n \in places THEN Append(upTo[n - 1], queue[n]) ELSE upTo[n - 1]
    IN  upTo[Len(queue)]
=============================================================================

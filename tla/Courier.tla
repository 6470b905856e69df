------------------------------ MODULE Courier -------------------------------
(***************************************************************************)
(* What a message channel promises, whatever the coding: items are handed  *)
(* over one by one, the message is sealed, and then the same items arrive  *)
(* one by one in the same order; or else the message is lost, which is     *)
(* known, and nothing more arrives.  No item is ever altered, invented,    *)
(* doubled or left out.                                                    *)
(*                                                                         *)
(* RangeCoder implements it for the symbols of one message, Semaphore for  *)
(* the tokens of a message between two machines.                           *)
(***************************************************************************)
EXTENDS Naturals, Sequences

CONSTANT Item

VARIABLES
    handed,     \* items handed over so far
    arrived,    \* items that have arrived
    fate        \* "open", "sealed" or "lost"

vars == <<handed, arrived, fate>>

Init == handed = <<>> /\ arrived = <<>> /\ fate = "open"

Hand(item) ==
    /\ fate = "open"
    /\ handed' = Append(handed, item)
    /\ UNCHANGED <<arrived, fate>>

Seal ==
    /\ fate = "open"
    /\ fate' = "sealed"
    /\ UNCHANGED <<handed, arrived>>

Lose ==
    /\ fate \in {"open", "sealed"}
    /\ fate' = "lost"
    /\ UNCHANGED <<handed, arrived>>

Arrive ==
    /\ fate = "sealed" /\ Len(arrived) < Len(handed)
    /\ arrived' = Append(arrived, handed[Len(arrived) + 1])
    /\ UNCHANGED <<handed, fate>>

Next == (\E item \in Item : Hand(item)) \/ Seal \/ Lose \/ Arrive

\* Nothing is left to do for the message.
Complete == fate = "lost" \/ (fate = "sealed" /\ arrived = handed)

Safety == Init /\ [][Next]_vars

Spec == Safety /\ <>Complete
=============================================================================

----------------------------- MODULE MCDelivery -----------------------------
(***************************************************************************)
(* Small instances of Delivery: who is sent what.                          *)
(***************************************************************************)
EXTENDS Delivery

CONSTANTS A, B, m1, m2, m3

(* Everything goes to one channel. *)
OneChannel == [m \in Messages |-> <<A>>]
ListensToOne == [c \in Clients |-> <<A>>]

(* Everything goes to two channels. *)
BothChannels == [m \in Messages |-> <<A, B>>]

(* Two channels of the same client. *)
TwoChannels == [m \in Messages |-> IF m = m2 THEN <<B>> ELSE <<A>>]
ListensToTwo == [c \in Clients |-> <<A, B>>]

=============================================================================

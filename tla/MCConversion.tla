---------------------------- MODULE MCConversion ----------------------------
(* Two processes with a text and a binary websocket, and a binary and a    *)
(* text poll, and a process in the publish mode.                           *)
EXTENDS Conversion, TLC

CONSTANTS p1, p2, p3, text1, binary1, poll2, binary2

MCHome == (text1 :> p1) @@ (binary1 :> p1) @@ (poll2 :> p2) @@ (binary2 :> p2)
=============================================================================

-------------------------------- MODULE MCLogger --------------------------------
(***************************************************************************)
(* Logger for TLC: messages of two types somebody may register and of type *)
(* 0, which nobody can.                                                    *)
(***************************************************************************)
EXTENDS Logger

MessageTypes == [m \in 1 .. MaxSent |-> m % 3]
===============================================================================

------------------------------ MODULE MCCommands ------------------------------
(* A small instance of the command parser: pin 2 has the command byte 0x02  *)
(* and pin 4 the letters 'd' and 'D' among its operands.                    *)
EXTENDS Commands
===============================================================================

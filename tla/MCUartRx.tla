------------------------------- MODULE MCUartRx -------------------------------
(* Receive pools of three blocks of up to three units.                         *)
EXTENDS UartRx
================================================================================

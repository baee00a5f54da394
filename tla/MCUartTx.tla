------------------------------- MODULE MCUartTx -------------------------------
(* Transmit pools of three elements, six frames.                             *)
EXTENDS UartTx
================================================================================

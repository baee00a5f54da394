---------------------------- MODULE MCXlinkParser ----------------------------
(* Payloads of at most two bytes, so that bytes are 0..7; SOF is 2, which is  *)
(* also a legal length, as 0xA5 is.                                           *)
EXTENDS XlinkParser

\* A SOF in the payload or in the CRC, with the longest length that leaves
\* rx_msg_pos alone (6) and the one that does not (7) after it.
MCPayloads == {<<>>, <<2, 6>>, <<2, 7>>, <<0, 2>>, <<0, 0, 0>>}
MCNoisy == [comp : {1}, msg : {1}, payload : MCPayloads, crc : {<<2, 6>>, <<7, 0>>}]
\* GetFirmwareInfo, the first frame of every run of the tool; neither of the
\* two it sends has a second 0xA5.
MCPlain == {[comp |-> 1, msg |-> 0, payload |-> <<1>>, crc |-> <<3, 4>>]}
================================================================================

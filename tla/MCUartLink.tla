----------------------------- MODULE MCUartLink ------------------------------
(* Small instances of UartLink.                                             *)
EXTENDS UartLink

CONSTANTS app, poller, mode, status, v1, v2

MCRegisters == {mode, status}
MCValues == {v1, v2}

\* One register, and values that read like the header of an answer.
OneRegister == {mode}
HeaderValues == {"BB", "01"}
=============================================================================

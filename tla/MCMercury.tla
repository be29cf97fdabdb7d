----------------------------- MODULE MCMercury -----------------------------
(* Instances of Mercury for TLC.                                           *)
EXTENDS Mercury

\* What damage leaves in UART_Buffer.
Damage == {Truncated, Garbled}

\* A line that loses frames and garbles them.
Garbling == {Garbled}

\* A line on which late answers to earlier requests are taken for the answer.
Disturbed == Damage \cup {DataFrame, Reply(0), Reply(5)}
=============================================================================

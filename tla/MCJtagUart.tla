----------------------------- MODULE MCJtagUart -----------------------------
\* The JTAG UART with small buffers and few characters.
EXTENDS JtagUart

\* Only written characters, only sent ones, or one of each.
MCStarts == {<<0, 4>>, <<4, 0>>, <<3, 3>>}
=============================================================================

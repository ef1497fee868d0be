------------------------------- MODULE MCSpi --------------------------------
\* The SPI command with the bytes 0 and 1.
EXTENDS Spi

MCData == {0, 1}
MCSetups == {<<1, 0>>, <<0, 1, 1>>}
MCPackets == {<<0>>, <<1, 0>>, <<0, 1, 1>>}
=============================================================================

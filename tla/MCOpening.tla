------------------------------ MODULE MCOpening ------------------------------
\* A small instance of Opening for TLC.
EXTENDS Opening

CONSTANTS n1, nf, i1, i2, if, r1

Request(nn, i, mipi, spi) == [nn |-> nn, info |-> i, fps |-> r1, mipi |-> mipi, spi |-> spi]

\* direct and flash boot, supported, reserved and invalid formats, and a text
\* that is refused
MCRequests ==
  {Request(n1, i1, "image", "output"), Request(None, i1, "metadata", "jpeg"),
   Request(n1, i1, "off", "reserved"), Request(None, i1, "off", "off"),
   Request(n1, i2, "image", "output"),
   Request(None, i1, "invalid", "output"), Request(None, i1, "off", "invalid")}

MCTwoRequests ==
  {Request(n1, i1, "image", "output"), Request(None, i1, "image", "output")}
=============================================================================

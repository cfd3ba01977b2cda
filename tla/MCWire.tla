------------------------------- MODULE MCWire -------------------------------
\* Values for the frames and the bytes of Wire.  One body has the five bytes of
\* a head, and passes for one.
EXTENDS Wire

MCFrame(i, body) == [id |-> i, type |-> 1, data |-> body]

MCFrames ==
  {MCFrame(1, <<>>), MCFrame(1, <<1>>), MCFrame(2, <<1, 3, 0, 0, 2>>),
   MCFrame(3, [i \in 1 .. 11 |-> 1])}
=============================================================================

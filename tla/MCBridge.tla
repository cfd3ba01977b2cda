------------------------------ MODULE MCBridge ------------------------------
\* Payloads for Bridge.
EXTENDS Bridge

CONSTANTS c1, c2, h1

MCFloor(digits) == FloorPrefix \o digits

\* A name with a letter too many, a name, and two floors of which one is a
\* digit longer: each leaves something behind the shorter ones.
MCPayloads ==
  {<<"r", "e", "s", "e", "t", "s">>, <<"E", "S", "T", "O", "P">>,
   MCFloor(<<"2">>), MCFloor(<<"1", "2">>)}

\* Two that are no names.
MCPrefixes == {<<>>, <<"e">>}
=============================================================================

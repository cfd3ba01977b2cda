---------------------------- MODULE MqttCommand ----------------------------
(***************************************************************************)
(* MaxComm_OnMqttCommand: which command a payload stands for.              *)
(*                                                                         *)
(* The payload is not terminated.  It lies in the receive buffer of the    *)
(* MQTT client, and what follows it there is what longer messages before   *)
(* it have left, at first nothing but zeros: the buffer is the sequence of *)
(* its characters before the first zero.  (Payloads that hold a zero, a    *)
(* blank or a sign are left out.)                                          *)
(***************************************************************************)
EXTENDS Naturals, Sequences, FiniteSetsExt, SequencesExt

CONSTANT Payloads    \* the messages that arrive (bounds the model)

ASSUME PayloadAssumption == Payloads \subseteq Seq(STRING)

\* The commands with a name, in the order in which they are tried.
Status == {<<"s", "t", "a", "t", "u", "s">>, <<"S", "T", "A", "T", "U", "S">>}
Reset  == {<<"r", "e", "s", "e", "t">>, <<"R", "E", "S", "E", "T">>}
Estop  == {<<"e", "s", "t", "o", "p">>, <<"E", "S", "T", "O", "P">>}

Names    == <<Status, Reset, Estop>>
Commands == <<"status", "reset", "estop">>

FloorPrefix == <<"f", "l", "o", "o", "r", ":">>

Digit == [c \in {"0", "1", "2", "3", "4", "5", "6", "7", "8", "9"} |->
            CHOOSE n \in 0 .. 9 : ToString(n) = c]

\* What strncmp reads of a string: n characters, or those before the zero.
Cut(s, n) == SubSeq(s, 1, IF n < Len(s) THEN n ELSE Len(s))

\* A slip: as many characters as the name has are compared.
Matches_NameOnly(buffer, len, name) == Cut(buffer, Len(name)) = name

\* strncmp(payload, name, len) == 0
Matches(buffer, len, name) == Cut(buffer, len) = Cut(name, len)

\* The digits at the start of a string, whether or not they belong to the payload.
Digits(s) ==
  LET stop == {i \in DOMAIN s : s[i] \notin DOMAIN Digit}
  IN  IF stop = {} THEN s ELSE SubSeq(s, 1, Min(stop) - 1)

Value(digits) == FoldLeft(LAMBDA n, c : 10 * n + Digit[c], 0, digits)

atoi(s) == Value(Digits(s))

\* The floor of a "floor:" command is cut to a byte.
Floor(buffer) == atoi(SubSeq(buffer, Len(FloorPrefix) + 1, Len(buffer))) % 256

Nothing == [command |-> "unknown"]

\* MaxComm_OnMqttCommand, for the len characters at the start of the buffer:
\* the first name with one of its spellings that matches, or a floor.
OnMqttCommand(buffer, len) ==
  LET matched == {k \in DOMAIN Names : \E name \in Names[k] : Matches(buffer, len, name)}
  IN  IF matched # {} THEN [command |-> Commands[Min(matched)]]
      ELSE IF Matches(buffer, Len(FloorPrefix), FloorPrefix) /\ len > Len(FloorPrefix)
      THEN [command |-> "floor", floor |-> Floor(buffer)]
      ELSE Nothing

\* A message arrives: it covers the start of the buffer.
Received(buffer, payload) == payload \o SubSeq(buffer, Len(payload) + 1, Len(buffer))
=============================================================================

----------------------------- MODULE MCFraming -----------------------------
(***************************************************************************)
(* The streams are all sequences of up to three pieces: good frames, one   *)
(* of each kind of damage, and single bytes between them.                  *)
(***************************************************************************)
EXTENDS Framing, SequencesExt, Bitwise

HexDigits(n) == IF n < 10 THEN {48 + n} ELSE {55 + n, 87 + n}

\* The XOR of the bytes as two hexadecimal digits, in upper or lower case.
MCBcc(prefix) ==
  LET xor == FoldLeft(LAMBDA x, b : x ^^ b, 0, prefix)
  IN  {<<h, l>> : h \in HexDigits(xor \div 16), l \in HexDigits(xor % 16)}

Letter == 122

\* STX AA LLL class data seq
Prefix(data) == <<STX, 48, 48, 48, 48, 48 + Len(data), Letter>> \o data \o <<49>>
Good(data)   == Prefix(data) \o (CHOOSE bcc \in MCBcc(Prefix(data)) : TRUE) \o <<ETX>>

Pieces == {
  Good(<<>>), Good(<<ACK>>),
  Prefix(<<>>) \o <<Letter, Letter, ETX>>,            \* wrong BCC
  Prefix(<<STX>>) \o <<48, 48, Letter>>,              \* no terminator
  <<STX, 48, 48, 48, 48, 50>>,                        \* longer than MaxData
  <<STX, Letter, Letter, Letter, Letter, Letter>>,    \* malformed header
  <<STX, 49>>, <<STX>>, <<ACK>>, <<Letter>>, <<49>>}

MCStreams ==
  LET Join(p) == FoldLeft(LAMBDA a, b : a \o b, <<>>, p)
  IN  {Join(p) : p \in SeqOf(Pieces, 3)}
=============================================================================

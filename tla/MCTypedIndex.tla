---------------------------- MODULE MCTypedIndex ----------------------------
(* Model-checking TypedIndex with bytes of 2 bits and strings read up to    *)
(* their second byte; the prefix tree covers 0..15, and so neither the key  *)
(* 18 nor 20.                                                               *)
EXTENDS TypedIndex

MCUint64Keys == <<0, 8, 15, 18, 20>>

MCDoubleKeys == <<16, 17, 22, 25, 31>>

MCStringKeys == << <<2>>, <<2, 0>>, <<2, 3>>, <<2, 3, 1>>, <<3>>, <<3, 3>>, <<>> >>

\* Prefixes <<2>>, <<2, 3>>, <<3>>, <<3, 3>>, <<0>> and <<>>, and no patterns
MCPatterns ==
  { <<2, 1>>, <<2, 3, 1>>, <<3, 1>>, <<3, 3, 1>>, <<0, 1>>, <<1>>, <<>>, <<2>>, <<2, 1, 1>> }

\* The keys of the index these keys are converted to
MCKeys ==
  LET elements(s) == {s[n] : n \in DOMAIN s}
  IN  elements(MCUint64Keys)
      \cup {FloatToScaledInt(x) : x \in elements(MCDoubleKeys)}
      \cup {StringToIntLex(s) : s \in elements(MCStringKeys)}

=============================================================================

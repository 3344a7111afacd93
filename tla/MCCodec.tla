------------------------------- MODULE MCCodec -------------------------------
(***************************************************************************)
(* The algorithms without shared state in one run: a behaviour is a life   *)
(* of one stored value, one listing being sorted, or a calendar.           *)
(***************************************************************************)
EXTENDS Codec, Coord, CivilDate

VARIABLE world

mc_vars == <<codec_vars, listed, date_vars, world>>

\* "x", "xy" as targets and locators; INT16 and CHAR elements are two bytes wide;
\* pointers to a value, to a pointer and to a pointer to a pointer.
MCBuilt ==
  { None,
    Arr(KIND_BOOL, <<>>, <<1>>), Arr(KIND_BOOL, <<2>>, <<1, 0>>),
    Arr(KIND_INT16, <<>>, <<300>>), Arr(KIND_INT16, <<2>>, <<300, 7>>),
    Arr(KIND_CHAR_UTF8, <<0>>, <<>>), Arr(KIND_CHAR_UTF8, <<1>>, <<120>>),
    Arr(KIND_CHAR, <<1>>, <<300>>),
    XValue("map", <<OTHER_KIND, DOT, KIND_BOOL>>, <<>>, <<>>, 0),
    XValue("map", <<OPEN, KIND_INT16, CLOSE, DOT, KIND_BOOL>>, <<>>, <<>>, 0),
    XValue("ptr", <<KIND_INT16>>, <<>>, <<120>>, 0),
    XValue("ptr", <<OPEN, ZERO + 2, CLOSE, KIND_BOOL>>, <<>>, <<120, 121>>, 0),
    XValue("ptr", <<STAR, KIND_INT16>>, <<>>, <<120>>, 0),
    XValue("ptr", <<STAR, STAR, KIND_INT16>>, <<>>, <<120, NOT_TEXT>>, 0),
    XValue("ext", <<>>, <<>>, <<120>>, 0),
    XValue("opaque", <<OTHER_KIND>>, <<>>, <<9>>, 1),
    XValue("opaque", <<OTHER_KIND>>, <<>>, <<9, 8>>, 12) }

MCLangtypes ==
  { <<>>, <<KIND_INT16>>, <<OPEN, CLOSE, KIND_CHAR_UTF8>>, <<OPEN, ANY, COMMA, ZERO + 2, CLOSE, KIND_BOOL>>,
    <<OPEN, ANY, CLOSE, OTHER_KIND>>, <<STAR, KIND_INT16>> }

\* A part may turn a length into a capacity, a body into attributes, or make the
\* lengths overflow.
MCPartBytes == { <<0>>, <<2>>, <<255, 255>>, <<2, 3, 1>> }

\* "[1]", "[01]", "[2]", "[10]", "[1a]", "[1,0]", "[[]", "b"
MCNames ==
  { <<91, 49, 93>>, <<91, 48, 49, 93>>, <<91, 50, 93>>, <<91, 49, 48, 93>>, <<91, 49, 97, 93>>,
    <<91, 49, 44, 48, 93>>, <<91, 91, 93>>, <<98>> }

Init == CodecInit /\ CoordInit /\ DateInit /\ world \in {"value", "listing", "calendar"}

Next ==
  /\ UNCHANGED world
  /\ \/ world = "value" /\ CodecNext /\ UNCHANGED <<listed, date_vars>>
     \/ world = "listing" /\ CoordNext /\ UNCHANGED <<codec_vars, date_vars>>
     \/ world = "calendar" /\ NextDay /\ UNCHANGED <<codec_vars, listed>>

Spec == Init /\ [][Next]_mc_vars

\* Type: every byte of a stored value fits a byte (raw_bytes splits the wider
\* elements), every date has a month and a day.
TypeOK == /\ CodecTypeOK
          /\ listed \in Seq(Names)
          /\ date \in Nat \X (1 .. 12) \X (1 .. 31)
=============================================================================

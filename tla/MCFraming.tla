------------------------------ MODULE MCFraming ------------------------------
(***************************************************************************)
(* Two threads that send short messages, or one that sends what a client   *)
(* may: a message of the greatest length, one that is too long by one and  *)
(* cut before its LF, and one with a stray CR and LF.                      *)
(***************************************************************************)
EXTENDS FramingProperties

MCByte == {"a", "b", "c", "d", CR, LF}

Script(a, b) == "deal" :> a @@ "player" :> b

MCScripts ==
  {Script(<<<<"a", CR, LF>>, <<"b", CR, LF>>>>, <<<<"c", CR, LF>>>>),
   Script(<<>>, <<<<"a", "b", CR, LF>>, <<"c", CR, LF>>>>),
   Script(<<>>, <<<<"a", "b", "c", CR, LF>>, <<"d">>>>),
   Script(<<>>, <<<<CR, "a", LF, CR, LF>>>>)}
=============================================================================

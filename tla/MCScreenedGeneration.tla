------------------------ MODULE MCScreenedGeneration ------------------------
(* Three generation calls: a whole item (narrate, normalise) and one more.  *)
EXTENDS ScreenedGeneration

CONSTANTS empty,       \* a screen may redact everything
          masked,      \* harmless text
          hostile      \* text no screen hands back

MCText == {empty, masked, hostile}
MCClean == {empty, masked}
=============================================================================

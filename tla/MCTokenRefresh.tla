--------------------------- MODULE MCTokenRefresh ---------------------------
(* The refresh loop with ticks of 10 s: a margin of 30 s, oauth2's delta and *)
(* the discovery deadline of 10 s, tokens that live less or longer than the  *)
(* margin, and a probe that may outlast the rest of a token's life.          *)
EXTENDS TokenRefresh

MCLifetimes == {2, 4, 9}
=============================================================================

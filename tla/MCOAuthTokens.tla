--------------------------- MODULE MCOAuthTokens ---------------------------
(***************************************************************************)
(* Values for model-checking OAuthTokens.                                  *)
(***************************************************************************)
EXTENDS OAuthTokens, TLC

CONSTANTS u1, u2, c1, c2

BearerOnly == [c \in Clients |-> {}]
PermanentToo == [c \in Clients |-> {"permanent"}]
JwtToo == [c \in Clients |-> {"jwt"}]
AllForms == [c \in Clients |-> Forms]

\* Values drawn at random and request slots are interchangeable.
Symmetry == Permutations(Codes) \union Permutations(Refreshes)
            \union Permutations(Accesses) \union Permutations(Requests)
=============================================================================

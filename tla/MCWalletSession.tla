--------------------------- MODULE MCWalletSession ---------------------------
(* Small instances of the wallet page for TLC. *)
EXTENDS WalletSession

CONSTANTS k1, k2, albedo

Surroundings(mobile, storage, detected, markup, provider) ==
    [mobile |-> mobile, storage |-> storage, detected |-> detected, markup |-> markup, provider |-> provider]

\* Phone; desktop with two, one and no extension; storage that refuses; pages
\* without the optional markup.
SomePages ==
    { Surroundings(TRUE,  "ok",   {},                  TRUE,  FALSE),
      Surroundings(FALSE, "ok",   {Freighter, albedo}, TRUE,  TRUE),
      Surroundings(FALSE, "full", {Freighter},         TRUE,  TRUE),
      Surroundings(FALSE, "ok",   {},                  TRUE,  FALSE),
      Surroundings(FALSE, "none", {},                  FALSE, FALSE),
      Surroundings(FALSE, "ok",   {},                  FALSE, TRUE),
      Surroundings(FALSE, "ok",   {Freighter, albedo}, FALSE, TRUE) }
=============================================================================

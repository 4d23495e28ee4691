--------------------------- MODULE MCOidcAdapter ---------------------------
(* Instances of OidcAdapter for TLC. *)
EXTENDS OidcAdapterProperties
=============================================================================

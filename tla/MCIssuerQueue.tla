--------------------------- MODULE MCIssuerQueue ---------------------------
(* The instance of IssuerQueue for TLC; Issuer.cfg gives its constants.     *)
EXTENDS IssuerQueue
=============================================================================

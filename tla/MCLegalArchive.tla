---------------------------- MODULE MCLegalArchive ----------------------------
(* Two stores over the first four years, so that a source can expire, be held *)
(* and be extended, with an interrupted operation and a restored store.       *)
EXTENDS LegalArchive
===============================================================================

------------------------------ MODULE MCFirehose ------------------------------
(* Firehose with a unit of five seconds or more: rewind 1, cap and receive  *)
(* timeout 3, stable after 4, delays from 1 to 2.                           *)
EXTENDS Firehose
=============================================================================

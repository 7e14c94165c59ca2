------------------------------- MODULE MCRest -------------------------------
(* Instances of RestClient for TLC.                                        *)
EXTENDS RestClient

CONSTANTS c1, c2, c3

TwoCallers == {c1, c2}
=============================================================================

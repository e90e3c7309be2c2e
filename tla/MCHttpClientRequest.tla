------------------------ MODULE MCHttpClientRequest ------------------------
(* The bounds are in the configurations.                                   *)
EXTENDS HttpClientRequest
=============================================================================

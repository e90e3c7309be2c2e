----------------------- MODULE MCHttpClientWebSocket -----------------------
(* Instances of HttpClientWebSocket for TLC.                               *)
EXTENDS HttpClientWebSocket
=============================================================================

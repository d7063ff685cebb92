------------------------------- MODULE MCClient -------------------------------
(***************************************************************************)
(* Constants for Client: the requests of MCPreflight, and one response of  *)
(* each kind.                                                              *)
(***************************************************************************)
EXTENDS Client, MCPreflight

Http(status, size, body, error) ==
  [status |-> status, size |-> size, body |-> body, error |-> error,
   retry_after_ms |-> 0, retry_after |-> 0]

Answers ==
  {Http(200, "fits", "json", ""), Http(200, "fits", "garbled", ""),
   Http(400, "fits", "json", "invalid_request"), Http(503, "fits", "empty", ""),
   Http(503, "overResponseCap", "json", "unavailable")}
=============================================================================

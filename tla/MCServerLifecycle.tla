------------------------- MODULE MCServerLifecycle -------------------------
(***************************************************************************)
(* Instances of ServerLifecycle for TLC.                                   *)
(***************************************************************************)
EXTENDS ServerLifecycle

\* All that is required, and nothing else.
Plain ==
  [n \in Names |->
     IF n \in RequiredStrings \cup RequiredNumbers THEN "good" ELSE "unset"]

WithClientCert ==
  [Plain EXCEPT !["REDIS_TLS_CERT_FILE"] = "good", !["REDIS_TLS_KEY_FILE"] = "good"]

\* One variable set in any way, beside a plain environment or one with TLS.
OneOff ==
  UNION {{[e EXCEPT ![n] = v] : n \in Names, v \in Raw} : e \in {Plain, WithClientCert}}
=============================================================================

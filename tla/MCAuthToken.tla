----------------------------- MODULE MCAuthToken -----------------------------
(***************************************************************************)
(* AuthToken on requests that give everything, all that a device without   *)
(* certificates gives, the address only, and nothing.                      *)
(***************************************************************************)
EXTENDS AuthToken

MCInputs == {Fields,
             Fields \ {"client_cert_path", "private_key_path", "verbose_stream"},
             {"url"}, {}}
=============================================================================

---------------------------- MODULE MCConfigRead ----------------------------
(***************************************************************************)
(* ConfigRead on three names and the contents below.  Among them are two   *)
(* values for a setting, repeated interfaces and algorithms, an interface  *)
(* without a name, a wrong type, and more algorithm names than fit.        *)
(***************************************************************************)
EXTENDS ConfigRead

Mentions(given) == [s \in Settings |-> IF s \in DOMAIN given THEN given[s] ELSE Absent]
Item(n, c) == [name |-> n, cost |-> c]

Blank == NoFile

Lower == [settings   |-> Mentions([s \in {"identity.device_id", "behavior.ping_timeout"} |-> "a"]),
          interfaces |-> <<Item("wan0", 199)>>,
          algs       |-> <<"HS256">>,
          wrong      |-> FALSE]

Higher == [settings   |-> Mentions([s \in {"identity.device_id", "mtls.cert_path"} |-> "b"]),
           interfaces |-> <<Item("wan0", 99), Item("eth0", 0)>>,
           algs       |-> <<"RS256", "HS256">>,
           wrong      |-> FALSE]

Repeats == [Blank EXCEPT !.interfaces = <<Item("eth0", 10), Item(NoName, 1), Item("eth0", 20)>>]

Mistyped == [Blank EXCEPT !.settings = Mentions([s \in {"jwt.keys_dir"} |-> "a"]),
                          !.wrong = TRUE]

Unknown == [Blank EXCEPT !.algs = <<"XX1", "HS256">>]

MCContents == {Lower, Higher, Repeats, Mistyped, Unknown}
=============================================================================

---------------------------- MODULE ConfigFiles ----------------------------
(***************************************************************************)
(* What config.c takes from its files, and what a set of files amounts to: *)
(* the settings of config.h, the content of a parsed file, and the merge   *)
(* of several files in the order of their names.                           *)
(***************************************************************************)
EXTENDS Integers, Sequences

CONSTANTS
  Names,        \* the file names that may appear, in the order of strcmp
  Values,       \* the values a file may give a setting
  Unset,        \* a setting's value in the zeroed config_t
  Absent,       \* a setting that a file does not mention
  Interfaces,   \* names of network interfaces
  NoName,       \* the name of an interface whose item has none: NULL
  Algorithms,   \* the algorithm names cjwt knows
  BadNames,     \* names of algorithms it does not know
  num_algorithms,
  Contents      \* the contents of files to consider


(* The settings that own a string, in the order json_to_config fills them. *)
Strings == {"identity.device_id", "identity.partner_id",
            "hardware.model", "hardware.serial_number", "hardware.manufacturer",
            "hardware.last_reboot_reason", "firmware.name", "behavior.url",
            "dns_txt.base_fqdn", "jwt.keys_dir", "issuer.url",
            "issuer.ca_bundle_path", "mtls.cert_path", "mtls.private_key_path"}

Numbers == {"behavior.ping_timeout", "behavior.backoff_max", "behavior.force_ip",
            "issuer.request_timeout", "issuer.max_redirects", "issuer.tls_version"}

Settings == Strings \union Numbers

(***************************************************************************)
(* A parsed file: the settings it gives a well-typed value, its interfaces *)
(* and algorithms in order, and whether anything in it has a wrong type.   *)
(* A cost that is missing or of a wrong type is 0, a name NoName.          *)
(***************************************************************************)
Items == [name : Interfaces \union {NoName}, cost : Int]
Algs  == Algorithms \union BadNames
Files == [settings   : [Settings -> Values \union {Absent}],
          interfaces : Seq(Items),
          algs       : Seq(Algs),
          wrong      : BOOLEAN]

ASSUME FilesAssumption == /\ Names \subseteq Nat
                          /\ Unset \notin Values /\ Absent \notin Values
                          /\ NoName \notin Interfaces
                          /\ Algorithms \cap BadNames = {}
                          /\ num_algorithms \in Nat
                          /\ Contents \subseteq Files

-----------------------------------------------------------------------------
(* Storing under a key, as a hashmap does. *)
Put(f, k, v) == [x \in DOMAIN f \union {k} |-> IF x = k THEN v ELSE f[x]]

Empty == [x \in {} |-> Unset]

Greatest(S) == CHOOSE n \in S : \A m \in S : m <= n

Mentioned(f, n) == {k \in DOMAIN f.interfaces : f.interfaces[k].name = n}

(***************************************************************************)
(* The merge of the files in got, a function from their names.  The file   *)
(* with the greatest name that mentions something decides on it.           *)
(***************************************************************************)
Setters(got, s) == {n \in DOMAIN got : got[n].settings[s] # Absent}

MergedSettings(got) ==
  [s \in Settings |-> IF Setters(got, s) = {} THEN Unset
                      ELSE got[Greatest(Setters(got, s))].settings[s]]

Holders(got, i) == {n \in DOMAIN got : Mentioned(got[n], i) # {}}

MergedInterfaces(got) ==
  [i \in {j \in Interfaces \union {NoName} : Holders(got, j) # {}} |->
     LET f == got[Greatest(Holders(got, i))]
     IN  f.interfaces[Greatest(Mentioned(f, i))].cost]

MergedAlgs(got) == {a \in Algs : \E n \in DOMAIN got :
                                   \E k \in DOMAIN got[n].algs : got[n].algs[k] = a}
=============================================================================

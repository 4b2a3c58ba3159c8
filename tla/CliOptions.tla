----------------------------- MODULE CliOptions -----------------------------
(***************************************************************************)
(* The option loops of the two examples, auth-fetch-cli and dns-token-cli, *)
(* and the rest of auth-fetch-cli (that of the other is DnsTokenCli).  The *)
(* chains of is_opt are tables; one step is one round of the loop.         *)
(***************************************************************************)
EXTENDS Integers, Sequences

CONSTANTS
  Clients,   \* the programs to consider
  Words,     \* the arguments a command line may hold
  MaxArgs,   \* bound: how many of them
  Number     \* atol of each word

(***************************************************************************)
(* What an option does: "flag" sets its field; "text" and "number" take    *)
(* the next argument for it, "own" takes itself, and "skip" passes over    *)
(* the next one; "help" ends the program.                                  *)
(***************************************************************************)
Row(names, kind, field) == [names |-> names, kind |-> kind, field |-> field]

AuthFetchRows ==
  { Row({"-4"}, "flag", "ip_resolve"), Row({"-6"}, "flag", "ip_resolve"),
    Row({"-h", "--help"}, "help", "none"),
    Row({"--interface"}, "text", "interface"),
    Row({"-L", "--location"}, "flag", "location"),
    Row({"--max-redirs"}, "number", "max_redirs"),
    Row({"--tlsv1.2"}, "flag", "tls_version"),
    Row({"-v", "--verbose"}, "flag", "verbose_stream"),
    Row({"-m", "--max-time"}, "own", "timeout"),
    Row({"--capath"}, "text", "private_key_path"),
    Row({"-E", "--cert"}, "text", "client_cert_path"),
    Row({"--key"}, "text", "private_key_path"),
    Row({"--mac"}, "text", "mac_address"), Row({"--sn"}, "text", "serial_number"),
    Row({"--uuid"}, "text", "uuid"), Row({"--partner-id"}, "text", "partner_id"),
    Row({"--hw-model"}, "text", "hardware_model"),
    Row({"--hw-manuf"}, "text", "hardware_manufacturer"),
    Row({"--fw-name"}, "text", "firmware_name"),
    Row({"--xmidt-proto"}, "text", "protocol"),
    Row({"--last-reboot"}, "text", "last_reboot_reason"),
    Row({"--last-reconn"}, "text", "last_reconnect_reason"),
    Row({"--boot-retry-wait"}, "number", "boot_retry_wait") }

DnsTokenRows ==
  { Row({"-h", "--help"}, "help", "none"), Row({"--interface"}, "skip", "none"),
    Row({"-v", "--verbose"}, "flag", "verbose"), Row({"-k", "--key"}, "text", "key_file"),
    Row({"-n", "--now"}, "number", "now"), Row({"--skew"}, "number", "skew") }

RowsOf(c)    == IF c = "auth-fetch-cli" THEN AuthFetchRows ELSE DnsTokenRows
OperandOf(c) == IF c = "auth-fetch-cli" THEN "url" ELSE "fqdn"

ASSUME OptionsAssumption == /\ Clients \subseteq {"auth-fetch-cli", "dns-token-cli"}
                            /\ MaxArgs \in Nat
                            /\ Number \in [Words -> Int]

VARIABLES
  client,    \* the program
  argv,      \* its arguments, argv[0] and the final NULL left out
  i,         \* the loop's index
  given,     \* the fields that were set, with their values
  payload,   \* the response's payload: none | held | freed
  outcome    \* parsing | parsed | answered | exit | usage | crash

vars == <<client, argv, i, given, payload, outcome>>

CommandLines == UNION {[1 .. n -> Words] : n \in 0 .. MaxArgs}

Init == /\ client \in Clients
        /\ argv \in CommandLines
        /\ i = 1
        /\ given = [f \in {} |-> "NULL"]
        /\ payload = "none"
        /\ outcome = "parsing"

-----------------------------------------------------------------------------
(* A word is an option of a table, or an operand.                             *)
IsOption(rows, w) == \E r \in rows : w \in r.names
RowFor(rows, w)   == CHOOSE r \in rows : w \in r.names

KindFor(rows, w) == IF IsOption(rows, w) THEN RowFor(rows, w).kind ELSE "operand"

Here(kinds) == /\ outcome = "parsing"
               /\ i <= Len(argv)
               /\ KindFor(RowsOf(client), argv[i]) \in kinds

Field == RowFor(RowsOf(client), argv[i]).field

(* The argument after the last one is NULL.                                   *)
Argument(k) == IF k <= Len(argv) THEN argv[k] ELSE "NULL"

Set(f, v) == given' = [x \in DOMAIN given \union {f} |-> IF x = f THEN v ELSE given[x]]

AfterValue_forgotten == i + 1
AfterValue == i + 2

SetFlag_withValue == /\ Here({"flag"})
                     /\ Set(Field, Argument(i + 1))
                     /\ i' = AfterValue
                     /\ UNCHANGED <<client, argv, payload, outcome>>
SetFlag == /\ Here({"flag"})
           /\ Set(Field, argv[i])
           /\ i' = i + 1
           /\ UNCHANGED <<client, argv, payload, outcome>>

TakeText == /\ Here({"text"})
            /\ Set(Field, Argument(i + 1))
            /\ i' = AfterValue
            /\ UNCHANGED <<client, argv, payload, outcome>>

(* atol reads its argument, also when that is NULL.                           *)
TakeNumber == /\ Here({"number"})
              /\ i < Len(argv)
              /\ Set(Field, Number[argv[i + 1]])
              /\ i' = AfterValue
              /\ UNCHANGED <<client, argv, payload, outcome>>

NoNumber == /\ Here({"number"})
            /\ i = Len(argv)
            /\ outcome' = "crash"
            /\ UNCHANGED <<client, argv, i, given, payload>>

TakeOwn == /\ Here({"own"})
           /\ Set(Field, Number[argv[i]])
           /\ i' = i + 1
           /\ UNCHANGED <<client, argv, payload, outcome>>

SkipValue == /\ Here({"skip"})
             /\ i' = AfterValue
             /\ UNCHANGED <<client, argv, given, payload, outcome>>

PrintUsage == /\ Here({"help"})
              /\ outcome' = "usage"
              /\ UNCHANGED <<client, argv, i, given, payload>>

TakeOperand == /\ Here({"operand"})
               /\ Set(OperandOf(client), argv[i])
               /\ outcome' = "parsed"
               /\ UNCHANGED <<client, argv, i, payload>>

EndOfArguments == /\ outcome = "parsing"
                  /\ i > Len(argv)
                  /\ outcome' = "parsed"
                  /\ UNCHANGED <<client, argv, i, given, payload>>

-----------------------------------------------------------------------------
(* auth-fetch-cli: -1 follows any number of redirects, 0 none.                *)
Valued(f) == IF f \in DOMAIN given THEN given[f] ELSE 0

MaxRedirects == IF "location" \notin DOMAIN given THEN 0
                ELSE IF Valued("max_redirs") = 0 THEN -1 ELSE given["max_redirs"]

RequestToken == /\ outcome = "parsed" /\ client = "auth-fetch-cli"
                /\ payload' \in {"none", "held"}
                /\ outcome' = "answered"
                /\ UNCHANGED <<client, argv, i, given>>

FreePayload == /\ outcome = "answered"
               /\ payload' = IF payload = "held" THEN "freed" ELSE payload
               /\ outcome' = "exit"
               /\ UNCHANGED <<client, argv, i, given>>

Next == \/ SetFlag \/ TakeText \/ TakeNumber \/ NoNumber \/ TakeOwn \/ SkipValue
        \/ PrintUsage \/ TakeOperand \/ EndOfArguments
        \/ RequestToken \/ FreePayload

Spec == Init /\ [][Next]_vars

-----------------------------------------------------------------------------
(***************************************************************************)
(* What a table says of a command line, without a loop: which arguments    *)
(* are looked at as options, and which of them decides on a field.         *)
(***************************************************************************)
Width(rows, w) == CASE KindFor(rows, w) \in {"flag", "own"}            -> 1
                    [] KindFor(rows, w) \in {"text", "number", "skip"} -> 2
                    [] OTHER                                           -> 0

(* The first argument is looked at, and with an option what is behind it and  *)
(* its value; nothing else.                                                   *)
Behind(rows, k) == k + Width(rows, argv[k])

Closed(rows, K) ==
  /\ argv # <<>> => 1 \in K
  /\ \A k \in K : Width(rows, argv[k]) > 0 /\ Behind(rows, k) <= Len(argv)
                  => Behind(rows, k) \in K

LookedAt(rows) ==
  {k \in DOMAIN argv : \A K \in SUBSET DOMAIN argv : Closed(rows, K) => k \in K}

FieldOf(rows, k) == IF IsOption(rows, argv[k]) THEN RowFor(rows, argv[k]).field
                                               ELSE OperandOf(client)

ValueOf(rows, k) == CASE KindFor(rows, argv[k]) = "text"   -> Argument(k + 1)
                      [] KindFor(rows, argv[k]) = "number" -> Number[argv[k + 1]]
                      [] KindFor(rows, argv[k]) = "own"    -> Number[argv[k]]
                      [] OTHER                             -> argv[k]

(* What the arguments at the positions in K give the fields.                  *)
Setting(rows, K, f) == {k \in K : FieldOf(rows, k) = f}
LastSetting(rows, K, f) ==
  CHOOSE k \in Setting(rows, K, f) : \A j \in Setting(rows, K, f) : j <= k

GivenBy(rows, K) == [f \in {FieldOf(rows, k) : k \in K} \ {"none"} |->
                       ValueOf(rows, LastSetting(rows, K, f))]

Meant(rows) == GivenBy(rows, LookedAt(rows))

AsksForHelp(rows) == \E k \in LookedAt(rows) : KindFor(rows, argv[k]) = "help"
LacksNumber(rows) == /\ Len(argv) \in LookedAt(rows)
                     /\ KindFor(rows, argv[Len(argv)]) = "number"

(* The fields by the kind of their values: the C type of each, whatever the   *)
(* tables say of the options.  Those that are in neither set are strings.     *)
NumberFields == {"max_redirs", "timeout", "boot_retry_wait", "now", "skew"}
FlagFields   == {"ip_resolve", "location", "tls_version", "verbose_stream", "verbose"}

Fields == ({r.field : r \in RowsOf(client)} \ {"none"}) \union {OperandOf(client)}

(* A flag remembers which option set it; a string may be the NULL at the end. *)
ValuesOf(f) ==
  CASE f \in NumberFields      -> Int
    [] f \in FlagFields        -> {w \in Words : \E r \in RowsOf(client) :
                                                  r.field = f /\ w \in r.names}
    [] f = OperandOf(client)   -> {w \in Words : ~IsOption(RowsOf(client), w)}
    [] OTHER                   -> Words \union {"NULL"}

(* Every variable stays in its type, and so does the value of every field: a  *)
(* number where the program has one, an option of its own for a flag, a word  *)
(* that is no option for the operand, and a string elsewhere.                 *)
TypeOK == /\ client \in Clients
          /\ argv \in Seq(Words) /\ Len(argv) <= MaxArgs
          /\ i \in 1 .. MaxArgs + 2
          /\ DOMAIN given \subseteq Fields
          /\ \A f \in DOMAIN given : given[f] \in ValuesOf(f)
          /\ payload \in {"none", "held", "freed"}
          /\ outcome \in {"parsing", "parsed", "answered", "exit", "usage", "crash"}
          /\ MaxRedirects \in Int

(* The loop takes a command line as its table says: a value is never taken for*)
(* an option, nor an option's value for the operand; the last setting of a    *)
(* field holds and what follows the operand has no effect; the help comes only*)
(* when asked for, and only a number that is missing at the end is fatal.     *)
ParsedAsTabled ==
  /\ outcome \in {"parsed", "answered", "exit"} => given = Meant(RowsOf(client))
  /\ outcome = "usage" => AsksForHelp(RowsOf(client))
  /\ outcome = "crash" => LacksNumber(RowsOf(client))

(* The usage text of auth-fetch-cli gives --max-time a value in seconds and   *)
(* --capath the path of the CA bundle: a line with a value behind every option*)
(* that has one is taken in this sense.                                       *)
Documented ==
  {r \in AuthFetchRows : r.names \cap {"--max-time", "--capath"} = {}}
    \union {Row({"-m", "--max-time"}, "number", "timeout"),
            Row({"--capath"}, "text", "ca_bundle_path")}

LacksValue(rows) == /\ Len(argv) \in LookedAt(rows)
                    /\ KindFor(rows, argv[Len(argv)]) \in {"text", "number"}

ParsedAsDocumented ==
  client = "auth-fetch-cli" /\ outcome = "parsed" /\ ~LacksValue(Documented)
    => given = Meant(Documented)
=============================================================================

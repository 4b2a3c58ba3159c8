---------------------------- MODULE DnsTokenCli ----------------------------
(***************************************************************************)
(* The dns-token-cli example: dns_txt_fetch, dns_token_assemble and        *)
(* cjwt_decode one after the other, and what is released on each way out.  *)
(* It composes DnsResponse and TokenAssemble over one message: the records *)
(* the parser lists are those the assembler scans, and both point into the *)
(* copy of the message that this program has to release.                   *)
(*                                                                         *)
(* The parser takes type, class, ttl and rdlength of a record; the         *)
(* assembler reads the first octets of its data.  They are chosen when the *)
(* record is listed and kept in content.  Octets of the ttl are smaller    *)
(* than OCTET, so that an int, four of them wide, stays small.             *)
(***************************************************************************)
EXTENDS Integers, Sequences

CONSTANTS
  Lengths, Flags, Rcodes, Counts, Octets, RdLengths,   \* as in DnsResponse
  OCTET,      \* how many values an octet of a ttl has; 256 in the code
  Contents    \* what a record may hold: type, ttl (its octets), tag, sep

INT_RANGE == OCTET * OCTET * OCTET * OCTET

ASSUME OctetAssumption == OCTET \in Nat /\ OCTET > 0 /\ OCTET % 2 = 0
ASSUME ContentsAssumption ==
  \A c \in Contents : c.ttl \in [1 .. 4 -> 0 .. OCTET - 1]
ASSUME ParserAssumption ==
  Lengths \subseteq Int /\ Octets \subseteq Nat /\ RdLengths \subseteq Nat

VARIABLES
  at,        \* where main is
  fqdn,      \* main's fqdn: NULL or given
  pub_key,   \* the key file's content: none | held
  jwt,       \* none | held | freed
  code,      \* the exit code, "none" before the end, "crash" for a fault
  content,   \* history: what the records hold, in the order of the list
  fetch_pc, len, i, hi, header, section, rdlength, rrs, p, full, e, fetch_ret,
  asm_pc, rr, fragment, last_frag, t, buf, token, asm_ret

client    == <<at, fqdn, pub_key, jwt, code>>
fetching  == <<fetch_pc, len, i, hi, header, section, rdlength, e, fetch_ret>>
response  == <<p, full, rrs>>
scanning  == <<asm_pc, rr, fragment, last_frag, t, asm_ret>>
assembled == <<buf, token>>

vars == <<client, content, fetching, response, scanning, assembled>>

-----------------------------------------------------------------------------
(* get_u32: the first octet is shifted into the sign bit of an int, and the   *)
(* sum of the four is converted to unsigned.                                  *)
Signed(n) == IF n >= INT_RANGE \div 2 THEN n - INT_RANGE ELSE n

GetU32_unconverted(o) ==
  Signed(o[1] * OCTET * OCTET * OCTET) + o[2] * OCTET * OCTET + o[3] * OCTET + o[4]
GetU32_hostOrder(o) ==
  (Signed(o[4] * OCTET * OCTET * OCTET) + o[3] * OCTET * OCTET + o[2] * OCTET + o[1])
    % INT_RANGE
GetU32(o) ==
  (Signed(o[1] * OCTET * OCTET * OCTET) + o[2] * OCTET * OCTET + o[3] * OCTET + o[4])
    % INT_RANGE

(* A struct dns_rr of the list, with the octets its rdata points at.          *)
Record(k) == [type |-> content[k].type, ttl |-> GetU32(content[k].ttl),
              rdlength |-> rrs[k].rdlength,
              tag |-> content[k].tag, sep |-> content[k].sep]

Records == [k \in DOMAIN rrs |-> Record(k)]

F == INSTANCE DnsResponse WITH pc <- fetch_pc, answers <- rrs, ret <- fetch_ret

A == INSTANCE TokenAssemble WITH pc <- asm_pc, ret <- asm_ret, answers <- Records,
                                 Answers <- {<<>>}, UINT32_MAX <- INT_RANGE - 1

Init == /\ at = "args" /\ fqdn = "NULL" /\ pub_key = "none"
        /\ jwt = "none" /\ code = "none"
        /\ content = <<>>
        /\ F!Init
        /\ A!Init

-----------------------------------------------------------------------------
Exit(c) == at' = "exit" /\ code' = c

(* -h; then a --now or a --skew at the end of the line, whose value is NULL.  *)
PrintUsage == /\ at = "args"
              /\ Exit("0")
              /\ UNCHANGED <<fqdn, pub_key, jwt, content, fetching, response, scanning, assembled>>

NoNumber == /\ at = "args"
            /\ Exit("crash")
            /\ UNCHANGED <<fqdn, pub_key, jwt, content, fetching, response, scanning, assembled>>

(* Without an operand the usage is printed, and the program goes on.          *)
ParseOptions == /\ at = "args"
                /\ fqdn' \in {"NULL", "given"}
                /\ at' \in {"key", "fetch"}
                /\ UNCHANGED <<pub_key, jwt, code, content, fetching, response, scanning, assembled>>

ReadKey == /\ at = "key"
           /\ \/ pub_key' = "held" /\ at' = "fetch" /\ UNCHANGED code
              \/ Exit("-1") /\ UNCHANGED pub_key
           /\ UNCHANGED <<fqdn, jwt, content, fetching, response, scanning, assembled>>

(* dns_txt_fetch; NULL is the one argument it refuses.                        *)
Fetch == /\ at = "fetch"
         /\ F!Next
         /\ fetch_pc = "enter" => (fqdn = "NULL" <=> fetch_ret' = "XA_INVALID_INPUT")
         /\ IF Len(rrs') > Len(rrs) THEN \E c \in Contents : content' = Append(content, c)
                                    ELSE UNCHANGED content
         /\ UNCHANGED <<client, scanning, assembled>>

Fetched_unchecked == TRUE
Fetched == fetch_ret = "XA_OK"

AfterFetch == /\ at = "fetch"
              /\ fetch_pc = "done"
              /\ IF Fetched THEN at' = "assemble" /\ UNCHANGED code
                            ELSE Exit("-1")
              /\ UNCHANGED <<fqdn, pub_key, jwt, content, fetching, response, scanning, assembled>>

(* dns_token_assemble; neither of its arguments is NULL.                      *)
Assemble == /\ at = "assemble"
            /\ UNCHANGED <<client, content, fetching, response>>
            /\ A!Next
            /\ asm_ret' # "XA_INVALID_INPUT"

(* dns_destroy_response                                                       *)
DestroyResponse_listOnly == rrs' = <<>> /\ p' = "freed" /\ UNCHANGED full
DestroyResponse == rrs' = <<>> /\ full' = "freed" /\ p' = "freed"

AfterAssemble == /\ at = "assemble"
                 /\ asm_pc = "done"
                 /\ IF asm_ret = "XA_OK" THEN at' = "decode" /\ UNCHANGED <<code, response>>
                                         ELSE Exit("-1") /\ DestroyResponse
                 /\ UNCHANGED <<fqdn, pub_key, jwt, content, fetching, scanning, assembled>>

(* cjwt_decode.  Its failure leaves the token behind.                         *)
Decode == /\ at = "decode"
          /\ jwt' = "held"
          /\ at' = "print"
          /\ UNCHANGED <<fqdn, pub_key, code, content, fetching, response, scanning, assembled>>

DecodeFails == /\ at = "decode"
               /\ DestroyResponse
               /\ Exit("-1")
               /\ UNCHANGED <<fqdn, pub_key, jwt, content, fetching, scanning, assembled>>

(* The message, the token and the jwt are printed, then released.             *)
Finish == /\ at = "print"
          /\ DestroyResponse
          /\ buf' = "freed" /\ token' = "freed"
          /\ jwt' = "freed"
          /\ Exit("0")
          /\ UNCHANGED <<fqdn, pub_key, content, fetching, scanning>>

Next == \/ PrintUsage \/ NoNumber \/ ParseOptions \/ ReadKey
        \/ Fetch \/ AfterFetch \/ Assemble \/ AfterAssemble
        \/ Decode \/ DecodeFails \/ Finish

Spec == Init /\ [][Next]_vars

(* The program runs to its end; the resolver answers or gives up.             *)
FairSpec == Spec /\ WF_vars(Next)

-----------------------------------------------------------------------------
(* main's variables and those it takes over from the two functions stay in    *)
(* their types; the records and what they hold belong together.               *)
TypeOK == /\ at \in {"args", "key", "fetch", "assemble", "decode", "print", "exit"}
          /\ fqdn \in {"NULL", "given"}
          /\ pub_key \in {"none", "held"}
          /\ jwt \in {"none", "held", "freed"}
          /\ code \in {"none", "0", "-1", "crash"}
          /\ content \in Seq(Contents)
          /\ p \in {"none", "local", "caller", "freed"}
          /\ full \in {"none", "live", "freed"}
          /\ buf \in {"none", "local", "freed", "caller"}
          /\ token \in {"untouched", "null", "set", "freed"}
          /\ Len(rrs) <= Len(content)
          /\ t.ttl \in 0 .. INT_RANGE - 1
          /\ t.parts \in Seq(DOMAIN content)

(* From the fetch to the release every pointer that the assembler follows and *)
(* every octet that is printed lies in the message, and the message is there: *)
(* a failed fetch never leads to the scan of a list that was released.        *)
Reading == at \in {"assemble", "decode", "print"}
ReadsLiveMessage ==
  Reading => /\ p = "caller" /\ full = "live"
             /\ Len(rrs) = Len(content)
             /\ \A k \in DOMAIN rrs : rrs[k].rdata + rrs[k].rdlength <= len

(* Whatever numbers and lengths the records have, and in any order, the token is    *)
(* shorter than the message: each of its fragments stands there, once, behind *)
(* the fifteen octets of its record's name, header and tag.                   *)
TokenFitsMessage ==
  t.parts # <<>> => 17 + 15 * Len(t.parts) + t.len <= len

(* The token's ttl is the smallest of the ttls that its fragments carry in    *)
(* the message, as unsigned numbers in network order: a ttl with its highest  *)
(* bit set is neither negative nor sooner than a small one (get_u32).         *)
BigEndian(o) == ((o[1] * OCTET + o[2]) * OCTET + o[3]) * OCTET + o[4]
TtlIsTheSoonest ==
  asm_ret = "XA_OK" =>
    LET ttls == {BigEndian(content[t.parts[k]].ttl) : k \in DOMAIN t.parts}
    IN  t.ttl \in ttls /\ \A n \in ttls : t.ttl <= n

(* On every way out the response is released; so are the token and the jwt,   *)
(* but for a token that could not be decoded and the buffer of a token whose  *)
(* fragments were all empty.  Nothing is said of pub_key: the program releases*)
(* the key it has read on no way out.                                         *)
ReleasedAtExit ==
  at = "exit" =>
    /\ p \in {"none", "freed"} /\ full # "live" /\ rrs = <<>>
    /\ jwt # "held"
    /\ buf = "caller" => code = "-1" /\ asm_ret = "XA_OK"
    /\ buf = "local"  => code = "-1" /\ asm_ret = "XA_DNS_TOKEN_NOT_PRESENT"

(* The program ends for every command line and every message. *)
Terminates == <>(at = "exit")
=============================================================================

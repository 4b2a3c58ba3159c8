----------------------------- MODULE AuthToken -----------------------------
(***************************************************************************)
(* auth_token_req and response_cb (auth_token.c): the headers, the options *)
(* of the curl handle, the transfer with its chunks, and what is asked of  *)
(* the handle afterwards.  Every call to curl and to realloc may fail.     *)
(*                                                                         *)
(* An octet of the response's body is named by its place in the body.      *)
(* heap counts the blocks of this call that are allocated and not freed.   *)
(***************************************************************************)
EXTENDS Integers, Sequences

CONSTANTS
  Inputs,      \* the requests to consider, each the set of its fields that are not NULL
  ChunkSizes,  \* how many octets curl may hand over in one call
  MaxChunks    \* bound: how many calls

Fields == {"url", "interface", "verbose_stream", "client_cert_path", "private_key_path",
           "ca_bundle_path", "mac_address", "serial_number", "uuid", "partner_id",
           "hardware_model", "hardware_manufacturer", "firmware_name", "protocol",
           "last_reboot_reason", "last_reconnect_reason", "boot_retry_wait"}

ASSUME InputsAssumption == Inputs \subseteq SUBSET Fields
ASSUME ChunksAssumption == ChunkSizes \subseteq Nat /\ MaxChunks \in Nat

(* The headers in their order, by the fields that give them.                  *)
Headers == <<"boot_retry_wait", "mac_address", "serial_number", "uuid", "partner_id",
             "hardware_model", "hardware_manufacturer", "firmware_name", "protocol",
             "interface", "last_reboot_reason", "last_reconnect_reason">>

(* The options in their order, each with the field it depends on, if any.     *)
Always == "any input"
Option(name, field) == [name |-> name, field |-> field]
Options == <<Option("URL", "url"), Option("SSLVERSION", Always),
             Option("WRITEFUNCTION", Always), Option("WRITEDATA", Always),
             Option("FOLLOWLOCATION", Always), Option("MAXREDIRS", Always),
             Option("TIMEOUT", Always), Option("INTERFACE", "interface"),
             Option("IPRESOLVE", Always), Option("DNS_CACHE_TIMEOUT", Always),
             Option("FORBID_REUSE", Always), Option("FRESH_CONNECT", Always),
             Option("SSL_VERIFYHOST", Always), Option("SSL_VERIFYPEER", Always),
             Option("SSLCERT", "client_cert_path"), Option("SSLKEY", "private_key_path"),
             Option("CAINFO", "ca_bundle_path"), Option("VERBOSE", "verbose_stream"),
             Option("STDERR", "verbose_stream"), Option("HTTPHEADER", Always)>>

(* What is asked of the handle when the transfer went well.                   *)
Infos == <<"http_status", "namelookup", "connect", "appconnect", "pretransfer",
           "starttransfer", "total", "redirect", "retry_after">>

VARIABLES
  in,      \* the fields of the request that are given
  pc,      \* where auth_token_req is
  next,    \* a position in Headers, Options or Infos
  list,    \* the list of headers, as the fields they come from
  curl,    \* the handle: none | open | closed
  set,     \* the positions of the options that were set
  rv,      \* the local code
  r,       \* the caller's response; known: its fields that were obtained
  heap,
  chunks,  \* how often response_cb was called
  body,    \* history: how many octets curl handed over
  told,    \* history: what curl said of the transfer: nothing | success | failure
  lost     \* history: blocks of the payload nothing points to

Codes == {"CURLE_OK", "CURLE_OUT_OF_MEMORY", "CURLE_WRITE_ERROR", "other error"}

States == {"INIT", "PERFORMED", "COMPLETED"}

InfoNames == {Infos[k] : k \in DOMAIN Infos}

Responses == [state : States, payload : Seq(Nat), blocks : {0, 1}, len : Nat,
              known : SUBSET InfoNames, curl_rv : Codes]

vars == <<in, pc, next, list, curl, set, rv, r, heap, chunks, body, told, lost>>
transfer == <<chunks, body, told, lost>>

(* r.payload is blocks of memory, none when it is NULL, with these octets.    *)
Zeroed == [state |-> "INIT", payload |-> <<>>, blocks |-> 0, len |-> 0, known |-> {},
           curl_rv |-> "CURLE_OK"]

(* The response may hold an earlier answer, whose octets count as 0.          *)
Earlier == [state |-> "COMPLETED", payload |-> <<0>>, blocks |-> 1, len |-> 1,
            known |-> InfoNames, curl_rv |-> "CURLE_OK"]

Init == /\ in \in Inputs
        /\ pc = "enter" /\ next = 1
        /\ list = <<>> /\ curl = "none" /\ set = {}
        /\ rv = "CURLE_OK" /\ r \in {Zeroed, Earlier}
        /\ heap = 0 /\ chunks = 0 /\ body = 0 /\ told = "nothing" /\ lost = 0

-----------------------------------------------------------------------------
Enter == /\ pc = "enter"
         /\ r' = Zeroed
         /\ pc' = "headers"
         /\ UNCHANGED <<in, next, list, curl, set, rv, heap, transfer>>

(* build_header_list, one field after the other; a header is a node.          *)
HeadersLeft_butLast == next < Len(Headers)
HeadersLeft == next <= Len(Headers)

SkipHeader == /\ pc = "headers" /\ HeadersLeft
              /\ Headers[next] \notin in
              /\ next' = next + 1
              /\ UNCHANGED <<in, pc, list, curl, set, rv, r, heap, transfer>>

AppendHeader == /\ pc = "headers" /\ HeadersLeft
                /\ Headers[next] \in in
                /\ list' = Append(list, Headers[next])
                /\ heap' = heap + 1
                /\ next' = next + 1
                /\ UNCHANGED <<in, pc, curl, set, rv, r, transfer>>

AppendFails == /\ pc = "headers" /\ HeadersLeft
               /\ Headers[next] \in in
               /\ rv' = "CURLE_OUT_OF_MEMORY"
               /\ pc' = "cleanup"
               /\ UNCHANGED <<in, next, list, curl, set, r, heap, transfer>>

(* curl_easy_init.                                                            *)
OpenHandle == /\ pc = "headers" /\ ~HeadersLeft
              /\ curl' = "open"
              /\ heap' = heap + 1
              /\ pc' = "setopt" /\ next' = 1
              /\ UNCHANGED <<in, list, set, rv, r, transfer>>

NoHandleCode_unset == rv
NoHandleCode == "CURLE_OUT_OF_MEMORY"

NoHandle == /\ pc = "headers" /\ ~HeadersLeft
            /\ rv' = NoHandleCode
            /\ pc' = "cleanup"
            /\ UNCHANGED <<in, next, list, curl, set, r, heap, transfer>>

-----------------------------------------------------------------------------
(* The options, until one of them is refused.                                 *)
Needed(k) == Options[k].field \in in \union {Always}

AtOption == pc = "setopt" /\ next <= Len(Options)

SkipOption == /\ AtOption
              /\ ~Needed(next)
              /\ next' = next + 1
              /\ UNCHANGED <<in, pc, list, curl, set, rv, r, heap, transfer>>

SetOption == /\ AtOption
             /\ Needed(next)
             /\ set' = set \union {next}
             /\ next' = next + 1
             /\ UNCHANGED <<in, pc, list, curl, rv, r, heap, transfer>>

OptionFails == /\ AtOption
               /\ Needed(next)
               /\ rv' = "other error"
               /\ pc' = "cleanup"
               /\ UNCHANGED <<in, next, list, curl, set, r, heap, transfer>>

Perform == /\ pc = "setopt" /\ next > Len(Options)
           /\ pc' = "perform"
           /\ UNCHANGED <<in, next, list, curl, set, rv, r, heap, transfer>>

-----------------------------------------------------------------------------
(* response_cb, on a chunk of n octets; curl hands over none only when the    *)
(* body is empty.                                                             *)
Chunk(n) == [j \in 1 .. n |-> body + j]

Appended_restart(n) == Chunk(n)
Appended(n) == r.payload \o Chunk(n)

NoPayload == [r EXCEPT !.payload = <<>>, !.blocks = 0, !.len = 0]

Called(n) == /\ pc = "perform"
             /\ chunks < MaxChunks
             /\ n = 0 => body = 0
             /\ chunks' = chunks + 1
             /\ body' = body + n
             /\ UNCHANGED <<in, next, list, curl, set, rv, told>>

Receive(n) == /\ Called(n)
              /\ r.len + n > 0 \/ r.blocks = 0
              /\ r' = [r EXCEPT !.payload = Appended(n), !.blocks = 1, !.len = @ + n]
              /\ heap' = heap + 1 - r.blocks
              /\ UNCHANGED <<pc, lost>>

(* realloc gives NULL; the block that r.payload pointed to stays.  curl ends  *)
(* the transfer unless 0, which the callback returns, was the chunk's size.   *)
NoMemory(n) == /\ Called(n)
               /\ r.len + n > 0 \/ r.blocks = 0
               /\ r' = NoPayload
               /\ lost' = lost + r.blocks
               /\ pc' = IF n = 0 THEN "perform" ELSE "refused"
               /\ UNCHANGED heap

(* realloc to 0 octets of a block gives NULL after freeing it.                *)
EmptyAgain(n) == /\ Called(n)
                 /\ r.len + n = 0 /\ r.blocks = 1
                 /\ r' = NoPayload
                 /\ heap' = heap - 1
                 /\ UNCHANGED <<pc, lost>>

(* curl_easy_perform returns.                                                 *)
PerformOk == /\ pc = "perform"
             /\ told' = "success"
             /\ r' = [r EXCEPT !.state = "PERFORMED"]
             /\ pc' = "getinfo" /\ next' = 1
             /\ UNCHANGED <<in, list, curl, set, rv, heap, chunks, body, lost>>

PerformFails == /\ pc \in {"perform", "refused"}
                /\ told' = "failure"
                /\ rv' = IF pc = "refused" THEN "CURLE_WRITE_ERROR" ELSE "other error"
                /\ r' = [r EXCEPT !.state = "PERFORMED"]
                /\ pc' = "cleanup"
                /\ UNCHANGED <<in, next, list, curl, set, heap, chunks, body, lost>>

-----------------------------------------------------------------------------
AtInfo == pc = "getinfo" /\ next <= Len(Infos)

GetInfo == /\ AtInfo
           /\ r' = [r EXCEPT !.known = @ \union {Infos[next]}]
           /\ next' = next + 1
           /\ UNCHANGED <<in, pc, list, curl, set, rv, heap, transfer>>

InfoFails == /\ AtInfo
             /\ rv' = "other error"
             /\ pc' = "cleanup"
             /\ UNCHANGED <<in, next, list, curl, set, r, heap, transfer>>

Complete == /\ pc = "getinfo" /\ next > Len(Infos)
            /\ r' = [r EXCEPT !.state = "COMPLETED"]
            /\ pc' = "cleanup"
            /\ UNCHANGED <<in, next, list, curl, set, rv, heap, transfer>>

HandleBlocks == IF curl = "open" THEN 1 ELSE 0

CleanedUp_twice == 2 * Len(list) + HandleBlocks
CleanedUp_handle == HandleBlocks
CleanedUp == Len(list) + HandleBlocks

Cleanup == /\ pc = "cleanup"
           /\ heap' = heap - CleanedUp
           /\ list' = <<>>
           /\ curl' = IF curl = "open" THEN "closed" ELSE curl
           /\ r' = [r EXCEPT !.curl_rv = rv]
           /\ pc' = "done"
           /\ UNCHANGED <<in, next, set, rv, transfer>>

(* The caller frees the payload, whatever the code (as cli.c does).           *)
Release == /\ pc = "done"
           /\ heap' = heap - r.blocks
           /\ pc' = "released"
           /\ UNCHANGED <<in, next, list, curl, set, rv, r, transfer>>

Next == \/ Enter \/ SkipHeader \/ AppendHeader \/ AppendFails \/ OpenHandle \/ NoHandle
        \/ SkipOption \/ SetOption \/ OptionFails \/ Perform
        \/ (\E n \in ChunkSizes : Receive(n) \/ NoMemory(n) \/ EmptyAgain(n))
        \/ PerformOk \/ PerformFails \/ GetInfo \/ InfoFails \/ Complete
        \/ Cleanup \/ Release

Spec == Init /\ [][Next]_vars

-----------------------------------------------------------------------------
Types ==
  /\ in \in Inputs
  /\ pc \in {"enter", "headers", "setopt", "perform", "refused", "getinfo", "cleanup",
             "done", "released"}
  /\ next \in Nat \ {0}
  /\ list \in Seq(Fields)
  /\ curl \in {"none", "open", "closed"}
  /\ set \subseteq DOMAIN Options
  /\ rv \in Codes
  /\ r \in Responses
  /\ chunks \in 0 .. MaxChunks /\ body \in Nat /\ lost \in Nat
  /\ told \in {"nothing", "success", "failure"}

(* Every variable stays in its type; no more is freed than was allocated.     *)
TypeOK == Types /\ heap \in Nat

(* What the caller may conclude (auth_token.h): the code is that of the       *)
(* response; a success means that the transfer went well and everything asked *)
(* of the handle is there; in the state INIT nothing was received, and an     *)
(* earlier answer in the same response has left no trace.                     *)
CodeAndStateAgree ==
  pc \in {"done", "released"} =>
    /\ r.curl_rv = rv
    /\ rv = "CURLE_OK" <=> r.state = "COMPLETED"
    /\ r.state = "COMPLETED" => told = "success" /\ r.known = InfoNames
    /\ r.state = "INIT" => body = 0 /\ r.known = {} /\ r.blocks = 0

(* The payload is all that was received, octet by octet, or there is none;    *)
(* after a success nothing is missing.                                        *)
PayloadIsWhole ==
  pc # "enter" =>
    /\ r.len = Len(r.payload)
    /\ \A j \in 1 .. r.len : r.payload[j] = j
    /\ r.len = body \/ r.len = 0
    /\ r.blocks = 0 => r.len = 0
    /\ rv = "CURLE_OK" /\ pc # "refused" => r.len = body

(* A request is sent only with every header there is a field for, each once,  *)
(* and with every option: never without the peer's verification or, where one *)
(* is given, the client's certificate.                                        *)
RequestIsComplete ==
  pc \in {"perform", "refused", "getinfo"} =>
    /\ {list[j] : j \in DOMAIN list} = {Headers[k] : k \in DOMAIN Headers} \cap in
    /\ \A j, k \in DOMAIN list : list[j] = list[k] => j = k
    /\ set = {k \in DOMAIN Options : Needed(k)}

(* Whatever failed, the headers and the handle are released; the payload is   *)
(* the caller's. Only what a failed realloc left behind stays allocated.      *)
NothingElseLeaks == /\ pc = "done" => heap = r.blocks + lost
                    /\ pc = "released" => heap = lost
=============================================================================

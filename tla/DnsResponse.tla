---------------------------- MODULE DnsResponse ----------------------------
(***************************************************************************)
(* dns_txt_fetch and the parser below it (dns_txt.c): the resolver's       *)
(* answer is copied, walked over octet by octet and turned into a list of  *)
(* records that point into the copy, or everything is released again.      *)
(*                                                                         *)
(* The octets are chosen as they are read.  That stands for every message, *)
(* because the parser reads no octet of it twice: its index only grows, a  *)
(* compression pointer is stepped over, not followed, and the header is    *)
(* read before the index leaves it.                                        *)
(***************************************************************************)
EXTENDS Integers, Sequences

CONSTANTS
  Lengths,     \* what res_nquery may return: -1, or the length of the message
  Flags,       \* values of the header's third octet
  Rcodes,      \* values of the header's response code
  Counts,      \* values of its question and answer counts
  Octets,      \* values of the octets of a name
  RdLengths    \* values of a record's rdlength

UINT8_MAX  == 255
UINT16_MAX == 65535
HEADER     == 12

ASSUME MessageAssumption ==
  /\ Lengths \subseteq -1 .. UINT16_MAX     \* the buffer has NS_MAXMSG octets
  /\ Flags \subseteq 0 .. UINT8_MAX
  /\ Rcodes \subseteq 0 .. 15
  /\ Counts \subseteq 0 .. UINT16_MAX
  /\ Octets \subseteq 0 .. UINT8_MAX
  /\ RdLengths \subseteq 0 .. UINT16_MAX

VARIABLES
  pc,        \* where dns_txt_fetch is
  len,       \* the length of the message
  i,         \* the parser's index
  hi,        \* history: one past the last octet read
  header,    \* the header, once read
  section,   \* the name being skipped belongs to a question or an answer
  rdlength,  \* of the record being parsed
  answers,   \* the records in the list: where their data starts and its length
  p,         \* the response object: none | local | caller | freed
  full,      \* its copy of the message: none | live | freed
  e,         \* the parser's error
  ret        \* the code returned, "none" before that

vars == <<pc, len, i, hi, header, section, rdlength, answers, p, full, e, ret>>
parser == <<len, i, hi, header, section, rdlength, answers>>

NoHeader == [flags |-> 0, rcode |-> 0, qdcount |-> 0, ancount |-> 0]

Init == /\ pc = "enter"
        /\ len = -1 /\ i = 0 /\ hi = 0
        /\ header = NoHeader
        /\ section = "question"
        /\ rdlength = 0
        /\ answers = <<>>
        /\ p = "none" /\ full = "none"
        /\ e = "XA_OK" /\ ret = "none"

-----------------------------------------------------------------------------
(* dns_txt_fetch up to the parser. *)
Return(code) == pc' = "done" /\ ret' = code

(* A NULL argument; then res_ninit, which may fail. *)
RejectArguments == /\ pc = "enter"
                   /\ Return("XA_INVALID_INPUT")
                   /\ UNCHANGED <<parser, p, full, e>>

InitResolver == /\ pc = "enter"
                /\ \/ pc' = "query" /\ UNCHANGED ret
                   \/ Return("XA_DNS_RESOLVER_ERROR")
                /\ UNCHANGED <<parser, p, full, e>>

Query == /\ pc = "query"
         /\ len' \in Lengths
         /\ IF len' < 1 THEN Return("XA_DNS_RESOLVER_ERROR")
                        ELSE pc' = "allocate" /\ UNCHANGED ret
         /\ UNCHANGED <<i, hi, header, section, rdlength, answers, p, full, e>>

(* calloc of the response object, memdup of the message. *)
Allocate == /\ pc = "allocate"
            /\ \/ p' = "local" /\ pc' = "copy" /\ UNCHANGED ret
               \/ Return("XA_OUT_OF_MEMORY") /\ UNCHANGED p
            /\ UNCHANGED <<parser, full, e>>

Copy == /\ pc = "copy"
        /\ \/ full' = "live" /\ pc' = "header" /\ UNCHANGED <<p, ret>>
           \/ p' = "freed" /\ Return("XA_OUT_OF_MEMORY") /\ UNCHANGED full
        /\ UNCHANGED <<parser, e>>

-----------------------------------------------------------------------------
(* The parser.  Whatever fails is handed to dns_destroy_response. *)
Fail(code) == pc' = "destroy" /\ e' = code
Go(label)  == pc' = label /\ UNCHANGED e
Kept       == UNCHANGED <<len, p, full, ret>>

(* Are there n more octets at the index?  Only then are they read. *)
Fits_lax(n) == i + n <= len + 1
Fits(n) == i + n <= len
Reads(n) == hi' = i + n

(* 0x80 = (0xfa & full[2]): a response to a query, not truncated. *)
GoodFlags == {128, 129, 132, 133}

RcodeError_noDefault(rcode) ==
  IF rcode \in 1 .. 5 THEN "XA_DNS_SERVER_ERROR" ELSE "uninitialised"
RcodeError(rcode) == CASE rcode = 1 -> "XA_DNS_FORMAT_ERROR"
                       [] rcode = 2 -> "XA_DNS_SERVER_ERROR"
                       [] rcode = 3 -> "XA_DNS_NAME_ERROR"
                       [] rcode = 4 -> "XA_DNS_NOT_IMPLEMENTED"
                       [] rcode = 5 -> "XA_DNS_REFUSED"
                       [] OTHER     -> "XA_DNS_UNKNOWN_VALUE"

HeaderError(h) == CASE h.flags \notin GoodFlags -> "XA_DNS_FORMAT_ERROR"
                    [] h.flags \in GoodFlags /\ h.qdcount # 1 -> "XA_DNS_FORMAT_ERROR"
                    [] h.flags \in GoodFlags /\ h.qdcount = 1 /\ h.ancount < 1
                                             -> "XA_DNS_TOO_FEW_ANSWERS"
                    [] OTHER                 -> RcodeError(h.rcode)

GoodHeader(h) == h.flags \in GoodFlags /\ h.qdcount = 1 /\ h.ancount >= 1 /\ h.rcode = 0

Headers == [flags : Flags, rcode : Rcodes, qdcount : Counts, ancount : Counts]

HeaderTooShort == /\ pc = "header"
                  /\ len < HEADER
                  /\ Fail("XA_DNS_RECORD_TOO_SHORT")
                  /\ Kept /\ UNCHANGED <<i, hi, header, section, rdlength, answers>>

ReadHeader == /\ pc = "header"
              /\ len >= HEADER
              /\ hi' = 8
              /\ \E h \in Headers :
                   /\ header' = h
                   /\ IF GoodHeader(h) THEN Go("name") /\ i' = HEADER
                                       ELSE Fail(HeaderError(h)) /\ UNCHANGED i
              /\ Kept /\ UNCHANGED <<section, rdlength, answers>>

(* skip_name, one label or pointer at a time. *)
InName == pc = "name" /\ Fits(1)

NameTooShort == /\ pc = "name"
                /\ ~Fits(1)
                /\ Fail("XA_DNS_RECORD_TOO_SHORT")
                /\ Kept /\ UNCHANGED <<i, hi, header, section, rdlength, answers>>

SkipLabel == /\ InName
             /\ Reads(1)
             /\ \E b \in Octets :
                  /\ b < 64
                  /\ IF Fits(1 + b)
                       THEN i' = i + 1 + b /\ Go(IF b = 0 THEN "fixed" ELSE "name")
                       ELSE Fail("XA_DNS_RECORD_TOO_SHORT") /\ UNCHANGED i
             /\ Kept /\ UNCHANGED <<header, section, rdlength, answers>>

(* A pointer ends the name and is not followed. *)
AfterPointer_followed == [at |-> "name", index |-> HEADER]
AfterPointer == [at |-> "fixed", index |-> i + 2]

SkipPointer == /\ InName
               /\ Reads(1)
               /\ \E b \in Octets : b >= 192
               /\ IF Fits(2) THEN i' = AfterPointer.index /\ Go(AfterPointer.at)
                             ELSE Fail("XA_DNS_RECORD_TOO_SHORT") /\ UNCHANGED i
               /\ Kept /\ UNCHANGED <<header, section, rdlength, answers>>

BadLabel == /\ InName
            /\ Reads(1)
            /\ \E b \in Octets : b \in 64 .. 191
            /\ Fail("XA_DNS_RECORD_INVALID")
            /\ Kept /\ UNCHANGED <<i, header, section, rdlength, answers>>

(* The question's type and class are not looked at. *)
SkipQuestion == /\ pc = "fixed"
                /\ section = "question"
                /\ IF Fits(4) THEN i' = i + 4 /\ section' = "answer" /\ Go("name")
                              ELSE Fail("XA_DNS_RECORD_TOO_SHORT") /\ UNCHANGED <<i, section>>
                /\ Kept /\ UNCHANGED <<hi, header, rdlength, answers>>

(* type, class, ttl and rdlength of an answer. *)
RecordHeader_short == 8
RecordHeader == 10

ReadRecord == /\ pc = "fixed"
              /\ section = "answer"
              /\ IF Fits(RecordHeader)
                   THEN /\ Reads(10)
                        /\ rdlength' \in RdLengths
                        /\ i' = i + 10
                        /\ Go("rdata")
                   ELSE /\ Fail("XA_DNS_RECORD_TOO_SHORT")
                        /\ UNCHANGED <<hi, i, rdlength>>
              /\ Kept /\ UNCHANGED <<header, section, answers>>

DataTooShort == /\ pc = "rdata"
                /\ ~Fits(rdlength)
                /\ Fail("XA_DNS_RECORD_TOO_SHORT")
                /\ Kept /\ UNCHANGED <<i, hi, header, section, rdlength, answers>>

(* The complete record is copied and appended; process_answers counts.        *)
MoreAnswers == Len(answers) + 1 < header.ancount

Past_stays == i
Past == i + rdlength

AppendRecord == /\ pc = "rdata"
                /\ Fits(rdlength)
                /\ \/ /\ answers' = Append(answers, [rdata |-> i, rdlength |-> rdlength])
                      /\ i' = Past
                      /\ Go(IF MoreAnswers THEN "name" ELSE "success")
                   \/ /\ Fail("XA_OUT_OF_MEMORY")
                      /\ UNCHANGED <<answers, i>>
                /\ Kept /\ UNCHANGED <<hi, header, section, rdlength>>

-----------------------------------------------------------------------------
(* dns_destroy_response: the records one by one, the message, the object.     *)
FreeRecord == /\ pc = "destroy"
              /\ answers # <<>>
              /\ answers' = Tail(answers)
              /\ UNCHANGED <<pc, len, i, hi, header, section, rdlength, p, full, e, ret>>

FreeMessage_not == full
FreeMessage == "freed"

FreeResponse == /\ pc = "destroy"
                /\ answers = <<>>
                /\ full' = FreeMessage
                /\ p' = "freed"
                /\ Return(e)
                /\ UNCHANGED <<parser, e>>

Succeed == /\ pc = "success"
           /\ p' = "caller"
           /\ Return("XA_OK")
           /\ UNCHANGED <<parser, full, e>>

Next == \/ RejectArguments \/ InitResolver \/ Query \/ Allocate \/ Copy
        \/ HeaderTooShort \/ ReadHeader
        \/ NameTooShort \/ SkipLabel \/ SkipPointer \/ BadLabel
        \/ SkipQuestion \/ ReadRecord \/ DataTooShort \/ AppendRecord
        \/ FreeRecord \/ FreeResponse \/ Succeed

Spec == Init /\ [][Next]_vars

(* The function runs to its end; the resolver answers or gives up. *)
FairSpec == Spec /\ WF_vars(Next)

-----------------------------------------------------------------------------
Codes == {"XA_OK", "XA_INVALID_INPUT", "XA_OUT_OF_MEMORY", "XA_DNS_RESOLVER_ERROR",
          "XA_DNS_RECORD_TOO_SHORT", "XA_DNS_RECORD_INVALID", "XA_DNS_FORMAT_ERROR",
          "XA_DNS_SERVER_ERROR", "XA_DNS_NAME_ERROR", "XA_DNS_NOT_IMPLEMENTED",
          "XA_DNS_REFUSED", "XA_DNS_UNKNOWN_VALUE", "XA_DNS_TOO_FEW_ANSWERS"}

Recs == [rdata : Nat, rdlength : 0 .. UINT16_MAX]

(* Every variable stays in its type. *)
TypeOK ==
  /\ pc \in {"enter", "query", "allocate", "copy", "header", "name", "fixed", "rdata",
             "success", "destroy", "done"}
  /\ len \in -1 .. UINT16_MAX
  /\ i \in Nat /\ hi \in Nat
  /\ header \in [flags : Flags, rcode : Rcodes, qdcount : Counts, ancount : Counts]
                  \union {NoHeader}
  /\ section \in {"question", "answer"}
  /\ rdlength \in 0 .. UINT16_MAX
  /\ answers \in Seq(Recs)
  /\ p \in {"none", "local", "caller", "freed"}
  /\ full \in {"none", "live", "freed"}
  /\ e \in Codes
  /\ ret \in Codes \union {"none"}

(* No octet beyond the message is read, whatever the message says of its own  *)
(* structure (the length checks of skip_name, skip_question, process_rr).     *)
ReadsInBounds == full = "live" => hi <= len

(* A record's data lies in the message, behind the data of the record before  *)
(* it and at least the eleven octets of its own name and header: no two       *)
(* records share an octet and none can be grown over the next.                *)
EndOf(r) == r.rdata + r.rdlength
RecordsDisjoint ==
  \A k \in 1 .. Len(answers) :
    /\ EndOf(answers[k]) <= len
    /\ k > 1 => EndOf(answers[k - 1]) + 11 <= answers[k].rdata

(* However large the answer count, the list holds no more records than the    *)
(* message has room for: eleven octets each behind a header and a question.   *)
ListFitsMessage == answers # <<>> => HEADER + 5 + 11 * Len(answers) <= len

(* The caller gets a whole response, with as many records as the header says, *)
(* or nothing: after a failure every block of it has been released.           *)
AllOrNothing ==
  ret # "none" => IF ret = "XA_OK"
                    THEN /\ p = "caller" /\ full = "live"
                         /\ Len(answers) = header.ancount
                    ELSE p \in {"none", "freed"} /\ full # "live" /\ answers = <<>>

(* Every message is parsed to an end: no name makes skip_name loop. *)
Terminates == <>(pc = "done")

(* A response code other than 0 in a proper answer to the one question is     *)
(* told to the caller under its own name, as the comments of the switch say.  *)
RcodeReported ==
  ret # "none" /\ header.flags \in GoodFlags /\ header.qdcount = 1 /\ header.rcode # 0
    => ret = RcodeError(header.rcode)
=============================================================================

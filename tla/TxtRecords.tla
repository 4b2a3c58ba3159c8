----------------------------- MODULE TxtRecords -----------------------------
(***************************************************************************)
(* What dns_txt.c reads of one DNS answer when it looks for a piece of the *)
(* token: a TXT record whose text is a two-character fragment number, a    *)
(* colon and the fragment's payload.  The payload's bytes are not told     *)
(* apart; only their number matters.                                       *)
(***************************************************************************)
EXTENDS Integers, Sequences

CONSTANT UINT32_MAX   \* the largest ttl; 2^32 - 1 in the code

ASSUME TtlAssumption == UINT32_MAX \in Nat

UINT8_MAX  == 255
UINT16_MAX == 65535
Octet == 0 .. UINT8_MAX
U16   == 0 .. UINT16_MAX

TXT   == 16      \* ns_t_txt
COLON == 58      \* ':'

(***************************************************************************)
(* A struct dns_rr with the octets of rdata that append_frag looks at: tag *)
(* holds rdata[1] and rdata[2], sep holds rdata[3].  They mean nothing     *)
(* when rdlength does not reach them.                                      *)
(***************************************************************************)
Tags    == Octet \X Octet
Records == [type : U16, ttl : 0 .. UINT32_MAX, rdlength : U16,
            tag : Tags, sep : Octet]

-----------------------------------------------------------------------------
IsDigit(c) == c \in 48 .. 57
IsSpace(c) == c \in {9, 10, 11, 12, 13, 32}
PLUS  == 43
MINUS == 45

(***************************************************************************)
(* atoi on two characters followed by a colon: an optional space, an       *)
(* optional sign, then digits up to the first character that is none.      *)
(***************************************************************************)
Atoi(s) ==
  LET a == s[1]
      b == s[2]
  IN  CASE IsDigit(a) /\ IsDigit(b)                    -> 10 * (a - 48) + (b - 48)
        [] IsDigit(a) /\ ~IsDigit(b)                   -> a - 48
        [] (IsSpace(a) \/ a = PLUS) /\ IsDigit(b)      -> b - 48
        [] a = MINUS /\ IsDigit(b)                     -> 48 - b
        [] OTHER                                       -> 0

(* The checks append_frag makes before it looks at the number. *)
IsFragment(rr) == rr.type = TXT /\ rr.rdlength >= 4 /\ rr.sep = COLON

(* rr is a piece of a token and its number is n. *)
Carries(rr, n) == IsFragment(rr) /\ Atoi(rr.tag) = n

(* The payload follows the length octet, the two-character tag and the colon. *)
PayloadSize_lengthTwice(rr) == rr.rdlength - 5
PayloadSize(rr) == rr.rdlength - 4
=============================================================================

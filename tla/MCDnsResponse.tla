--------------------------- MODULE MCDnsResponse ---------------------------
(***************************************************************************)
(* DnsResponse on messages of the lengths at which something changes: none,*)
(* shorter than a header, and every length around those at which a         *)
(* question, a first, a second and a third record just fit.                *)
(***************************************************************************)
EXTENDS DnsResponse

MCLengths == {-1, 0, 1, 11} \union 12 .. 18 \union 26 .. 32 \union 38 .. 44 \union 50 .. 53
=============================================================================

--------------------------- MODULE MCDnsTokenCli ---------------------------
(***************************************************************************)
(* DnsTokenCli on messages of up to three records, which just fit or just  *)
(* do not, with ttls on both sides of the sign bit.                        *)
(***************************************************************************)
EXTENDS DnsTokenCli

Piece(number, ttl) == [type |-> 16, ttl |-> ttl, tag |-> <<48, 48 + number>>, sep |-> 58]

Small   == <<0, 0, 0, 3>>
Highest == <<1, 3, 3, 3>>
SignBit == <<2, 0, 0, 0>>
AllOnes == <<3, 3, 3, 3>>

MCContents == {Piece(1, Small), Piece(1, SignBit), Piece(2, AllOnes), Piece(2, Highest),
               Piece(3, SignBit),
               [type |-> 5, ttl |-> <<0, 0, 0, 0>>, tag |-> <<48, 49>>, sep |-> 58]}
=============================================================================

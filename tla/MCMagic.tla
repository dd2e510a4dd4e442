------------------------------ MODULE MCMagic ------------------------------
(***************************************************************************)
(* Addresses at the edges of the notations: octets of one, two and three   *)
(* digits, an IPv6 address that ends in four octets, one with two runs of  *)
(* zeros, and ::.                                                          *)
(***************************************************************************)
EXTENDS Magic

MCAddress4 == {<< 10, 0, 0, 7 >>, << 255, 99, 100, 200 >>, << 0, 0, 0, 0 >>}

MCAddress6 ==
    {<< 8193, 3512, 0, 0, 0, 0, 0, 66 >>,     \* 2001:db8::42
     << 1, 0, 0, 4, 5, 0, 0, 65535 >>,
     << 0, 0, 0, 0, 0, 0, 0, 0 >>,
     << 1, 2, 3, 4, 5, 6, 7, 8 >>}

\* "", "0", "10", "256", "01", "ffff", "db", "a-b-c-d", "0a000007", "x", "%x"
MCPart ==
    {<< >>, << 0 >>, << 1, 0 >>, << 2, 5, 6 >>, << 0, 1 >>, << 15, 15, 15, 15 >>,
     << 13, 11 >>, << 10, Dash, 11, Dash, 12, Dash, 13 >>,
     << 0, 10, 0, 0, 0, 0, 0, 7 >>, << Other >>, << Percent, Other >>}
=============================================================================

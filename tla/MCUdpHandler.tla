------------------------------ MODULE MCUdpHandler ------------------------------
(* Datagrams on both sides of every length and cap the handler looks at.      *)
EXTENDS UdpHandler

Lengths == {0, 15, 16, 35, 36, 97, 98, 1516, 1536, 3000}

Headers == {d \in [ len : Lengths, action : 0..3, magic : BOOLEAN, valid : BOOLEAN,
                    v4 : {TRUE}, stopped : {FALSE}, num_want : {-1} ] :
              d.magic => d.action = 0}

MCDatagrams == Headers \cup
  [ len : {98, 120}, action : {1}, magic : {FALSE}, valid : {TRUE},
    v4 : BOOLEAN, stopped : BOOLEAN, num_want : {-1, 0, 66, 67, 200, 201} ]

MCSwarms ==
  { [complete |-> 0, incomplete |-> 0, downloaded |-> 0, peers |-> 0],
    [complete |-> 0, incomplete |-> 1, downloaded |-> 2, peers |-> 0],
    [complete |-> 1, incomplete |-> 0, downloaded |-> 0, peers |-> 1],
    [complete |-> 60, incomplete |-> 60, downloaded |-> 1, peers |-> 67],
    [complete |-> 90, incomplete |-> 300, downloaded |-> 0, peers |-> 300] }
=============================================================================

------------------------------- MODULE MCCSim -------------------------------
(***************************************************************************)
(* csim on every short trace, in two sets of two lines and with three      *)
(* blocks each; the address 16384 has a tag that an int of 12 bits cuts    *)
(* down to the tag of address 0.  test-trans on the sizes of driver.py and *)
(* on two others, with the addresses of the trace that is kept beside the  *)
(* code (Cache/trace.f0).                                                  *)
(***************************************************************************)
EXTENDS TestTrans

MCTraceLines ==
    [op : {"L"}, addr : {0, 2, 8, 10, 16, 18, 16384}]
        \cup [op : {"M"}, addr : {0, 2, 8, 16}]
        \cup [op : {"S", "I", "X"}, addr : {16}]

MCSizes == {<<32, 32>>, <<64, 64>>, <<61, 67>>, <<4, 4>>, <<3, 5>>}

MCAddress ==
    [A |-> 1101952, B |-> 1364096, N |-> 1626240, M |-> 1626244,
     MARKER_START |-> 1626252, MARKER_END |-> 1626253, func_list |-> 1626272]
=============================================================================

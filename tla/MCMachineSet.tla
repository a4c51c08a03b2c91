---------------------------- MODULE MCMachineSet ----------------------------
(* Provider specs for TLC: two that differ, one that overflows 8-bit       *)
(* integers and one that does not decode.                                  *)
EXTENDS MachineSet

SmallSpecs ==
    { [decodes |-> TRUE,  vcpus |-> 2,  sockets |-> 2, memory |-> 4 * 1024 * 1024],
      [decodes |-> TRUE,  vcpus |-> 1,  sockets |-> 2, memory |-> 3 * 1024 * 1024 + 5],
      [decodes |-> TRUE,  vcpus |-> 16, sockets |-> 9, memory |-> 0],
      [decodes |-> FALSE, vcpus |-> 0,  sockets |-> 0, memory |-> 0] }
=============================================================================

----------------------------- MODULE MCGpuDevice -----------------------------
(* Cards of one or two units, asked for any number of cores up to more than  *)
(* they have, with memory for all or for some of them.                       *)
EXTENDS GpuDevice

SmallCards ==
  [cores : 0 .. 3, units : {1, 2}, group : {1}, memory : {2, 4, 8},
   nvidia : BOOLEAN, zcb : BOOLEAN, exists : {TRUE}]
  \cup [cores : {0}, units : {1}, group : {2}, memory : {2, 4},
        nvidia : {FALSE}, zcb : BOOLEAN, exists : BOOLEAN]
=============================================================================

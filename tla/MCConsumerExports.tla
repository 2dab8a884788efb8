--------------------------- MODULE MCConsumerExports ---------------------------
(* The three exports int_inventory_hourly reads, in the order the job       *)
(* publishes them.                                                          *)
EXTENDS ConsumerExports

CONSTANTS offset_gaps, events, hourly

JobOrder == <<offset_gaps, events, hourly>>
===============================================================================

------------------------------ MODULE MCFormat ------------------------------
(***************************************************************************)
(* Numbers of 12 bits, units of 4 and sectors of 2, so that there are more *)
(* values than the units reach, as there are with 64 bits and units of     *)
(* 1024: the boundaries of every unit, disks up to the largest, and        *)
(* logical blocks that are sectors or are eight times as large.            *)
(***************************************************************************)
EXTENDS Format, FiniteSets

MCUnit == <<1, 4, 16, 64, 256>>

Boundaries == {0, 1, 3, 4, 5, 15, 16, 63, 64, 255, 256, 1023, 1024, 4095}

MCSamples ==
    [physical_block_size    : Boundaries,
     logical_block_size     : {2, 16},
     size                   : {0, 2, 3, 8, 31, 32, 127, 128, 511, 512, 1023},
     discard_granularity    : {8},
     write_same_max_bytes   : {0, 4, 17},
     write_zeroes_max_bytes : {0, 4, 17},
     tx_frames              : {64, 2047, 2048, 4095},
     rx_frames              : {64, 2047, 2048, 4095}]

\* print_scsi_disk_details() and print_scsi_queue_data(), then two lines of
\* print_fc_port_stats().
MCLines ==
    <<{Capacity}, {"physical_block_size"}, {"discard_granularity"},
      {"write_same_max_bytes", "write_zeroes_max_bytes"}, {"tx_frames"}, {"rx_frames"}>>

\* The line of print_scsi_queue_data() that shows two sizes.
TwoSizes == <<{"write_same_max_bytes", "write_zeroes_max_bytes"}>>
=============================================================================

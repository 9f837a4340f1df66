\* Sizes and counters on their way from the files to the paper.
SPECIFICATION Spec
CONSTANTS
    Half = 2048
    KB = 4
    Unit <- MCUnit
    Sector = 2
    Sizes = {"logical_block_size", "size", "physical_block_size", "discard_granularity", "write_same_max_bytes", "write_zeroes_max_bytes"}
    Unread = {"discard_granularity"}
    Counters = {"tx_frames", "rx_frames"}
    Samples <- MCSamples
    Lines <- MCLines
INVARIANTS SizesTrue CountersInOrder

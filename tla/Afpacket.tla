-------------------------------- MODULE Afpacket ---------------------------------
(***************************************************************************)
(* afpacketComputeSize of sniffer/sniffer.go: the layout of the ring       *)
(* buffer that the af_packet sniffer maps.                                 *)
(***************************************************************************)
EXTENDS Integers

MegaByte == 1024 * 1024

\* Mutant: the remainder is forgotten for frames of several pages.
FrameSizeRoundedDown(snaplen, page_size) ==
    IF snaplen < page_size THEN page_size \div (page_size \div snaplen)
                           ELSE (snaplen \div page_size) * page_size

\* As many frames as possible in a page, or frames of several pages.
FrameSize(snaplen, page_size) ==
    IF snaplen < page_size THEN page_size \div (page_size \div snaplen)
                           ELSE (snaplen \div page_size + 1) * page_size

\* 128 is the default of gopacket.
BlockSize(snaplen, page_size) == FrameSize(snaplen, page_size) * 128

NumBlocks(target_size_mb, snaplen, page_size) ==
    (target_size_mb * MegaByte) \div BlockSize(snaplen, page_size)
===============================================================================

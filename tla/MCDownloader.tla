---------------------------- MODULE MCDownloader ----------------------------
(* Downloader on small instances: 20 bytes hit every tenth percent and     *)
(* some in between, 3 bytes make jumps, 0 is a size that is not announced. *)
EXTENDS Downloader

MCSizes == {0, 3, 20}
=============================================================================
